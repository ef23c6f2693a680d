------------------------- MODULE JsonRPCEventProofs -------------------------
(***************************************************************************)
(* What an HTTP client is sent for a batch: one event for every answer,    *)
(* numbered from 1, each ended by a blank line; and that this is what      *)
(* reading the characters yields.                                          *)
(***************************************************************************)
EXTENDS JsonRPCCoreProofs, JsonRPCWire, EventStreamProofs

----------------------------------------------------------------------------
(* Pieces and answers.                                                     *)

\* Where the pieces of the events stand; the last event may be without its blank line.
Numbered(text, as) ==
  \A k \in 1..Len(as) :
    /\ text[3 * k - 2] = Piece("id", k)
    /\ text[3 * k - 1] = Piece("item", as[k].id)
    /\ 3 * k <= Len(text) => text[3 * k] = Separator("blank")

\* The events of a context that is in use, and those of one that is closed.
Sending(c, as) ==
  /\ c \in ContextType /\ c.stream
  /\ c.count = Len(as)
  /\ Len(c.text) = IF c.count = 0 THEN 0 ELSE 3 * c.count - 1
  /\ Numbered(c.text, as)

Complete(c, as) == Len(c.text) = 3 * Len(as) /\ Numbered(c.text, as)

LEMMA PieceTypes ==
  ASSUME NEW n \in Nat
  PROVE  /\ Piece("id", n) \in PieceType /\ Piece("item", n) \in PieceType
         /\ Separator("blank") \in PieceType
  BY DEF Piece, Separator, PieceType

LEMMA TwoPieces ==
  ASSUME NEW z \in PieceType, NEW y \in PieceType
  PROVE  Len(<<z>> \o <<y>>) = 2 /\ (<<z>> \o <<y>>)[1] = z /\ (<<z>> \o <<y>>)[2] = y
  OBVIOUS

\* A text in three parts, piece by piece.
InParts(u, t, b, x) ==
  /\ Len(u) = Len(t) + Len(b) + 1
  /\ \A i \in 1..Len(t) : u[i] = t[i]
  /\ \A i \in 1..Len(b) : u[Len(t) + i] = b[i]
  /\ u[Len(t) + Len(b) + 1] = x

LEMMA ThreeParts ==
  ASSUME NEW t \in Seq(PieceType), NEW b \in Seq(PieceType), NEW x \in PieceType
  PROVE  InParts((t \o b) \o <<x>>, t, b, x)
  BY DEF InParts

\* What addItem writes before an item of a stream: the end of the event before, if there
\* is one, and the id.
LEMMA BeforeEvent ==
  ASSUME transport = "server", NEW c \in ContextType, c.stream
  PROVE  /\ Before(c) \in Seq(PieceType)
         /\ c.count = 0 => Len(Before(c)) = 1 /\ Before(c)[1] = Piece("id", 1)
         /\ c.count > 0 => /\ Len(Before(c)) = 2 /\ Before(c)[1] = Separator("blank")
                           /\ Before(c)[2] = Piece("id", c.count + 1)
<1>. DEFINE y == Piece("id", c.count + 1)
            z == Separator("blank")
<1>1. c.count \in Nat /\ y \in PieceType /\ z \in PieceType
  BY PieceTypes DEF ContextType
<1>2. Before(c) = (IF c.count > 0 THEN <<z>> ELSE <<>>) \o <<y>>
  BY DEF Before
<1>3. Before(c) \in Seq(PieceType)
  BY BeforeType DEF Transport
<1>4. CASE c.count = 0
  <2>1. y = Piece("id", 1)
    BY <1>4
  <2>. HIDE DEF y, z
  <2>2. Before(c) = <<y>>
    BY <1>1, <1>2, <1>4
  <2>. QED
    BY <1>3, <1>4, <2>1, <2>2
<1>5. CASE c.count > 0
  <2>. HIDE DEF y, z
  <2>1. Before(c) = <<z>> \o <<y>>
    BY <1>1, <1>2, <1>5
  <2>3. Len(<<z>> \o <<y>>) = 2 /\ (<<z>> \o <<y>>)[1] = z /\ (<<z>> \o <<y>>)[2] = y
    BY <1>1, TwoPieces
  <2>4. Len(Before(c)) = 2 /\ Before(c)[1] = z /\ Before(c)[2] = y
    BY Zenon, <2>1, <2>3
  <2>. QED
    BY <1>3, <1>5, <2>4 DEF y, z
<1>. QED
  BY <1>1, <1>4, <1>5

\* The pieces before an item with n items before it.
Begins(b, n) ==
  /\ b \in Seq(PieceType)
  /\ n = 0 => Len(b) = 1 /\ b[1] = Piece("id", 1)
  /\ n > 0 => Len(b) = 2 /\ b[1] = Separator("blank") /\ b[2] = Piece("id", n + 1)

\* One answer more.
AnswerMore(bs, as, n) == Len(as) = n /\ Len(bs) = n + 1 /\ \A k \in 1..n : bs[k] = as[k]

\* A text with n events and the same text with an event more.
Follows(u, t, b, as, bs, n) ==
  /\ t \in Seq(PieceType)
  /\ Len(t) = IF n = 0 THEN 0 ELSE 3 * n - 1
  /\ Numbered(t, as) /\ AnswerMore(bs, as, n) /\ Begins(b, n)
  /\ InParts(u, t, b, Piece("item", bs[n + 1].id))

Filled(u, bs, n) == Len(u) = 3 * (n + 1) - 1 /\ Numbered(u, bs)

\* Where the next event's pieces come.
LEMMA NextEvent ==
  ASSUME NEW t, NEW n \in Nat, NEW as, NEW bs, NEW b, NEW u, Follows(u, t, b, as, bs, n)
  PROVE  Filled(u, bs, n)
<1>a. /\ t \in Seq(PieceType)
      /\ Len(t) = IF n = 0 THEN 0 ELSE 3 * n - 1
  BY DEF Follows
<1>b. Numbered(t, as) /\ AnswerMore(bs, as, n) /\ Begins(b, n) /\ InParts(u, t, b, Piece("item", bs[n + 1].id))
  BY DEF Follows
<1>. DEFINE l == Len(t)
<1>0. /\ l \in Nat /\ l = Len(t) /\ l = (IF n = 0 THEN 0 ELSE 3 * n - 1)
      /\ Len(as) = n /\ Len(bs) = n + 1 /\ \A k \in 1..n : bs[k] = as[k]
      /\ b \in Seq(PieceType)
      /\ n = 0 => Len(b) = 1 /\ b[1] = Piece("id", 1)
      /\ n > 0 => Len(b) = 2 /\ b[1] = Separator("blank") /\ b[2] = Piece("id", n + 1)
  BY <1>a, <1>b, LenProperties DEF AnswerMore, Begins
<1>. HIDE DEF l
<1>. DEFINE m == Len(b)
<1>1. m \in Nat /\ m = Len(b) /\ m = IF n = 0 THEN 1 ELSE 2
  BY <1>0
<1>. HIDE DEF m
<1>2. /\ Len(u) = l + m + 1
      /\ \A i \in 1..l : u[i] = t[i]
      /\ \A i \in 1..m : u[l + i] = b[i]
      /\ u[l + m + 1] = Piece("item", bs[n + 1].id)
  BY <1>b, <1>0, <1>1 DEF InParts
<1>3. l + m + 1 = 3 * (n + 1) - 1
  BY <1>0, <1>1
<1>4. ASSUME NEW k \in 1..n
      PROVE  /\ u[3 * k - 2] = Piece("id", k) /\ u[3 * k - 1] = Piece("item", bs[k].id)
             /\ u[3 * k] = Separator("blank")
  <2>1. 3 * k - 2 \in 1..l /\ 3 * k - 1 \in 1..l /\ n > 0 /\ n # 0
    BY <1>0
  <2>2. t[3 * k - 2] = Piece("id", k) /\ t[3 * k - 1] = Piece("item", as[k].id)
    BY <1>0, <1>b DEF Numbered
  <2>3. u[3 * k - 2] = Piece("id", k) /\ u[3 * k - 1] = Piece("item", bs[k].id)
    BY <1>0, <1>2, <2>1, <2>2
  <2>4. CASE k < n
    <3>1. 3 * k \in 1..l /\ 3 * k <= Len(t)
      BY <1>0, <2>4
    <3>2. t[3 * k] = Separator("blank")
      BY <1>0, <1>b, <3>1 DEF Numbered
    <3>. QED
      BY <1>2, <2>3, <3>1, <3>2
  <2>5. CASE k = n
    <3>1. 3 * k = l + 1 /\ 1 \in 1..m
      BY <1>0, <1>1, <2>5
    <3>2. u[l + 1] = b[1]
      BY <1>2, <3>1
    <3>. QED
      BY <1>0, <2>1, <2>3, <3>1, <3>2
  <2>6. k < n \/ k = n
    OBVIOUS
  <2>. QED
    BY <2>4, <2>5, <2>6
<1>5. /\ u[3 * (n + 1) - 2] = Piece("id", n + 1)
      /\ u[3 * (n + 1) - 1] = Piece("item", bs[n + 1].id)
  <2>1. 3 * (n + 1) - 2 = l + m /\ m \in 1..m
    BY <1>0, <1>1
  <2>2. u[l + m] = b[m]
    BY <1>2, <2>1
  <2>3. b[m] = Piece("id", n + 1)
    <3>1. CASE n = 0
      <4>1. m = 1 /\ n + 1 = 1
        BY <1>1, <3>1
      <4>. QED
        BY <1>0, <3>1, <4>1
    <3>2. CASE n > 0
      <4>1. m = 2
        BY <1>1, <3>2
      <4>. QED
        BY <1>0, <3>2, <4>1
    <3>. QED
      BY <3>1, <3>2
  <2>. QED
    BY <1>2, <1>3, <2>1, <2>2, <2>3
<1>6. ~(3 * (n + 1) <= Len(u))
  BY <1>2, <1>3
<1>7. Numbered(u, bs)
  <2>1. \A k \in 1..n + 1 : k \in 1..n \/ k = n + 1
    OBVIOUS
  <2>. QED
    BY <1>0, <1>4, <1>5, <1>6, <2>1 DEF Numbered
<1>. QED
  BY <1>2, <1>3, <1>7 DEF Filled

----------------------------------------------------------------------------
(* Contexts.                                                               *)

LEMMA WrittenText ==
  ASSUME Transport, NEW c \in ContextType, NEW id \in Nat
  PROVE  Write(c, id, c.status).text = (c.text \o Before(c)) \o <<Piece("item", id)>>
<1>. DEFINE text == (c.text \o Before(c)) \o <<Piece("item", id)>>
            sent == IF c.sent = 0 THEN c.status ELSE c.sent
            count == c.count + 1
            w == [c EXCEPT !.status = c.status, !.sent = sent, !.text = text, !.count = count]
<1>1. Write(c, id, c.status) = w
  BY DEF Write
<1>. DEFINE Pieces == Seq(PieceType)
            Stati == {200, 202, 400}
            Sent == {0, 200, 202, 400}
<1>2. ContextType = [stream : BOOLEAN, count : Nat, status : Stati, sent : Sent, text : Pieces]
  BY DEF ContextType
<1>. HIDE DEF text, sent, count, Pieces, Stati, Sent
<1>3. w.text = text
  BY <1>2
<1>. HIDE DEF w
<1>. QED
  BY <1>1, <1>3 DEF text

LEMMA Appended ==
  ASSUME NEW C, NEW as \in Seq(C), NEW a \in C
  PROVE  /\ Append(as, a) \in Seq(C) /\ Len(Append(as, a)) = Len(as) + 1 /\ Len(as) \in Nat
         /\ \A k \in 1..Len(as) : Append(as, a)[k] = as[k]
         /\ Append(as, a)[Len(as) + 1] = a
<1>1. Append(as, a) \in Seq(C)
  BY AppendProperties
<1>2. Len(Append(as, a)) = Len(as) + 1 /\ Len(as) \in Nat
  BY AppendProperties, LenProperties
<1>3. \A k \in 1..Len(as) : Append(as, a)[k] = as[k]
  BY AppendProperties
<1>4. Append(as, a)[Len(as) + 1] = a
  BY AppendProperties
<1>. QED
  BY <1>1, <1>2, <1>3, <1>4

\* An item more in a stream is an answer more.
LEMMA ItemSent ==
  ASSUME transport = "server", NEW c, NEW as \in Seq(Answer), Sending(c, as), NEW a \in Answer
  PROVE  Sending(Write(c, a.id, c.status), Append(as, a)) /\ Append(as, a) \in Seq(Answer)
<1>. DEFINE bs == Append(as, a)
            n == Len(as)
            w == Write(c, a.id, c.status)
            b == Before(c)
            x == Piece("item", a.id)
<1>1. /\ bs \in Seq(Answer) /\ Len(bs) = n + 1 /\ n \in Nat
      /\ \A k \in 1..n : bs[k] = as[k]
      /\ bs[n + 1] = a
  BY Appended
<1>. HIDE DEF bs, n, w, b, x
<1>2. /\ c \in ContextType /\ c.stream /\ c.count = n /\ Transport /\ c.text \in Seq(PieceType)
      /\ Len(c.text) = (IF n = 0 THEN 0 ELSE 3 * n - 1) /\ Len(c.text) \in Nat
      /\ Numbered(c.text, as)
  <2>1. c \in ContextType /\ c.stream /\ Numbered(c.text, as) /\ c.count = n
    BY DEF Sending, n
  <2>2. Len(c.text) = (IF c.count = 0 THEN 0 ELSE 3 * c.count - 1)
    BY DEF Sending
  <2>3. c.text \in Seq(PieceType) /\ Transport
    BY <2>1 DEF ContextType, Transport
  <2>4. Len(c.text) \in Nat
    BY <2>3, LenProperties
  <2>. QED
    BY <2>1, <2>2, <2>3, <2>4
<1>3. a.id \in Nat /\ x \in PieceType /\ c.status \in {200, 202, 400}
  <2>1. a.id \in Nat
    BY DEF Answer
  <2>2. x \in PieceType
    BY <2>1, PieceTypes DEF x
  <2>3. c.status \in {200, 202, 400}
    BY <1>2 DEF ContextType
  <2>. QED
    BY <2>1, <2>2, <2>3
<1>4. w \in ContextType /\ w.stream = c.stream /\ w.count = c.count + 1
  <2>1. WrittenTo(c, w)
    BY <1>2, <1>3, WriteType DEF w
  <2>. QED
    BY <2>1 DEF WrittenTo
<1>5. w.text = (c.text \o b) \o <<x>>
  <2>1. Write(c, a.id, c.status).text = (c.text \o Before(c)) \o <<Piece("item", a.id)>>
    BY <1>2, <1>3, WrittenText
  <2>. QED
    BY <2>1 DEF w, b, x
<1>6. /\ b \in Seq(PieceType)
      /\ n = 0 => Len(b) = 1 /\ b[1] = Piece("id", 1)
      /\ n > 0 => Len(b) = 2 /\ b[1] = Separator("blank") /\ b[2] = Piece("id", n + 1)
  BY <1>1, <1>2, BeforeEvent DEF b
<1>7. InParts(w.text, c.text, b, x) /\ x = Piece("item", bs[n + 1].id)
  <2>. DEFINE t == c.text
  <2>1. t \in Seq(PieceType)
    BY <1>2
  <2>. HIDE DEF t
  <2>2. InParts((t \o b) \o <<x>>, t, b, x)
    BY <1>3, <1>6, <2>1, ThreeParts
  <2>3. InParts(w.text, c.text, b, x)
    BY <1>5, <2>2 DEF t
  <2>. QED
    BY <1>1, <2>3 DEF x
<1>8. Len(w.text) = 3 * (n + 1) - 1 /\ Numbered(w.text, bs)
  <2>. DEFINE t == c.text
              l == Len(t)
              u == w.text
  <2>1. t \in Seq(PieceType) /\ l \in Nat /\ l = Len(t) /\ l = (IF n = 0 THEN 0 ELSE 3 * n - 1) /\ Numbered(t, as)
    BY <1>2
  <2>2. InParts(u, t, b, x) /\ x = Piece("item", bs[n + 1].id) /\ Len(as) = n
    BY <1>7 DEF n
  <2>3. Begins(b, n) /\ AnswerMore(bs, as, n) /\ Len(t) = (IF n = 0 THEN 0 ELSE 3 * n - 1) /\ n \in Nat
    BY <1>1, <1>6, <2>1, <2>2 DEF Begins, AnswerMore
  <2>. HIDE DEF t, l, u
  <2>4. Len(u) = 3 * (n + 1) - 1 /\ Numbered(u, bs)
    <3>1. Follows(u, t, b, as, bs, n)
      BY <2>1, <2>2, <2>3 DEF Follows
    <3>2. Filled(u, bs, n)
      BY <2>3, <3>1, NextEvent
    <3>. QED
      BY <3>2 DEF Filled
  <2>. QED
    BY <2>4 DEF u
<1>9. w.count # 0 /\ w.count = Len(bs) /\ w.count = n + 1
  BY <1>1, <1>2, <1>4
<1>10. Sending(w, bs)
  BY <1>2, <1>4, <1>8, <1>9 DEF Sending
<1>. QED
  BY <1>1, <1>10 DEF w, bs

LEMMA ErrorSent ==
  ASSUME transport = "server", NEW c, NEW as \in Seq(Answer), Sending(c, as),
         NEW id \in Nat, NEW code, [id |-> id, code |-> code] \in Answer
  PROVE  /\ Sending(Error(c, id), Append(as, [id |-> id, code |-> code]))
         /\ Sending(AddItem(c, id), Append(as, [id |-> id, code |-> code]))
         /\ Append(as, [id |-> id, code |-> code]) \in Seq(Answer)
<1>. DEFINE a == [id |-> id, code |-> code]
<1>1. a \in Answer /\ a.id = id
  OBVIOUS
<1>2. c.stream
  BY DEF Sending
<1>3. Error(c, id) = Write(c, id, c.status) /\ AddItem(c, id) = Write(c, id, c.status)
  BY <1>2 DEF Error, AddItem
<1>. HIDE DEF a
<1>4. Sending(Write(c, id, c.status), Append(as, a)) /\ Append(as, a) \in Seq(Answer)
  BY <1>1, ItemSent
<1>. QED
  BY <1>3, <1>4 DEF a

\* What the function that is called, or notified, adds.
LEMMA InvokedSent ==
  ASSUME transport = "server", NEW c, NEW as \in Seq(Answer), Sending(c, as), Id \in Nat
  PROVE  Sending(Invoked(c), as \o Given)
<1>1. CASE Codes = <<>>
  <2>1. as \o Given = as
    BY <1>1, GivenAnswers, ConcatEmptySeq
  <2>2. c.stream
    BY DEF Sending
  <2>3. ~front.throws /\ (front.method = "silent" \/ ~front.id)
    BY <1>1 DEF Codes
  <2>4. Invoked(c) = c
    BY <2>2, <2>3 DEF Invoked, AddNote
  <2>. QED
    BY <2>1, <2>4
<1>2. CASE Codes # <<>>
  <2>1. PICK code \in {InternalError, Result} : Given = <<[id |-> Id, code |-> code]>>
    BY <1>2, GivenAnswers
  <2>2. [id |-> Id, code |-> code] \in Answer
    BY DEF Answer
  <2>3. Append(as, [id |-> Id, code |-> code]) = as \o Given
    BY <2>1, <2>2, AppendIsConcat
  <2>4. Invoked(c) \in {Error(c, Id), AddItem(c, Id)}
    BY <1>2 DEF Invoked, Codes
  <2>5. /\ Sending(Error(c, Id), Append(as, [id |-> Id, code |-> code]))
        /\ Sending(AddItem(c, Id), Append(as, [id |-> Id, code |-> code]))
    BY <2>2, ErrorSent
  <2>. QED
    BY <2>3, <2>4, <2>5
<1>. QED
  BY <1>1, <1>2

\* The last event gets its blank line.
LEMMA StreamClosed ==
  ASSUME transport = "server", NEW c, NEW as \in Seq(Answer), Sending(c, as)
  PROVE  Complete(CloseContext(c), as)
<1>. DEFINE n == Len(as)
            t == c.text
            z == Separator("blank")
            u == t \o <<z>>
<1>1. /\ c \in ContextType /\ c.stream /\ c.count = n /\ n \in Nat /\ t \in Seq(PieceType)
      /\ Len(t) = (IF n = 0 THEN 0 ELSE 3 * n - 1)
      /\ Numbered(t, as)
  <2>1. c \in ContextType /\ c.stream /\ c.count = n /\ Numbered(t, as)
    BY DEF Sending
  <2>2. Len(t) = (IF c.count = 0 THEN 0 ELSE 3 * c.count - 1)
    BY DEF Sending
  <2>3. t \in Seq(PieceType) /\ n \in Nat
    BY <2>1, LenProperties DEF ContextType
  <2>. HIDE DEF t, n
  <2>. QED
    BY <2>1, <2>2, <2>3
<1>. HIDE DEF n, z, u, t
<1>2. CloseContext(c).text = t \o After(c)
  BY <1>1, CloseType DEF Transport, t
<1>3. CASE n = 0
  <2>1. After(c) = <<>> /\ t = <<>>
    BY <1>1, <1>3, EmptySeq DEF After
  <2>2. CloseContext(c).text = <<>>
    BY <1>2, <2>1
  <2>3. Len(CloseContext(c).text) = 3 * Len(as) /\ Numbered(CloseContext(c).text, as)
    BY <1>3, <2>2 DEF Numbered, n
  <2>. QED
    BY <2>3 DEF Complete
<1>4. CASE n # 0
  <2>1. After(c) = <<z>>
    <3>1. c.count > 0 /\ c.stream = TRUE
      BY <1>1, <1>4 DEF ContextType
    <3>. QED
      BY <3>1 DEF After, z
  <2>2. z \in PieceType
    BY <1>1, PieceTypes DEF z
  <2>3. /\ Len(u) = Len(t) + 1
        /\ \A i \in 1..Len(t) : u[i] = t[i]
        /\ u[Len(t) + 1] = z
    BY <1>1, <2>2, OneMore DEF u
  <2>. DEFINE l == Len(t)
  <2>4. l = 3 * n - 1 /\ l \in Nat /\ Len(u) = 3 * n /\ u[3 * n] = z
    BY <1>1, <1>4, <2>3
  <2>5. \A i \in 1..l : u[i] = t[i]
    BY <2>3
  <2>6. \A k \in 1..n : 3 * k <= l => t[3 * k] = z
    BY <1>1 DEF Numbered, z, n
  <2>7. \A k \in 1..n : t[3 * k - 2] = Piece("id", k) /\ t[3 * k - 1] = Piece("item", as[k].id)
    BY <1>1 DEF Numbered, n
  <2>. HIDE DEF l
  <2>8. ASSUME NEW k \in 1..n
        PROVE  /\ u[3 * k - 2] = Piece("id", k) /\ u[3 * k - 1] = Piece("item", as[k].id)
               /\ u[3 * k] = z
    <3>1. 3 * k - 2 \in 1..l /\ 3 * k - 1 \in 1..l /\ ((3 * k \in 1..l /\ 3 * k <= l) \/ 3 * k = 3 * n)
      BY <1>1, <2>4
    <3>2. u[3 * k] = z
      BY <2>4, <2>5, <2>6, <3>1
    <3>. QED
      BY <2>5, <2>7, <3>1, <3>2
  <2>9. Numbered(u, as) /\ Len(u) = 3 * Len(as)
    BY <2>4, <2>8 DEF Numbered, n, z
  <2>. QED
    BY <1>2, <2>1, <2>9 DEF Complete, u
<1>. QED
  BY <1>3, <1>4

----------------------------------------------------------------------------
(* The invariant.                                                          *)

\* A batch in progress, and one that is over.
BatchText ==
  transport = "server" /\ context.stream =>
    IF pc = "stopped" THEN Complete(context, answers) ELSE Sending(context, answers)

\* Whatever becomes of a call, its answers and their events go together.
LEMMA AnswerSent ==
  ASSUME TypeOK, transport = "server", Sending(context, answers),
         \/ \E code \in {ParseError, InvalidRequest} : GiveUp(code)
         \/ Takes
  PROVE  Sending(context', answers')
<1>. DEFINE c == context
            as == answers
<1>1. as \in Seq(Answer)
  BY AnswersTyped
<1>2. CASE \E code \in {ParseError, InvalidRequest} : GiveUp(code)
  <2>1. PICK code \in {ParseError, InvalidRequest} : GiveUp(code)
    BY <1>2
  <2>2. context' = Error(c, 0) /\ answers' = Append(as, [id |-> 0, code |-> code])
    BY <2>1 DEF GiveUp
  <2>3. [id |-> 0, code |-> code] \in Answer
    BY <2>1 DEF Answer
  <2>. QED
    BY <1>1, <2>2, <2>3, ErrorSent
<1>3. CASE /\ At("action", {"call"})
           /\ \E code \in {InvalidRequest, MethodNotFound, InvalidParams}, good \in BOOLEAN : Refuse(code, good)
  <2>1. PICK code \in {InvalidRequest, MethodNotFound, InvalidParams}, good \in BOOLEAN : Refuse(code, good)
    BY <1>3
  <2>2. context' = Error(c, Id) /\ answers' = Append(as, [id |-> Id, code |-> code]) /\ Id \in Nat
    BY <1>3, <2>1, FrontCall DEF Refuse
  <2>3. [id |-> Id, code |-> code] \in Answer
    BY <2>1, <2>2 DEF Answer
  <2>. QED
    BY <1>1, <2>2, <2>3, ErrorSent
<1>4. CASE Invoke
  <2>1. Id \in Nat /\ context' = Invoked(c) /\ answers' = as \o Given
    BY <1>4, FrontCall DEF Invoke, Given
  <2>. QED
    BY <1>1, <2>1, InvokedSent
<1>5. CASE StrayParams
  <2>. DEFINE e == Error(c, Id)
              bs == Append(as, [id |-> Id, code |-> InvalidParams])
  <2>1. Id \in Nat /\ context' = Invoked(e) /\ answers' = bs \o Given
    BY <1>5, FrontCall DEF StrayParams, Given
  <2>2. [id |-> Id, code |-> InvalidParams] \in Answer
    BY <2>1 DEF Answer
  <2>3. Sending(e, bs) /\ bs \in Seq(Answer)
    BY <1>1, <2>1, <2>2, ErrorSent
  <2>. HIDE DEF e, bs
  <2>. QED
    BY <2>1, <2>3, InvokedSent
<1>. QED
  BY <1>2, <1>3, <1>4, <1>5 DEF Takes

LEMMA BatchStarts ==
  ASSUME TypeOK, context = NewContext, answers = <<>>, FirstOfBatch
  PROVE  Sending(context', answers')
<1>1. context \in ContextType
  BY ContextTyped
<1>2. /\ context' \in ContextType /\ context'.stream /\ context'.count = 0 /\ context'.text = <<>>
      /\ answers' = <<>>
  BY <1>1, StreamType, NewContextFields DEF FirstOfBatch
<1>. QED
  BY <1>2 DEF Sending, Numbered

LEMMA BatchTextInvariant == Spec => []BatchText
<1>1. Init => BatchText
  BY NewContextFields DEF Init, BatchText
<1>2. TypeOK /\ Shape /\ Statuses /\ BatchText /\ [Next]_vars => BatchText'
  <2>. SUFFICES ASSUME TypeOK, Shape, Statuses, BatchText, [Next]_vars PROVE BatchText'
    OBVIOUS
  <2>0. context.stream \in BOOLEAN /\ Transport
    BY ContextTyped DEF ContextType
  <2>1. ASSUME UNCHANGED <<transport, context, answers>>, pc = "stopped" <=> pc' = "stopped" PROVE BatchText'
    BY <2>1 DEF BatchText, Sending, Complete, Numbered
  <2>2. CASE Arrive \/ SkipNewline \/ IgnoreRest \/ UNCHANGED vars
    BY <2>1, <2>2 DEF Arrive, SkipNewline, IgnoreRest, vars
  <2>3. CASE NoInput \/ SingleRequest \/ BatchRequest \/ NextOfBatch \/ LastOfBatch
    <3>1. /\ UNCHANGED <<transport, context, answers>> /\ pc \in {"start", "separator"}
          /\ pc' \in {"action", "opened", "closing"}
      BY <2>3 DEF NoInput, SingleRequest, BatchRequest, NextOfBatch, LastOfBatch, At, Return
    <3>. QED
      BY <2>1, <3>1
  <2>4. CASE FirstOfBatch
    <3>1. context = NewContext /\ pc = "opened" /\ pc' = "action" /\ transport' = transport
      BY <2>4, <2>0 DEF FirstOfBatch, Shape
    <3>2. transport = "server" => answers = <<>>
      BY <3>1, NewContextFields DEF Statuses
    <3>3. transport = "server" => Sending(context', answers')
      BY <2>4, <3>1, <3>2, BatchStarts
    <3>. QED
      BY <3>1, <3>3 DEF BatchText
  <2>5. ASSUME pc \in {"opened", "separator", "action"},
               \/ \E code \in {ParseError, InvalidRequest} : GiveUp(code)
               \/ Takes
        PROVE  BatchText'
    <3>1. /\ context'.stream = context.stream /\ transport' = transport
          /\ pc' \in {"separator", "closing"}
      BY <2>5, AnswerPlace, AnswerContext DEF Takes
    <3>2. transport = "server" /\ context.stream => Sending(context', answers')
      BY <2>5, AnswerSent DEF BatchText
    <3>. QED
      BY <3>1, <3>2 DEF BatchText
  <2>6. CASE EndMessage
    <3>1. /\ context' = CloseContext(context) /\ transport' = transport /\ pc = "closing" /\ answers' = answers
          /\ transport = "server" => pc' = "stopped"
      BY <2>6 DEF EndMessage
    <3>2. context'.stream = context.stream
      BY <3>1, <2>0, ContextTyped, CloseType
    <3>3. transport = "server" /\ context.stream => Complete(context', answers')
      BY <3>1, StreamClosed, AnswersTyped DEF BatchText
    <3>. QED
      BY <3>1, <3>2, <3>3 DEF BatchText
  <2>7. CASE NextMessage
    <3>1. transport = "local" /\ transport' = transport
      BY <2>7 DEF NextMessage, Shape
    <3>. QED
      BY <3>1 DEF BatchText
  <2>. QED
    BY <2>2, <2>3, <2>4, <2>5, <2>6, <2>7, StepCases, TakesWell DEF Takes
<1>. QED
  BY <1>1, <1>2, TypeCorrect, ShapeInvariant, StatusInvariant, PTL DEF Spec

\* The server's response to a batch is one event for each answer, in order, with the
\* answer's number as its id, and a blank line after each, the last one included
\* (ServerContext::addItem and its destructor), for inputs of every length and for every
\* set of calls, also when the batch is given up halfway.
THEOREM EveryAnswerIsAnEvent == Spec => []EventsNumbered
<1>1. BatchText => EventsNumbered
  <2>. SUFFICES ASSUME BatchText, transport = "server", pc = "stopped", context.stream
                PROVE  /\ Len(context.text) = 3 * Len(answers)
                       /\ \A k \in 1..Len(answers) :
                            /\ context.text[3 * k - 2] = Piece("id", k)
                            /\ context.text[3 * k - 1] = Piece("item", answers[k].id)
                            /\ context.text[3 * k] = Separator("blank")
    BY DEF EventsNumbered
  <2>1. Len(context.text) = 3 * Len(answers) /\ Numbered(context.text, answers)
    BY DEF BatchText, Complete
  <2>. SUFFICES ASSUME NEW k \in 1..Len(answers)
                PROVE  /\ context.text[3 * k - 2] = Piece("id", k)
                       /\ context.text[3 * k - 1] = Piece("item", answers[k].id)
                       /\ context.text[3 * k] = Separator("blank")
    BY <2>1
  <2>2. 3 * k <= Len(context.text)
    BY <2>1
  <2>. QED
    BY <2>1, <2>2 DEF Numbered
<1>. QED
  BY <1>1, BatchTextInvariant, PTL

----------------------------------------------------------------------------
(* A line of a field and a line end, written.                              *)

LEMMA AppendNone ==
  ASSUME NEW x
  PROVE  Append(<<>>, x) = <<x>>
  OBVIOUS

\* The text at a single place.
LEMMA TextOfOne ==
  ASSUME NEW C, NEW s \in Seq(C), NEW p \in 1..Len(s)
  PROVE  TextAt(s, {p}) = <<s[p]>>
<1>1. Adds(C, s, s, {}, p)
  BY DEF Adds
<1>2. TextAt(s, {} \cup {p}) = Append(TextAt(s, {}), s[p])
  BY <1>1, TextAdd
<1>3. TextAt(s, {}) = <<>> /\ {} \cup {p} = {p}
  BY TextOfNone
<1>4. Append(<<>>, s[p]) = <<s[p]>>
  BY AppendNone
<1>. QED
  BY Zenon, <1>2, <1>3, <1>4

\* A line of a field and a value of one character, as it is written.
FieldLine(C, t, s, name, x) ==
  /\ s \in Seq(C) /\ t \in Seq(C) /\ Extends(t, s) /\ Len(t) = Len(s) + 4
  /\ t[Len(s) + 1] = name /\ t[Len(s) + 2] = ":" /\ t[Len(s) + 3] = Space /\ t[Len(s) + 4] = x

\* Four characters, one after the other.
LEMMA FourMore ==
  ASSUME NEW C, NEW s \in Seq(C), NEW t \in Seq(C), NEW a \in C, NEW b \in C, NEW c \in C, NEW d \in C,
         Extends(t, s), Len(t) = Len(s) + 4,
         t[Len(s) + 1] = a, t[Len(s) + 2] = b, t[Len(s) + 3] = c, t[Len(s) + 4] = d
  PROVE  t = Append(Append(Append(Append(s, a), b), c), d)
  BY DEF Extends

\* What is known of one that follows from what is known of the other.
Same(t, s) == /\ Lines(t) = Lines(s) /\ Begin(t, Len(t) + 1) = Begin(s, Len(s) + 1)
              /\ Recent(t) = Recent(s) /\ LastId(t) = LastId(s) /\ Events(t) = Events(s)

\* A character that ends no line changes nothing but the line.
LEMMA PlainMore ==
  ASSUME NEW C, LineFeed \in C, NEW s \in Seq(C), NEW c \in C, c \notin {LineFeed, CarriageReturn}
  PROVE  Append(s, c) \in Seq(C) /\ Same(Append(s, c), s) /\ Len(Append(s, c)) = Len(s) + 1
<1>1. Append(s, c) \in Seq(C) /\ Extends(Append(s, c), s) /\ Len(Append(s, c)) = Len(s) + 1 /\ Len(s) \in Nat
  BY PlainEnds, LineGoesOn
<1>2. Lines(Append(s, c)) = Lines(s) /\ Begin(Append(s, c), Len(s) + 2) = Begin(s, Len(s) + 1)
  BY PlainLines
<1>3. Recent(Append(s, c)) = Recent(s)
  BY LineGoesOn
<1>4. LastId(Append(s, c)) = LastId(s)
  BY <1>1, <1>2, IdOn
<1>5. Events(Append(s, c)) = Events(s)
  BY EventsPlain
<1>6. Len(s) + 2 = Len(Append(s, c)) + 1
  BY <1>1
<1>. QED
  BY <1>1, <1>2, <1>3, <1>4, <1>5, <1>6 DEF Same

\* A field that is written changes nothing until its line ends.
LEMMA FieldKeeps ==
  ASSUME NEW C, LineFeed \in C, NEW s, NEW t, NEW name \in C, NEW x \in C, ":" \in C, Space \in C,
         FieldLine(C, t, s, name, x),
         name \notin {LineFeed, CarriageReturn, ":"}, x \notin {LineFeed, CarriageReturn}
  PROVE  Same(t, s)
<1>. DEFINE a == Append(s, name)
            b == Append(a, ":")
            c == Append(b, Space)
            d == Append(c, x)
<1>0. s \in Seq(C) /\ ":" \notin {LineFeed, CarriageReturn} /\ Space \notin {LineFeed, CarriageReturn}
  BY DEF FieldLine, LineFeed, CarriageReturn, Space
<1>1. a \in Seq(C) /\ Same(a, s)
  BY <1>0, PlainMore
<1>2. t = d
  BY <1>0, FourMore DEF FieldLine
<1>. HIDE DEF a
<1>3. b \in Seq(C) /\ Same(b, a)
  BY <1>0, <1>1, PlainMore
<1>. HIDE DEF b
<1>4. c \in Seq(C) /\ Same(c, b)
  BY <1>0, <1>3, PlainMore
<1>. HIDE DEF c
<1>5. Same(d, c)
  BY <1>0, <1>4, PlainMore
<1>. HIDE DEF d
<1>. QED
  BY <1>1, <1>2, <1>3, <1>4, <1>5 DEF Same

\* Its name and its value.
LEMMA FieldSays ==
  ASSUME NEW C, LineFeed \in C, NEW s, NEW t, NEW name \in C, NEW x \in C, ":" \in C, Space \in C,
         FieldLine(C, t, s, name, x), Fresh(s),
         name \notin {LineFeed, CarriageReturn, ":"}, x \notin {LineFeed, CarriageReturn}
  PROVE  /\ Unended(t).name = <<name>> /\ Unended(t).value = {Len(s) + 4} /\ Unended(t).first = Len(s) + 1
         /\ ~Blank(Unended(t)) /\ TextAt(t, Unended(t).value) = <<x>>
<1>. DEFINE n == Len(s)
<1>1. /\ s \in Seq(C) /\ t \in Seq(C) /\ n \in Nat /\ Len(t) = n + 4
      /\ t[n + 1] = name /\ t[n + 2] = ":" /\ t[n + 3] = Space /\ t[n + 4] = x
  BY DEF FieldLine
<1>2. Begin(t, Len(t) + 1) = n + 1
  BY FieldKeeps DEF Same, Fresh
<1>. HIDE DEF n
<1>3. Middle(t) = n + 2
  <2>1. Colon(t, n + 1, n + 4) = n + 2
    <3>1. n + 2 \in n + 1..(n + 4) + 1 /\ n + 1 \in Nat \ {0} /\ n + 4 \in Nat /\ n + 1 <= (n + 4) + 1
      BY <1>1
    <3>2. \A i \in n + 1..n + 4 : t[i] = ":" => n + 2 <= i
      BY <1>1
    <3>3. n + 2 <= n + 4 => t[n + 2] = ":"
      BY <1>1
    <3>. QED
      BY <3>1, <3>2, <3>3, ColonIs
  <2>. QED
    BY <1>1, <1>2, <2>1 DEF Middle
<1>4. Unended(t).first = n + 1 /\ Unended(t).last = n + 4
  BY <1>1, <1>2, UnendedPlaced
<1>5. Unended(t).name = TextAt(t, n + 1..n + 1)
  <2>1. Unended(t).name = TextAt(t, n + 1..Middle(t) - 1)
    BY <1>1, <1>4, UnendedMeans
  <2>2. Middle(t) - 1 = n + 1
    BY <1>1, <1>3
  <2>. QED
    BY Zenon, <2>1, <2>2
<1>6. Unended(t).value = {i \in (n + 2) + 1..Len(t) : i = (n + 2) + 1 => t[i] # Space}
  BY <1>1, <1>3, UnendedMeans
<1>7. Unended(t).value = {n + 4}
  <2>1. \A i : i \in Unended(t).value <=> i = n + 4
    BY <1>1, <1>6
  <2>. QED
    BY <2>1
<1>8. n + 1..n + 1 = {n + 1} /\ n + 1 \in 1..Len(t) /\ n + 4 \in 1..Len(t)
  BY <1>1
<1>9. TextAt(t, {n + 1}) = <<name>> /\ TextAt(t, {n + 4}) = <<x>>
  BY <1>1, <1>8, TextOfOne
<1>10. ~Blank(Unended(t))
  BY <1>1, <1>4 DEF Blank
<1>. QED
  BY <1>4, <1>5, <1>7, <1>8, <1>9, <1>10 DEF n

\* The end of a line, as it is written.
LineEnd(C, t, s) ==
  /\ s \in Seq(C) /\ t \in Seq(C) /\ Extends(t, s) /\ Len(t) = Len(s) + 2
  /\ t[Len(s) + 1] = CarriageReturn /\ t[Len(s) + 2] = LineFeed

\* \r\n is one of the ends of a line that EventStream knows.
LEMMA LineEndEnds ==
  ASSUME NEW C, NEW s, NEW t, LineEnd(C, t, s)
  PROVE  s \in Seq(C) /\ t \in Seq(C) /\ EndsLine(t, s) /\ Extends(t, s)
<1>1. Len(s) \in Nat /\ Len(t) = Len(s) + 2
  BY DEF LineEnd
<1>2. Len(t) - 1 = Len(s) + 1
  BY <1>1
<1>. QED
  BY <1>1, <1>2 DEF LineEnd, EndsLine

\* A line that is not blank, when it ends.
LEMMA FieldEnds ==
  ASSUME NEW C, LineFeed \in C, NEW s, NEW t, LineEnd(C, t, s), ~Blank(Unended(s))
  PROVE  /\ Fresh(t) /\ Events(t) = Events(s) /\ Recent(t) = Recent(s) \cup {Unended(s)}
         /\ LastId(t) = IF Identifies(s, Unended(s)) THEN TextAt(s, Unended(s).value) ELSE LastId(s)
<1>1. s \in Seq(C) /\ t \in Seq(C) /\ EndsLine(t, s)
  BY LineEndEnds
<1>2. Fresh(t) /\ Recent(t) = Recent(s) \cup {Unended(s)}
  BY <1>1, RecentEnded
<1>3. ~Due(s)
  BY DEF Due
<1>4. Events(t) = Events(s)
  BY <1>1, <1>3, EventsEnded
<1>5. LastId(t) = IF Identifies(s, Unended(s)) THEN TextAt(s, Unended(s).value) ELSE LastId(s)
  BY <1>1, IdEnded
<1>. QED
  BY <1>2, <1>4, <1>5

\* A text that ends with an event.
Done(C, s, events) == s \in Seq(C) /\ Fresh(s) /\ Recent(s) = {} /\ Events(s) = events

Marked(C) == LineFeed \in C /\ ":" \in C /\ Space \in C /\ "id" \in C /\ "data" \in C

LEMMA MarksApart ==
  /\ "id" \notin {LineFeed, CarriageReturn, ":"} /\ "data" \notin {LineFeed, CarriageReturn, ":"}
  BY DEF LineFeed, CarriageReturn

\* What the lines of an event tell after the first and after the second.
Identified(s, x, events) ==
  /\ Fresh(s) /\ Events(s) = events /\ LastId(s) = <<x>>
  /\ \E u : Recent(s) = {u} /\ u.name = <<"id">>

Told(s, x, y, events) ==
  /\ Fresh(s) /\ Events(s) = events /\ LastId(s) = <<x>>
  /\ \E u, v, p : /\ Recent(s) = {u, v} /\ u.name = <<"id">> /\ v.name = <<"data">> /\ v.value = {p}
                 /\ p \in 1..Len(s) /\ s[p] = y

\* An id line, written.
LEMMA IdWritten ==
  ASSUME NEW C, Marked(C), NEW s, NEW a, NEW b, NEW events, Done(C, s, events),
         NEW x \in C, x \notin {LineFeed, CarriageReturn, NUL},
         FieldLine(C, a, s, "id", x), LineEnd(C, b, a)
  PROVE  Identified(b, x, events)
<1>1. /\ Unended(a).name = <<"id">> /\ Unended(a).value = {Len(s) + 4}
      /\ ~Blank(Unended(a)) /\ TextAt(a, Unended(a).value) = <<x>>
  BY FieldSays, MarksApart DEF Marked, Done
<1>2. Recent(a) = {} /\ Events(a) = events
  BY FieldKeeps, MarksApart DEF Marked, Done, Same
<1>3. Identifies(a, Unended(a))
  <2>1. a[Len(s) + 4] = x
    BY DEF FieldLine
  <2>. QED
    BY <1>1, <2>1 DEF Identifies
<1>4. /\ Fresh(b) /\ Events(b) = Events(a) /\ Recent(b) = Recent(a) \cup {Unended(a)}
      /\ LastId(b) = TextAt(a, Unended(a).value)
  BY <1>1, <1>3, FieldEnds DEF Marked
<1>5. Recent(b) = {Unended(a)}
  BY <1>2, <1>4
<1>. QED
  BY <1>1, <1>2, <1>4, <1>5 DEF Identified

\* A data line, written after it.
LEMMA DataWritten ==
  ASSUME NEW C, Marked(C), NEW s, NEW a, NEW b, NEW x, NEW events, Identified(s, x, events),
         NEW y \in C, y \notin {LineFeed, CarriageReturn},
         FieldLine(C, a, s, "data", y), LineEnd(C, b, a)
  PROVE  Told(b, x, y, events)
<1>0. PICK u : Recent(s) = {u} /\ u.name = <<"id">>
  BY DEF Identified
<1>s. Fresh(s) /\ Events(s) = events /\ LastId(s) = <<x>>
  BY DEF Identified
<1>1. /\ Unended(a).name = <<"data">> /\ Unended(a).value = {Len(s) + 4} /\ ~Blank(Unended(a))
  BY <1>s, FieldSays, MarksApart DEF Marked
<1>2. Recent(a) = {u} /\ Events(a) = Events(s) /\ LastId(a) = LastId(s)
  BY <1>0, FieldKeeps, MarksApart DEF Marked, Same
<1>3. ~Identifies(a, Unended(a))
  BY <1>1, NamesDiffer DEF Identifies
<1>4. /\ Fresh(b) /\ Events(b) = Events(a) /\ Recent(b) = Recent(a) \cup {Unended(a)}
      /\ LastId(b) = LastId(a)
  BY <1>1, <1>3, FieldEnds DEF Marked
<1>5. Recent(b) = {u, Unended(a)}
  BY <1>2, <1>4
<1>6. b[Len(s) + 4] = y /\ Len(s) + 4 \in 1..Len(b)
  <2>1. Len(a) = Len(s) + 4 /\ Len(s) \in Nat /\ a[Len(s) + 4] = y
    BY DEF FieldLine
  <2>2. Len(b) = Len(a) + 2 /\ \A i \in 1..Len(a) : b[i] = a[i]
    BY DEF LineEnd, Extends
  <2>. QED
    BY <2>1, <2>2
<1>7. Fresh(b) /\ Events(b) = events /\ LastId(b) = <<x>>
  BY <1>s, <1>2, <1>4
<1>8. \E v, p : /\ Recent(b) = {u, v} /\ u.name = <<"id">> /\ v.name = <<"data">> /\ v.value = {p}
               /\ p \in 1..Len(b) /\ b[p] = y
  <2>. DEFINE v == Unended(a)
              p == Len(s) + 4
  <2>1. Recent(b) = {u, v} /\ u.name = <<"id">> /\ v.name = <<"data">> /\ v.value = {p}
    BY <1>0, <1>1, <1>5
  <2>2. p \in 1..Len(b) /\ b[p] = y
    BY <1>6
  <2>. HIDE DEF v, p
  <2>. QED
    BY <2>1, <2>2
<1>. QED
  BY <1>7, <1>8 DEF Told

\* The data of a single line that has one character.
LEMMA DataOfOne ==
  ASSUME NEW C, LineFeed \in C, NEW s \in Seq(C), NEW v, NEW p \in 1..Len(s), v.value = {p}, v.first \in Int
  PROVE  Data(s, {v}) = <<s[p]>>
<1>. DEFINE j == JoinedText(s, {v})
<1>1. Joints({v}) = {}
  BY DEF Joints
<1>2. Values({v}) = {p}
  BY DEF Values
<1>3. Data(s, {v}) = TextAt(JoinedText(s, {v}), {p})
  BY <1>1, <1>2, DataMeans
<1>4. j \in Seq(C) /\ Len(j) = Len(s) /\ \A i \in 1..Len(s) : j[i] = IF i \in Joints({v}) THEN LineFeed ELSE s[i]
  BY JoinedIs
<1>. HIDE DEF j
<1>5. j[p] = s[p] /\ p \in 1..Len(j)
  BY <1>1, <1>4
<1>6. TextAt(j, {p}) = <<j[p]>>
  BY <1>4, <1>5, TextOfOne
<1>. QED
  BY <1>3, <1>5, <1>6 DEF j

\* What the lines of an event tell, when a blank line is written.
LEMMA BlankWritten ==
  ASSUME NEW C, Marked(C), NEW s, NEW t, NEW x, NEW y, NEW events, Told(s, x, y, events), LineEnd(C, t, s)
  PROVE  Done(C, t, Append(events, [id |-> <<x>>, event |-> <<>>, data |-> <<y>>]))
<1>. DEFINE e == [id |-> <<x>>, event |-> <<>>, data |-> <<y>>]
<1>0. s \in Seq(C) /\ t \in Seq(C) /\ EndsLine(t, s) /\ LineFeed \in C
  BY LineEndEnds DEF Marked
<1>a. PICK u, v, p : /\ Recent(s) = {u, v} /\ u.name = <<"id">> /\ v.name = <<"data">> /\ v.value = {p}
                     /\ p \in 1..Len(s) /\ s[p] = y
  BY DEF Told
<1>b. Fresh(s) /\ Events(s) = events /\ LastId(s) = <<x>>
  BY DEF Told
<1>1. Blank(Unended(s))
  BY <1>0, <1>b, FreshIs DEF Fresh
<1>2. Named(Recent(s), "data") = {v} /\ Named(Recent(s), "event") = {}
  BY <1>a, NamesDiffer DEF Named
<1>3. Due(s)
  BY <1>1, <1>2 DEF Due
<1>4. v.first \in Int
  BY <1>0, <1>a, LinesPast DEF Past, AllPlaced, Placed
<1>5. Data(s, {v}) = <<y>>
  BY <1>0, <1>a, <1>4, DataOfOne
<1>6. e.id = <<x>> /\ e.id = LastId(s) /\ e.event = <<>> /\ e.data = <<y>> /\ e = [id |-> e.id, event |-> e.event, data |-> e.data]
  BY <1>b
<1>. HIDE DEF e
<1>7. LastValue(s, {}) = <<>>
  BY LastValueOfNone
<1>8. Event(s, Lines(s), Unended(s).first) = e
  BY <1>0, <1>2, <1>5, <1>6, <1>7, EventIs
<1>9. Events(t) = Append(events, e)
  BY <1>0, <1>b, <1>3, <1>8, EventsEnded
<1>10. Recent(t) = {} /\ Fresh(t)
  BY <1>0, <1>1, RecentEnded
<1>. QED
  BY <1>0, <1>9, <1>10 DEF Done, e

\* One event more.
LEMMA EventWritten ==
  ASSUME NEW C, Marked(C), NEW s, NEW events, Done(C, s, events),
         NEW x \in C, x \notin {LineFeed, CarriageReturn, NUL}, NEW y \in C, y \notin {LineFeed, CarriageReturn},
         NEW a, NEW b, NEW c, NEW d, NEW t,
         FieldLine(C, a, s, "id", x), LineEnd(C, b, a), FieldLine(C, c, b, "data", y), LineEnd(C, d, c),
         LineEnd(C, t, d)
  PROVE  Done(C, t, Append(events, [id |-> <<x>>, event |-> <<>>, data |-> <<y>>]))
<1>1. Identified(b, x, events)
  BY IdWritten
<1>2. Told(d, x, y, events)
  BY <1>1, DataWritten
<1>. QED
  BY <1>2, BlankWritten

----------------------------------------------------------------------------
(* Pieces of text put together.                                            *)

\* What a line, the end of a line and the end of two are in characters.
FieldChars(name, x) == <<name, ":", Space, x>>
EndChars == <<CarriageReturn, LineFeed>>
IdChars(x) == <<"id", ":", Space, x, CarriageReturn, LineFeed>>
BlankChars == <<CarriageReturn, LineFeed, CarriageReturn, LineFeed>>

\* t is s and r, character by character.
Together(C, t, s, r) ==
  /\ t \in Seq(C) /\ Len(s) \in Nat /\ Len(t) = Len(s) + Len(r)
  /\ \A i \in 1..Len(s) : t[i] = s[i]
  /\ \A j \in 1..Len(r) : t[Len(s) + j] = r[j]

\* What \o gives.
LEMMA JoinedTexts ==
  ASSUME NEW C, NEW s \in Seq(C), NEW r \in Seq(C)
  PROVE  Together(C, s \o r, s, r)
<1>. DEFINE t == s \o r
<1>1. t \in Seq(C) /\ Len(t) = Len(s) + Len(r) /\ Len(s) \in Nat /\ Len(r) \in Nat
  BY ConcatProperties, LenProperties
<1>2. \A i \in 1..Len(s) + Len(r) : t[i] = IF i <= Len(s) THEN s[i] ELSE r[i - Len(s)]
  BY ConcatProperties
<1>. HIDE DEF t
<1>3. \A i \in 1..Len(s) : t[i] = s[i]
  <2>1. \A i \in 1..Len(s) : i \in 1..Len(s) + Len(r) /\ i <= Len(s)
    BY <1>1
  <2>. QED
    BY <1>2, <2>1
<1>4. \A j \in 1..Len(r) : t[Len(s) + j] = r[j]
  <2>1. SUFFICES ASSUME NEW j \in 1..Len(r) PROVE t[Len(s) + j] = r[j]
    OBVIOUS
  <2>2. Len(s) + j \in 1..Len(s) + Len(r) /\ ~(Len(s) + j <= Len(s)) /\ (Len(s) + j) - Len(s) = j
    BY <1>1
  <2>. QED
    BY <1>2, <2>2
<1>. QED
  BY <1>1, <1>3, <1>4 DEF t, Together

LEMMA FieldIs ==
  ASSUME NEW C, NEW s \in Seq(C), NEW t, NEW name, NEW x, Together(C, t, s, FieldChars(name, x))
  PROVE  FieldLine(C, t, s, name, x)
<1>. DEFINE r == FieldChars(name, x)
<1>1. Len(r) = 4 /\ r[1] = name /\ r[2] = ":" /\ r[3] = Space /\ r[4] = x
  BY DEF FieldChars
<1>2. Together(C, t, s, r)
  OBVIOUS
<1>. HIDE DEF r
<1>. QED
  BY <1>1, <1>2 DEF Together, FieldLine, Extends

LEMMA EndIs ==
  ASSUME NEW C, NEW s \in Seq(C), NEW t, Together(C, t, s, EndChars)
  PROVE  LineEnd(C, t, s)
<1>. DEFINE r == EndChars
<1>1. Len(r) = 2 /\ r[1] = CarriageReturn /\ r[2] = LineFeed
  BY DEF EndChars
<1>2. Together(C, t, s, r)
  OBVIOUS
<1>. HIDE DEF r
<1>. QED
  BY <1>1, <1>2 DEF Together, LineEnd, Extends

LEMMA FieldJoined ==
  ASSUME NEW C, Marked(C), NEW s \in Seq(C), NEW name \in C, NEW x \in C
  PROVE  s \o FieldChars(name, x) \in Seq(C) /\ FieldLine(C, s \o FieldChars(name, x), s, name, x)
<1>1. FieldChars(name, x) \in Seq(C)
  BY DEF FieldChars, Marked
<1>2. Together(C, s \o FieldChars(name, x), s, FieldChars(name, x))
  BY Zenon, <1>1, JoinedTexts
<1>3. FieldLine(C, s \o FieldChars(name, x), s, name, x)
  BY Zenon, <1>2, FieldIs
<1>. QED
  BY Zenon, <1>2, <1>3 DEF Together

LEMMA EndJoined ==
  ASSUME NEW C, Marked(C), CarriageReturn \in C, NEW s \in Seq(C)
  PROVE  s \o EndChars \in Seq(C) /\ LineEnd(C, s \o EndChars, s)
<1>1. EndChars \in Seq(C)
  BY DEF EndChars, Marked
<1>2. Together(C, s \o EndChars, s, EndChars)
  BY Zenon, <1>1, JoinedTexts
<1>3. LineEnd(C, s \o EndChars, s)
  BY Zenon, <1>2, EndIs
<1>. QED
  BY Zenon, <1>2, <1>3 DEF Together

Splits(s, a, b) == s \o (a \o b) = (s \o a) \o b

LEMMA Split ==
  ASSUME NEW C, NEW s \in Seq(C), NEW a \in Seq(C), NEW b \in Seq(C)
  PROVE  Splits(s, a, b)
  BY DEF Splits

LEMMA SplitChars ==
  ASSUME NEW C, Marked(C), CarriageReturn \in C, NEW x \in C
  PROVE  IdChars(x) = FieldChars("id", x) \o EndChars /\ BlankChars = EndChars \o EndChars
  BY DEF IdChars, FieldChars, EndChars, BlankChars

LEMMA PiecesTyped ==
  ASSUME NEW C, Marked(C), CarriageReturn \in C, NEW x \in C
  PROVE  /\ IdChars(x) \in Seq(C) /\ FieldChars("data", x) \in Seq(C) /\ BlankChars \in Seq(C)
         /\ EndChars \in Seq(C) /\ FieldChars("id", x) \in Seq(C)
  BY DEF IdChars, FieldChars, EndChars, BlankChars, Marked

\* An event, put together.
LEMMA EventJoined ==
  ASSUME NEW C, Marked(C), CarriageReturn \in C, NEW s, NEW events, Done(C, s, events),
         NEW x \in C, x \notin {LineFeed, CarriageReturn, NUL}, NEW y \in C, y \notin {LineFeed, CarriageReturn}
  PROVE  Done(C, ((s \o IdChars(x)) \o FieldChars("data", y)) \o BlankChars,
              Append(events, [id |-> <<x>>, event |-> <<>>, data |-> <<y>>]))
<1>. DEFINE a == s \o FieldChars("id", x)
            b == a \o EndChars
            c == b \o FieldChars("data", y)
            d == c \o EndChars
            t == d \o EndChars
<1>0. s \in Seq(C) /\ "id" \in C /\ "data" \in C
  BY DEF Done, Marked
<1>1. a \in Seq(C) /\ FieldLine(C, a, s, "id", x)
  BY <1>0, FieldJoined
<1>2. s \o IdChars(x) = b
  <2>1. IdChars(x) = FieldChars("id", x) \o EndChars
    BY SplitChars
  <2>2. FieldChars("id", x) \in Seq(C) /\ EndChars \in Seq(C)
    BY PiecesTyped
  <2>. QED
    <3>1. Splits(s, FieldChars("id", x), EndChars)
      BY <1>0, <2>2, Split
    <3>. QED
      BY Zenon, <2>1, <3>1 DEF Splits
<1>. HIDE DEF a
<1>3. b \in Seq(C) /\ LineEnd(C, b, a)
  BY <1>1, EndJoined
<1>. HIDE DEF b
<1>4. c \in Seq(C) /\ FieldLine(C, c, b, "data", y)
  BY <1>0, <1>3, FieldJoined
<1>. HIDE DEF c
<1>5. d \in Seq(C) /\ LineEnd(C, d, c)
  BY <1>4, EndJoined
<1>6. c \o BlankChars = t
  <2>1. BlankChars = EndChars \o EndChars
    BY SplitChars
  <2>2. EndChars \in Seq(C)
    BY PiecesTyped
  <2>. QED
    <3>1. Splits(c, EndChars, EndChars)
      BY <1>4, <2>2, Split
    <3>. QED
      BY Zenon, <2>1, <3>1 DEF Splits
<1>. HIDE DEF d
<1>7. t \in Seq(C) /\ LineEnd(C, t, d)
  BY <1>5, EndJoined
<1>. HIDE DEF t
<1>8. Done(C, t, Append(events, [id |-> <<x>>, event |-> <<>>, data |-> <<y>>]))
  BY <1>1, <1>3, <1>4, <1>5, <1>7, EventWritten
<1>9. ((s \o IdChars(x)) \o FieldChars("data", y)) \o BlankChars = t
  BY <1>2, <1>6 DEF c
<1>. QED
  BY Zenon, <1>8, <1>9

----------------------------------------------------------------------------
(* What FlattenSeq computes.                                               *)

\* g has what the first k texts of ss are together.
Gathers(C, ss, k, g) ==
  /\ g \in [1..k -> Seq(C)] /\ g[1] = ss[1]
  /\ \A i \in 2..k : g[i] = g[i - 1] \o ss[i]

LEMMA GatherOne ==
  ASSUME NEW C, NEW ss \in Seq(Seq(C)), NEW k \in 1..Len(ss), k = 1
  PROVE  \E g : Gathers(C, ss, k, g)
<1>. DEFINE g == [i \in 1..k |-> ss[1]]
<1>1. ss[1] \in Seq(C)
  OBVIOUS
<1>2. g \in [1..k -> Seq(C)] /\ g[1] = ss[1] /\ \A i \in 2..k : FALSE
  BY <1>1
<1>3. Gathers(C, ss, k, g)
  BY <1>2 DEF Gathers
<1>. QED
  BY <1>3

LEMMA GatherNext ==
  ASSUME NEW C, NEW ss \in Seq(Seq(C)), NEW k \in 1..Len(ss), k # 1, NEW h, Gathers(C, ss, k - 1, h)
  PROVE  \E g : Gathers(C, ss, k, g)
<1>. DEFINE x == h[k - 1] \o ss[k]
            g == [i \in 1..k |-> IF i = k THEN x ELSE h[i]]
<1>1. /\ h \in [1..k - 1 -> Seq(C)] /\ h[1] = ss[1] /\ \A i \in 2..k - 1 : h[i] = h[i - 1] \o ss[i]
      /\ k - 1 \in 1..k - 1 /\ k \in 1..k /\ k \in Nat
  <2>1. /\ h \in [1..k - 1 -> Seq(C)] /\ h[1] = ss[1] /\ \A i \in 2..k - 1 : h[i] = h[i - 1] \o ss[i]
    BY Zenon DEF Gathers
  <2>2. k - 1 \in 1..k - 1 /\ k \in 1..k /\ k \in Nat
    OBVIOUS
  <2>. QED
    BY Zenon, <2>1, <2>2
<1>2. x \in Seq(C)
  <2>1. h[k - 1] \in Seq(C) /\ ss[k] \in Seq(C)
    BY <1>1
  <2>. QED
    BY <2>1, ConcatProperties
<1>. DEFINE same == \A i \in 1..k - 1 : g[i] = h[i]
<1>3. g \in [1..k -> Seq(C)] /\ g[k] = h[k - 1] \o ss[k] /\ same
  <2>. HIDE DEF x
  <2>1. g \in [1..k -> Seq(C)] /\ g[k] = x /\ same
    BY <1>1, <1>2
  <2>. QED
    BY <2>1 DEF x
<1>. HIDE DEF g, x
<1>4. g[1] = ss[1]
  BY <1>1, <1>3
<1>5. ASSUME NEW i \in 2..k PROVE g[i] = g[i - 1] \o ss[i]
  <2>1. CASE i = k
    BY <1>1, <1>3, <2>1
  <2>2. CASE i # k
    <3>1. i \in 2..k - 1 /\ i \in 1..k - 1 /\ i - 1 \in 1..k - 1
      BY <1>1, <2>2
    <3>. QED
      BY <1>1, <1>3, <3>1
  <2>. QED
    BY <2>1, <2>2
<1>6. Gathers(C, ss, k, g)
  BY <1>3, <1>4, <1>5 DEF Gathers
<1>. QED
  BY <1>6

\* The first of the texts that could not be gathered would have one before it that was.
LEMMA GatherAll ==
  ASSUME NEW C, NEW ss \in Seq(Seq(C)), NEW n \in 1..Len(ss)
  PROVE  \E g : Gathers(C, ss, n, g)
<1>. DEFINE found(k) == \E g : Gathers(C, ss, k, g)
            missing == {k \in 1..n : ~found(k)}
<1>0. n \in 1..n /\ n \in Nat
  OBVIOUS
<1>. HIDE DEF found
<1>1. SUFFICES ASSUME missing # {} PROVE FALSE
  BY <1>0 DEF found
<1>2. n \in Nat /\ missing \in SUBSET (1..n)
  OBVIOUS
<1>3. PICK k \in missing : \A i \in missing : k <= i
  BY <1>1, <1>2, FirstPlace
<1>4. k \in 1..n /\ k \in 1..Len(ss) /\ ~found(k)
  BY <1>3
<1>5. k # 1
  BY <1>4, GatherOne DEF found
<1>6. k - 1 \in 1..n /\ ~(k <= k - 1)
  BY <1>4, <1>5
<1>7. found(k - 1)
  BY <1>3, <1>6
<1>. QED
  BY <1>4, <1>5, <1>7, GatherNext DEF found

\* That is what FlattenSeq computes.
Recurs(ss, h) == h = [i \in 1..Len(ss) |-> IF i = 1 THEN ss[i] ELSE h[i - 1] \o ss[i]]

LEMMA GatheredOnce ==
  ASSUME NEW C, NEW ss \in Seq(Seq(C)), Len(ss) # 0, NEW g, Gathers(C, ss, Len(ss), g),
         NEW h, Recurs(ss, h)
  PROVE  h = g
<1>. DEFINE n == Len(ss)
            wrong == {i \in 1..n : h[i] # g[i]}
<1>0. n \in Nat /\ n \in 1..n
  OBVIOUS
<1>1. /\ g \in [1..n -> Seq(C)] /\ g[1] = ss[1] /\ \A i \in 2..n : g[i] = g[i - 1] \o ss[i]
  BY DEF Gathers
<1>2. DOMAIN h = 1..n /\ h = [i \in 1..n |-> h[i]]
  BY DEF Recurs
<1>3. h[1] = ss[1] /\ \A i \in 2..n : h[i] = h[i - 1] \o ss[i]
  <2>1. \A i \in 1..n : h[i] = IF i = 1 THEN ss[i] ELSE h[i - 1] \o ss[i]
    BY Zenon DEF Recurs
  <2>2. 1 \in 1..n /\ \A i \in 2..n : i \in 1..n /\ i # 1
    BY <1>0
  <2>. QED
    BY <2>1, <2>2
<1>. HIDE DEF n
<1>4. wrong = {}
  <2>1. SUFFICES ASSUME wrong # {} PROVE FALSE
    OBVIOUS
  <2>2. PICK i \in wrong : \A j \in wrong : i <= j
    BY <1>0, <2>1, FirstPlace
  <2>3. i \in 1..n /\ h[i] # g[i]
    BY <2>2
  <2>4. i # 1
    BY <1>1, <1>3, <2>3
  <2>5. i \in 2..n /\ i - 1 \in 1..n /\ ~(i <= i - 1)
    BY <1>0, <2>3, <2>4
  <2>6. h[i - 1] = g[i - 1]
    BY <2>2, <2>5
  <2>. QED
    BY <1>1, <1>3, <2>3, <2>5, <2>6
<1>5. \A i \in 1..n : h[i] = g[i]
  BY <1>4
<1>6. g = [i \in 1..n |-> g[i]]
  BY <1>1
<1>. QED
  BY Zenon, <1>2, <1>5, <1>6

\* FlattenSeq gives the last of what is gathered, for there is one way to gather.
LEMMA FlattenIs ==
  ASSUME NEW C, NEW ss \in Seq(Seq(C)), Len(ss) # 0, NEW g, Gathers(C, ss, Len(ss), g)
  PROVE  FlattenSeq(ss) = g[Len(ss)]
<1>1. \A h : Recurs(ss, h) => h = g
  BY Zenon, GatheredOnce
<1>2. g = [i \in 1..Len(ss) |-> IF i = 1 THEN ss[i] ELSE g[i - 1] \o ss[i]]
  <2>. DEFINE h == [i \in 1..Len(ss) |-> IF i = 1 THEN ss[i] ELSE g[i - 1] \o ss[i]]
  <2>1. g = [i \in 1..Len(ss) |-> g[i]] /\ DOMAIN h = 1..Len(ss) /\ DOMAIN g = 1..Len(ss)
    BY DEF Gathers
  <2>2. \A i \in 1..Len(ss) : i = 1 \/ i \in 2..Len(ss)
    OBVIOUS
  <2>3. \A i \in 1..Len(ss) : g[i] = IF i = 1 THEN ss[i] ELSE g[i - 1] \o ss[i]
    BY <2>2 DEF Gathers
  <2>. QED
    BY Zenon, <2>1, <2>3
<1>. QED
  BY Zenon, <1>1, <1>2 DEF FlattenSeq, Recurs

----------------------------------------------------------------------------
(* The events of what was written.                                         *)

\* The pieces of n events, and the events.
Spells(C, ss, n, id, data) ==
  /\ ss \in Seq(Seq(C)) /\ Len(ss) = 3 * n
  /\ \A k \in 1..n : /\ id[k] \in C /\ id[k] \notin {LineFeed, CarriageReturn, NUL}
                     /\ data[k] \in C /\ data[k] \notin {LineFeed, CarriageReturn}
                     /\ ss[3 * k - 2] = IdChars(id[k]) /\ ss[3 * k - 1] = FieldChars("data", data[k])
                     /\ ss[3 * k] = BlankChars

EventOf(id, data, k) == [id |-> <<id[k]>>, event |-> <<>>, data |-> <<data[k]>>]
EventList(id, data, n) == [k \in 1..n |-> EventOf(id, data, k)]

\* One event more in the list.
LEMMA ListMore ==
  ASSUME NEW id, NEW data, NEW n \in Nat
  PROVE  EventList(id, data, n + 1) = Append(EventList(id, data, n), EventOf(id, data, n + 1))
<1>. DEFINE D == {EventOf(id, data, k) : k \in Nat}
            q == EventList(id, data, n)
            r == EventList(id, data, n + 1)
            e == EventOf(id, data, n + 1)
<1>1. \A k \in Nat : EventOf(id, data, k) \in D
  OBVIOUS
<1>2. n + 1 \in Nat
  OBVIOUS
<1>. HIDE DEF D
<1>3. q \in [1..n -> D] /\ \A k \in 1..n : q[k] = EventOf(id, data, k)
  BY <1>1 DEF EventList
<1>4. r \in [1..n + 1 -> D] /\ \A k \in 1..n + 1 : r[k] = EventOf(id, data, k)
  BY <1>1, <1>2 DEF EventList
<1>5. e \in D
  BY <1>1, <1>2
<1>. HIDE DEF q, r
<1>6. q \in Seq(D) /\ Len(q) = n
  BY <1>3
<1>7. r[n + 1] = e /\ \A k \in 1..n : r[k] = q[k]
  BY <1>3, <1>4
<1>. HIDE DEF e
<1>8. r = Append(q, e)
  BY <1>4, <1>5, <1>6, <1>7, AppendIs
<1>. QED
  BY <1>8 DEF q, r, e

LEMMA ListOfNone ==
  ASSUME NEW id, NEW data
  PROVE  EventList(id, data, 0) = <<>>
  BY DEF EventList

LEMMA NoneDone ==
  ASSUME NEW C
  PROVE  Done(C, <<>>, <<>>)
<1>1. <<>> \in Seq(C)
  OBVIOUS
<1>. QED
  BY <1>1, ReadOfNone DEF Done

\* What has been written before event k.
TextBefore(g, k) == IF k = 1 THEN <<>> ELSE g[3 * (k - 1)]

\* With the three pieces of an event, its event is added.
LEMMA EventGathered ==
  ASSUME NEW C, Marked(C), CarriageReturn \in C, NEW ss, NEW n \in Nat, NEW id, NEW data,
         Spells(C, ss, n, id, data), NEW g, Gathers(C, ss, 3 * n, g), NEW k \in 1..n,
         Done(C, TextBefore(g, k), EventList(id, data, k - 1))
  PROVE  Done(C, g[3 * k], EventList(id, data, k))
<1>. DEFINE s == TextBefore(g, k)
            i == IdChars(id[k])
            d == FieldChars("data", data[k])
<1>1. /\ id[k] \in C /\ id[k] \notin {LineFeed, CarriageReturn, NUL}
      /\ data[k] \in C /\ data[k] \notin {LineFeed, CarriageReturn}
      /\ ss[3 * k - 2] = i /\ ss[3 * k - 1] = d /\ ss[3 * k] = BlankChars
  BY DEF Spells
<1>2. g[3 * k - 2] = s \o i
  <2>1. CASE k = 1
    <3>1. g[1] = ss[1] /\ 3 * k - 2 = 1
      BY <2>1 DEF Gathers
    <3>2. s = <<>> /\ i \in Seq(C)
      BY <1>1, <2>1, PiecesTyped DEF TextBefore
    <3>3. <<>> \o i = i
      BY <3>2
    <3>. QED
      BY Zenon, <1>1, <3>1, <3>2, <3>3
  <2>2. CASE k # 1
    <3>1. 3 * k - 2 \in 2..3 * n /\ (3 * k - 2) - 1 = 3 * (k - 1)
      BY <2>2
    <3>2. g[3 * k - 2] = g[(3 * k - 2) - 1] \o ss[3 * k - 2]
      BY Zenon, <3>1 DEF Gathers
    <3>3. s = g[3 * (k - 1)]
      BY <2>2 DEF TextBefore
    <3>. QED
      BY Zenon, <1>1, <3>1, <3>2, <3>3
  <2>. QED
    BY <2>1, <2>2
<1>3. g[3 * k - 1] = g[3 * k - 2] \o d
  <2>1. 3 * k - 1 \in 2..3 * n /\ (3 * k - 1) - 1 = 3 * k - 2
    OBVIOUS
  <2>2. g[3 * k - 1] = g[(3 * k - 1) - 1] \o ss[3 * k - 1]
    BY Zenon, <2>1 DEF Gathers
  <2>. QED
    BY Zenon, <1>1, <2>1, <2>2
<1>4. g[3 * k] = g[3 * k - 1] \o BlankChars
  <2>1. 3 * k \in 2..3 * n
    OBVIOUS
  <2>2. g[3 * k] = g[3 * k - 1] \o ss[3 * k]
    BY Zenon, <2>1 DEF Gathers
  <2>. QED
    BY Zenon, <1>1, <2>2
<1>5. Done(C, ((s \o i) \o d) \o BlankChars, Append(EventList(id, data, k - 1), EventOf(id, data, k)))
  <2>. DEFINE events == EventList(id, data, k - 1)
  <2>1. Done(C, s, events)
    OBVIOUS
  <2>. HIDE DEF s, events
  <2>2. Done(C, ((s \o IdChars(id[k])) \o FieldChars("data", data[k])) \o BlankChars,
             Append(events, [id |-> <<id[k]>>, event |-> <<>>, data |-> <<data[k]>>]))
    BY Zenon, <1>1, <2>1, EventJoined
  <2>. QED
    BY <2>2 DEF EventOf, events
<1>6. EventList(id, data, k) = Append(EventList(id, data, k - 1), EventOf(id, data, k))
  <2>1. k - 1 \in Nat /\ (k - 1) + 1 = k
    OBVIOUS
  <2>. QED
    BY <2>1, ListMore
<1>. QED
  BY Zenon, <1>2, <1>3, <1>4, <1>5, <1>6

\* The first event that is not as said would have one before it that is.
LEMMA EventsWritten ==
  ASSUME NEW C, Marked(C), CarriageReturn \in C, NEW ss, NEW n \in Nat, NEW id, NEW data,
         Spells(C, ss, n, id, data)
  PROVE  Events(FlattenSeq(ss)) = EventList(id, data, n)
<1>0. ss \in Seq(Seq(C)) /\ Len(ss) = 3 * n
  BY DEF Spells
<1>1. CASE n = 0
  <2>1. Len(ss) = 0 /\ ss = <<>>
    BY <1>0, <1>1
  <2>2. FlattenSeq(ss) = <<>>
    BY <2>1 DEF FlattenSeq
  <2>. QED
    BY <1>1, <2>2, ReadOfNone, ListOfNone
<1>2. CASE n # 0
  <2>1. 3 * n \in 1..Len(ss) /\ Len(ss) # 0
    BY <1>0, <1>2
  <2>2. PICK g : Gathers(C, ss, 3 * n, g)
    BY <1>0, <2>1, GatherAll
  <2>. DEFINE done(k) == Done(C, g[3 * k], EventList(id, data, k))
              left == {k \in 1..n : ~done(k)}
  <2>3. ASSUME NEW k \in 1..n, k = 1 \/ done(k - 1) PROVE done(k)
    <3>1. CASE k = 1
      <4>1. TextBefore(g, k) = <<>> /\ k - 1 = 0
        BY <3>1 DEF TextBefore
      <4>2. Done(C, TextBefore(g, k), EventList(id, data, k - 1))
        BY <4>1, NoneDone, ListOfNone
      <4>. QED
        BY <2>2, <4>2, EventGathered
    <3>2. CASE k # 1
      <4>1. TextBefore(g, k) = g[3 * (k - 1)]
        BY <3>2 DEF TextBefore
      <4>2. Done(C, TextBefore(g, k), EventList(id, data, k - 1))
        BY <2>3, <3>2, <4>1
      <4>. QED
        BY <2>2, <4>2, EventGathered
    <3>. QED
      BY <3>1, <3>2
  <2>. HIDE DEF done
  <2>4. left = {}
    <3>1. SUFFICES ASSUME left # {} PROVE FALSE
      OBVIOUS
    <3>2. PICK k \in left : \A i \in left : k <= i
      BY <3>1, FirstPlace
    <3>3. k \in 1..n /\ ~done(k)
      BY <3>2
    <3>4. k # 1
      BY <2>3, <3>3
    <3>5. k - 1 \in 1..n /\ ~(k <= k - 1)
      BY <3>3, <3>4
    <3>6. done(k - 1)
      BY <3>2, <3>5
    <3>. QED
      BY <2>3, <3>3, <3>6
  <2>5. done(n)
    BY <1>2, <2>4
  <2>6. FlattenSeq(ss) = g[3 * n]
    BY <1>0, <2>1, <2>2, FlattenIs
  <2>. QED
    BY <2>5, <2>6 DEF done, Done
<1>. QED
  BY <1>1, <1>2

----------------------------------------------------------------------------
(* The response, read.                                                     *)

Letter == {LineFeed, CarriageReturn, ":", Space, "id", "data"} \cup {Numeral(n) : n \in Nat}

LEMMA LettersMarked ==
  /\ Marked(Letter) /\ CarriageReturn \in Letter
  /\ \A n \in Nat : Numeral(n) \in Letter
  BY DEF Letter, Marked

\* A numeral ends no line and makes no id void, whatever the numbers are written as.
LEMMA NumeralPlain ==
  ASSUME NEW n
  PROVE  Numeral(n) \notin {LineFeed, CarriageReturn, NUL}
<1>1. "many" \notin {LineFeed, CarriageReturn, NUL}
  BY DEF LineFeed, CarriageReturn, NUL
<1>. QED
  BY <1>1, NumeralsAssumption DEF Numeral

\* The pieces of an event, written.
LEMMA PieceChars ==
  ASSUME NEW n
  PROVE  /\ Characters(Piece("id", n)) = IdChars(Numeral(n))
         /\ Characters(Piece("item", n)) = FieldChars("data", Numeral(n))
         /\ Characters(Separator("blank")) = BlankChars
  BY DEF Characters, Piece, Separator, IdChars, FieldChars, BlankChars

\* Every place is one of the three of some event.
LEMMA ThirdOf ==
  ASSUME NEW n \in Nat, NEW i \in 1..3 * n
  PROVE  \E k \in 1..n : i = 3 * k - 2 \/ i = 3 * k - 1 \/ i = 3 * k
<1>. DEFINE k == (i + 2) \div 3
<1>1. k \in 1..n /\ (i = 3 * k - 2 \/ i = 3 * k - 1 \/ i = 3 * k)
  OBVIOUS
<1>. QED
  BY <1>1

\* What a complete response spells.
LEMMA CompleteSpells ==
  ASSUME NEW text \in Seq(PieceType), NEW as \in Seq(Answer), Len(text) = 3 * Len(as), Numbered(text, as)
  PROVE  Spells(Letter, [i \in DOMAIN text |-> Characters(text[i])], Len(as),
                [k \in 1..Len(as) |-> Numeral(k)], [k \in 1..Len(as) |-> Numeral(as[k].id)])
<1>. DEFINE n == Len(as)
<1>1. n \in Nat /\ Len(text) = 3 * n /\ DOMAIN text = 1..Len(text)
  BY LenProperties
<1>2. \A k \in 1..n : as[k].id \in Nat
  <2>1. \A k \in 1..n : as[k] \in Answer
    BY ElementOfSeq
  <2>. QED
    BY <2>1 DEF Answer
<1>3. \A k \in 1..n : /\ text[3 * k - 2] = Piece("id", k) /\ text[3 * k - 1] = Piece("item", as[k].id)
                      /\ 3 * k <= Len(text) => text[3 * k] = Separator("blank")
  BY DEF Numbered
<1>. HIDE DEF n
<1>. DEFINE ss == [i \in DOMAIN text |-> Characters(text[i])]
            id == [k \in 1..n |-> Numeral(k)]
            data == [k \in 1..n |-> Numeral(as[k].id)]
<1>4. \A k \in 1..n : id[k] = Numeral(k) /\ data[k] = Numeral(as[k].id)
  OBVIOUS
<1>5. DOMAIN ss = DOMAIN text /\ \A i \in DOMAIN text : ss[i] = Characters(text[i])
  OBVIOUS
<1>6. ss = [i \in DOMAIN text |-> ss[i]]
  OBVIOUS
<1>. HIDE DEF ss, id, data
<1>7. DOMAIN text = 1..3 * n /\ 3 * n \in Nat
  BY <1>1
<1>8. ASSUME NEW k \in 1..n
      PROVE  /\ id[k] \in Letter /\ id[k] \notin {LineFeed, CarriageReturn, NUL}
             /\ data[k] \in Letter /\ data[k] \notin {LineFeed, CarriageReturn}
             /\ ss[3 * k - 2] = IdChars(id[k]) /\ ss[3 * k - 1] = FieldChars("data", data[k])
             /\ ss[3 * k] = BlankChars
  <2>1. k \in Nat /\ 3 * k - 2 \in 1..3 * n /\ 3 * k - 1 \in 1..3 * n /\ 3 * k \in 1..3 * n /\ 3 * k <= Len(text)
    <3>1. n \in Nat
      BY <1>1
    <3>2. /\ k \in Nat /\ 3 * k - 2 \in 1..3 * n /\ 3 * k - 1 \in 1..3 * n /\ 3 * k \in 1..3 * n
          /\ 3 * k <= 3 * n
      BY <3>1
    <3>. QED
      BY Zenon, <1>1, <3>2
  <2>2. /\ text[3 * k - 2] = Piece("id", k) /\ text[3 * k - 1] = Piece("item", as[k].id)
        /\ text[3 * k] = Separator("blank")
    BY <1>3, <2>1
  <2>3. id[k] = Numeral(k) /\ data[k] = Numeral(as[k].id) /\ as[k].id \in Nat
    BY <1>2, <1>4
  <2>4. id[k] \in Letter /\ data[k] \in Letter
    BY <2>1, <2>3, LettersMarked
  <2>5. id[k] \notin {LineFeed, CarriageReturn, NUL} /\ data[k] \notin {LineFeed, CarriageReturn}
    BY <2>3, NumeralPlain
  <2>6. /\ ss[3 * k - 2] = Characters(text[3 * k - 2]) /\ ss[3 * k - 1] = Characters(text[3 * k - 1])
        /\ ss[3 * k] = Characters(text[3 * k])
    BY <1>5, <1>7, <2>1
  <2>7. ss[3 * k - 2] = IdChars(id[k]) /\ ss[3 * k - 1] = FieldChars("data", data[k]) /\ ss[3 * k] = BlankChars
    BY Zenon, <2>2, <2>3, <2>6, PieceChars
  <2>. QED
    BY <2>4, <2>5, <2>7
<1>9. ASSUME NEW i \in 1..3 * n PROVE ss[i] \in Seq(Letter)
  <2>1. PICK k \in 1..n : i = 3 * k - 2 \/ i = 3 * k - 1 \/ i = 3 * k
    BY <1>1, ThirdOf
  <2>2. id[k] \in Letter /\ data[k] \in Letter
    BY <1>8
  <2>3. IdChars(id[k]) \in Seq(Letter) /\ FieldChars("data", data[k]) \in Seq(Letter) /\ BlankChars \in Seq(Letter)
    BY Zenon, <2>2, LettersMarked, PiecesTyped
  <2>. QED
    BY Zenon, <1>8, <2>1, <2>3
<1>10. ss \in Seq(Seq(Letter)) /\ Len(ss) = 3 * n
  <2>1. ss \in [1..3 * n -> Seq(Letter)]
    BY <1>6, <1>7, <1>9
  <2>. QED
    BY <1>7, <2>1
<1>11. Spells(Letter, ss, n, id, data)
  BY <1>8, <1>10 DEF Spells
<1>. QED
  BY <1>11 DEF ss, id, data, n

\* An HTTP client that reads the response to a batch finds its answers: as many events, in
\* order, with the answer's number as id and the answer as data, for inputs of every length
\* and for every set of calls (ServerContext, as SSEInfo reads it).
THEOREM AnswersRead == Spec => []EventsCarryAnswers
<1>1. TypeOK /\ BatchText => EventsCarryAnswers
  <2>. SUFFICES ASSUME TypeOK, BatchText, transport = "server", pc = "stopped", context.stream
                PROVE  Events(Written) =
                         [i \in DOMAIN answers |->
                            [id |-> <<Numeral(i)>>, event |-> <<>>, data |-> <<Numeral(answers[i].id)>>]]
    BY DEF EventsCarryAnswers
  <2>. DEFINE n == Len(answers)
              id == [k \in 1..n |-> Numeral(k)]
              data == [k \in 1..n |-> Numeral(answers[k].id)]
  <2>1. Len(context.text) = 3 * n /\ Numbered(context.text, answers)
    BY DEF BatchText, Complete
  <2>2. answers \in Seq(Answer) /\ context.text \in Seq(PieceType) /\ n \in Nat /\ DOMAIN answers = 1..n
    BY AnswersTyped, ContextTyped DEF ContextType
  <2>3. Spells(Letter, [i \in DOMAIN context.text |-> Characters(context.text[i])], n, id, data)
    BY <2>1, <2>2, CompleteSpells
  <2>4. \A k \in 1..n : id[k] = Numeral(k) /\ data[k] = Numeral(answers[k].id)
    OBVIOUS
  <2>. HIDE DEF id, data, n
  <2>5. Events(Written) = EventList(id, data, n)
    BY <2>2, <2>3, LettersMarked, EventsWritten DEF Written
  <2>6. EventList(id, data, n) =
          [i \in 1..n |-> [id |-> <<Numeral(i)>>, event |-> <<>>, data |-> <<Numeral(answers[i].id)>>]]
    BY <2>4 DEF EventList, EventOf
  <2>. QED
    BY <2>2, <2>5, <2>6
<1>. QED
  BY <1>1, BatchTextInvariant, TypeCorrect, PTL
=============================================================================
