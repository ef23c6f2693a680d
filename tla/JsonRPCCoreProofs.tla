------------------------- MODULE JsonRPCCoreProofs -------------------------
(***************************************************************************)
(* Theorems about JsonRPCCore, for inputs of every length and for every    *)
(* set of calls; where a theorem holds for some calls only, it says which. *)
(***************************************************************************)
EXTENDS JsonRPCCore, SequenceTheorems, TLAPS

----------------------------------------------------------------------------
(* Which calls are answered as they should be.                             *)

\* A function without parameters is given some, and runs all the same.
Stray(call) ==
  /\ call.version /\ call.method \in {"silent", "plain"}
  /\ call.params # "absent"

\* No second answer follows the error about the parameters.
AnsweredNotTwice(call) == Stray(call) => ~call.throws /\ (call.id => call.method = "silent")

\* A function that never answers is not called, but notified.
NotLost(call) ==
  call.version /\ call.method = "silent" /\ call.params = "absent" /\ call.id => call.throws

----------------------------------------------------------------------------
(* Types.                                                                  *)

PieceType == [mark : {"open", "comma", "close", "blank", "id", "item"}, number : Nat]

ContextType ==
  [stream : BOOLEAN, count : Nat, status : {200, 202, 400}, sent : {0, 200, 202, 400}, text : Seq(PieceType)]

Transport == transport \in {"server", "local", "client"}

LEMMA NewContextType == NewContext \in ContextType
  BY EmptySeq DEF NewContext, ContextType

LEMMA NewContextFields ==
  /\ NewContext.stream = FALSE /\ NewContext.count = 0 /\ NewContext.status = 200
  /\ NewContext.sent = 0 /\ NewContext.text = <<>>
  BY DEF NewContext

LEMMA BeforeType ==
  ASSUME Transport, NEW c \in ContextType
  PROVE  Before(c) \in Seq(PieceType)
<1>1. c.count + 1 \in Nat /\ c.stream \in BOOLEAN
  BY DEF ContextType
<1>2. \A x \in PieceType : <<x>> \in Seq(PieceType)
  OBVIOUS
<1>3. <<>> \in Seq(PieceType)
  OBVIOUS
<1>4. /\ Separator("open") \in PieceType /\ Separator("comma") \in PieceType
      /\ Separator("blank") \in PieceType /\ Piece("id", c.count + 1) \in PieceType
  BY <1>1 DEF Separator, Piece, PieceType
<1>. HIDE DEF PieceType
<1>5. CASE ~c.stream \/ transport = "client"
  BY <1>3, <1>5 DEF Before
<1>6. CASE c.stream /\ transport = "local"
  BY <1>2, <1>4, <1>6 DEF Before
<1>7. CASE c.stream /\ transport = "server"
  <2>1. <<Piece("id", c.count + 1)>> \in Seq(PieceType)
    BY <1>2, <1>4
  <2>2. (IF c.count > 0 THEN <<Separator("blank")>> ELSE <<>>) \in Seq(PieceType)
    BY <1>2, <1>3, <1>4
  <2>3. Before(c) = (IF c.count > 0 THEN <<Separator("blank")>> ELSE <<>>) \o <<Piece("id", c.count + 1)>>
    BY <1>7 DEF Before
  <2>. QED
    BY <2>1, <2>2, <2>3, ConcatProperties
<1>. QED
  BY <1>1, <1>5, <1>6, <1>7 DEF Transport

\* One item more is written.
WrittenTo(c, w) ==
  /\ w \in ContextType
  /\ w.stream = c.stream /\ w.count = c.count + 1
  /\ \E x \in PieceType : x.mark = "item" /\ w.text = c.text \o Before(c) \o <<x>>

LEMMA WriteType ==
  ASSUME Transport, NEW c \in ContextType, NEW id \in Nat, NEW status \in {200, 202, 400}
  PROVE  /\ WrittenTo(c, Write(c, id, status))
         /\ Write(c, id, status).status = status
         /\ Write(c, id, status).sent = IF c.sent = 0 THEN status ELSE c.sent
<1>. DEFINE x == Piece("item", id)
            text == c.text \o Before(c) \o <<x>>
            w == [c EXCEPT !.status = status, !.sent = IF @ = 0 THEN status ELSE @,
                           !.text = text, !.count = @ + 1]
<1>1. x \in PieceType /\ x.mark = "item"
  BY DEF Piece, PieceType
<1>2. c.text \in Seq(PieceType) /\ Before(c) \in Seq(PieceType)
  BY BeforeType DEF ContextType
<1>3. <<x>> \in Seq(PieceType)
  BY <1>1
<1>4. c.text \o Before(c) \in Seq(PieceType)
  BY <1>2, ConcatProperties
<1>5. text \in Seq(PieceType)
  BY <1>3, <1>4, ConcatProperties
<1>6. Write(c, id, status) = w
  BY DEF Write
<1>. HIDE DEF text, x
<1>7. /\ w \in ContextType /\ w.stream = c.stream /\ w.count = c.count + 1 /\ w.text = text
      /\ w.status = status /\ w.sent = IF c.sent = 0 THEN status ELSE c.sent
  <2>. DEFINE Texts == Seq(PieceType)
              Stati == {200, 202, 400}
              Sent == {0, 200, 202, 400}
              sent == IF c.sent = 0 THEN status ELSE c.sent
              count == c.count + 1
  <2>1. ContextType = [stream : BOOLEAN, count : Nat, status : Stati, sent : Sent, text : Texts]
    BY DEF ContextType
  <2>2. text \in Texts /\ status \in Stati /\ sent \in Sent /\ count \in Nat
    BY <1>5 DEF ContextType
  <2>3. w = [c EXCEPT !.status = status, !.sent = sent, !.text = text, !.count = count]
    OBVIOUS
  <2>. HIDE DEF Texts, Stati, Sent, sent, count, w
  <2>4. /\ w \in ContextType /\ w.stream = c.stream /\ w.count = count /\ w.text = text
        /\ w.status = status /\ w.sent = sent
    BY <2>1, <2>2, <2>3
  <2>. QED
    BY <2>4 DEF count, sent
<1>8. w.text = c.text \o Before(c) \o <<x>>
  BY <1>7 DEF text
<1>. HIDE DEF w
<1>. QED
  BY <1>1, <1>6, <1>7, <1>8 DEF WrittenTo

WithStatus(c, status) == [c EXCEPT !.status = status]

LEMMA StatusRecord ==
  ASSUME NEW c \in ContextType, NEW status \in {200, 202, 400}
  PROVE  LET w == WithStatus(c, status) IN
         /\ w \in ContextType /\ w.status = status
         /\ w.stream = c.stream /\ w.count = c.count /\ w.sent = c.sent /\ w.text = c.text
<1>. DEFINE Texts == Seq(PieceType)
            Stati == {200, 202, 400}
            Sent == {0, 200, 202, 400}
<1>1. ContextType = [stream : BOOLEAN, count : Nat, status : Stati, sent : Sent, text : Texts]
  BY DEF ContextType
<1>2. status \in Stati
  OBVIOUS
<1>. HIDE DEF Texts, Stati, Sent
<1>. QED
  BY <1>1, <1>2 DEF WithStatus

LEMMA AddItemType ==
  ASSUME Transport, NEW c \in ContextType, NEW id \in Nat
  PROVE  LET w == AddItem(c, id) IN
         /\ WrittenTo(c, w)
         /\ c.stream => w.status = c.status /\ w.sent = IF c.sent = 0 THEN c.status ELSE c.sent
         /\ ~c.stream => /\ w.status = IF c.status = 200 THEN 202 ELSE c.status
                         /\ w.sent = IF c.sent = 0 THEN w.status ELSE c.sent
<1>. DEFINE status == IF ~c.stream /\ c.status = 200 THEN 202 ELSE c.status
<1>1. status \in {200, 202, 400}
  BY DEF ContextType
<1>2. AddItem(c, id) = Write(c, id, status)
  BY DEF AddItem
<1>. QED
  BY <1>1, <1>2, WriteType

\* An error is an item; without a stream its status is 400.
LEMMA ErrorType ==
  ASSUME Transport, NEW c \in ContextType, NEW id \in Nat
  PROVE  LET w == Error(c, id) IN
         /\ WrittenTo(c, w)
         /\ c.stream => w.status = c.status /\ w.sent = IF c.sent = 0 THEN c.status ELSE c.sent
         /\ ~c.stream => w.status = 400 /\ w.sent = IF c.sent = 0 THEN 400 ELSE c.sent
<1>1. CASE c.stream
  <2>1. Error(c, id) = AddItem(c, id)
    BY <1>1 DEF Error
  <2>. QED
    BY <1>1, <2>1, AddItemType
<1>2. CASE ~c.stream
  <2>. DEFINE b == WithStatus(c, 400)
  <2>1. Error(c, id) = AddItem(b, id)
    BY <1>2 DEF Error, WithStatus
  <2>2. /\ b \in ContextType /\ b.status = 400 /\ b.stream = c.stream
        /\ b.count = c.count /\ b.sent = c.sent /\ b.text = c.text
    BY StatusRecord
  <2>. HIDE DEF b
  <2>3. Before(b) = Before(c)
    BY <1>2, <2>2 DEF Before
  <2>4. /\ WrittenTo(b, AddItem(b, id)) /\ AddItem(b, id).status = 400
        /\ AddItem(b, id).sent = IF b.sent = 0 THEN 400 ELSE b.sent
    BY <1>2, <2>2, AddItemType
  <2>5. ASSUME NEW w, WrittenTo(b, w) PROVE WrittenTo(c, w)
    <3>1. PICK x \in PieceType : x.mark = "item" /\ w.text = b.text \o Before(b) \o <<x>>
      BY <2>5 DEF WrittenTo
    <3>2. w.text = c.text \o Before(c) \o <<x>>
      BY <2>2, <2>3, <3>1, Zenon
    <3>3. w \in ContextType /\ w.stream = c.stream /\ w.count = c.count + 1
      BY <2>2, <2>5 DEF WrittenTo
    <3>. QED
      BY <3>1, <3>2, <3>3 DEF WrittenTo
  <2>. QED
    BY <1>2, <2>1, <2>2, <2>4, <2>5
<1>. QED
  BY <1>1, <1>2

LEMMA AddNoteType ==
  ASSUME NEW c \in ContextType
  PROVE  LET w == AddNote(c) IN
         /\ w \in ContextType /\ w.stream = c.stream /\ w.count = c.count
         /\ w.sent = c.sent /\ w.text = c.text
         /\ w.status = IF c.stream THEN c.status ELSE 202
<1>1. AddNote(c) = IF c.stream THEN c ELSE WithStatus(c, 202)
  BY DEF AddNote, WithStatus
<1>. QED
  BY <1>1, StatusRecord

\* The call that is at the front.
LEMMA FrontCall ==
  ASSUME TypeOK, At("action", {"call"})
  PROVE  front \in Calls /\ front \in CallType /\ Id \in Nat
<1>1. front.kind = "call"
  BY DEF At
<1>2. front \in Calls \/ front \in Mark({"open", "close", "comma", "nl", "junk"}) \/ front = Nothing \/ front = End
  <2>1. front \in Tokens \cup {Nothing, End}
    BY DEF TypeOK
  <2>. QED
    BY <2>1 DEF Tokens
<1>3. front \in Calls
  <2>1. \A x \in Mark({"open", "close", "comma", "nl", "junk"}) : x.kind # "call"
    BY DEF Mark
  <2>2. Nothing.kind # "call" /\ End.kind # "call"
    BY DEF Nothing, End
  <2>. QED
    BY <1>1, <1>2, <2>1, <2>2
<1>4. place \in Nat
  <2>1. place \in 0..MaxTokens
    BY DEF TypeOK
  <2>. QED
    BY <2>1, TokensAssumption
<1>5. Id \in Nat
  BY <1>4 DEF Id
<1>. QED
  BY <1>3, <1>5, CallsAssumption

\* What follows an invoked function's run.
LEMMA InvokedType ==
  ASSUME Transport, Id \in Nat, NEW c \in ContextType
  PROVE  /\ Invoked(c) \in ContextType /\ Invoked(c).stream = c.stream
         /\ Codes # <<>> => WrittenTo(c, Invoked(c))
         /\ Codes = <<>> => /\ Invoked(c).count = c.count /\ Invoked(c).text = c.text
                            /\ Invoked(c).sent = c.sent
         /\ c.stream => /\ Invoked(c).status = c.status
                        /\ Invoked(c).sent \in {c.sent, c.status}
                        /\ c.sent # 0 => Invoked(c).sent = c.sent
         /\ ~c.stream => /\ c.sent # 0 => Invoked(c).sent = c.sent
                         /\ Codes = <<InternalError>> => Invoked(c).status = 400
                         /\ Codes # <<InternalError>> /\ c.status = 200 => Invoked(c).status # 400
                         /\ Invoked(c).sent \in {c.sent, Invoked(c).status}
                         /\ Codes # <<>> /\ c.sent = 0 => Invoked(c).sent = Invoked(c).status
<1>. DEFINE w == Invoked(c)
<1>1. /\ <<InternalError>> # <<>> /\ <<Result>> # <<>> /\ <<Result>> # <<InternalError>>
      /\ \A v : WrittenTo(c, v) => v \in ContextType /\ v.stream = c.stream
      /\ c.stream \in BOOLEAN /\ c.status \in {200, 202, 400} /\ c.sent \in {0, 200, 202, 400}
  BY DEF WrittenTo, Result, InternalError, ContextType
<1>2. CASE front.throws
  <2>1. w = Error(c, Id) /\ Codes = <<InternalError>>
    BY <1>2 DEF Invoked, Codes
  <2>2. /\ WrittenTo(c, w)
        /\ c.stream => w.status = c.status /\ w.sent = IF c.sent = 0 THEN c.status ELSE c.sent
        /\ ~c.stream => w.status = 400 /\ w.sent = IF c.sent = 0 THEN 400 ELSE c.sent
    BY <2>1, ErrorType
  <2>. HIDE DEF w
  <2>3. w = Invoked(c)
    BY DEF w
  <2>. QED
    BY <1>1, <2>1, <2>2, <2>3
<1>3. CASE ~front.throws /\ front.method = "silent"
  <2>1. w = c /\ Codes = <<>>
    BY <1>3 DEF Invoked, Codes
  <2>. QED
    BY <1>1, <2>1
<1>4. CASE ~front.throws /\ front.method # "silent" /\ front.id
  <2>1. w = AddItem(c, Id) /\ Codes = <<Result>>
    BY <1>4 DEF Invoked, Codes
  <2>2. /\ WrittenTo(c, w)
        /\ c.stream => w.status = c.status /\ w.sent = IF c.sent = 0 THEN c.status ELSE c.sent
        /\ ~c.stream => /\ w.status = IF c.status = 200 THEN 202 ELSE c.status
                        /\ w.sent = IF c.sent = 0 THEN w.status ELSE c.sent
    BY <2>1, AddItemType
  <2>. HIDE DEF w
  <2>3. w = Invoked(c)
    BY DEF w
  <2>. QED
    BY <1>1, <2>1, <2>2, <2>3
<1>5. CASE ~front.throws /\ front.method # "silent" /\ ~front.id
  <2>1. w = AddNote(c) /\ Codes = <<>>
    BY <1>5 DEF Invoked, Codes
  <2>. QED
    BY <1>1, <2>1, AddNoteType
<1>. QED
  BY <1>2, <1>3, <1>4, <1>5

\* The end of an array or of the last event.
LEMMA CloseType ==
  ASSUME Transport, NEW c \in ContextType
  PROVE  LET w == CloseContext(c) IN
         /\ After(c) \in Seq(PieceType)
         /\ w \in ContextType /\ w.stream = c.stream /\ w.count = c.count /\ w.status = c.status
         /\ w.text = c.text \o After(c) /\ w.sent = IF c.sent = 0 THEN c.status ELSE c.sent
<1>. DEFINE Texts == Seq(PieceType)
            Stati == {200, 202, 400}
            Sent == {0, 200, 202, 400}
            text == c.text \o After(c)
            sent == IF c.sent = 0 THEN c.status ELSE c.sent
            w == [c EXCEPT !.text = text, !.sent = sent]
<1>1. After(c) \in Texts
  <2>1. <<Separator("close")>> \in Texts /\ <<Separator("blank")>> \in Texts /\ <<>> \in Texts
    BY DEF Separator, Piece, PieceType
  <2>. HIDE DEF Texts
  <2>2. c.stream \in BOOLEAN /\ c.count \in Nat
    BY DEF ContextType
  <2>3. CASE ~(c.stream /\ c.count > 0) \/ transport = "client"
    BY <2>1, <2>3 DEF After
  <2>4. CASE c.stream /\ c.count > 0 /\ transport = "local"
    BY <2>1, <2>4 DEF After
  <2>5. CASE c.stream /\ c.count > 0 /\ transport = "server"
    BY <2>1, <2>5 DEF After
  <2>. QED
    BY <2>2, <2>3, <2>4, <2>5 DEF Transport
<1>2. text \in Texts /\ sent \in Sent
  <2>1. c.text \in Texts
    BY DEF ContextType
  <2>2. sent \in Sent
    BY DEF ContextType
  <2>. QED
    BY <1>1, <2>1, <2>2, ConcatProperties
<1>3. CloseContext(c) = w
  BY DEF CloseContext
<1>4. ContextType = [stream : BOOLEAN, count : Nat, status : Stati, sent : Sent, text : Texts]
  BY DEF ContextType
<1>. HIDE DEF Texts, Stati, Sent, text, sent
<1>5. /\ w \in ContextType /\ w.stream = c.stream /\ w.count = c.count /\ w.status = c.status
      /\ w.text = text /\ w.sent = sent
  BY <1>2, <1>4
<1>. HIDE DEF w
<1>. QED
  BY <1>1, <1>3, <1>5 DEF text, sent, Texts

LEMMA StreamType ==
  ASSUME NEW c \in ContextType
  PROVE  LET w == ServerSideStream(c) IN
         /\ w \in ContextType /\ w.stream = TRUE /\ w.status = 202
         /\ w.count = c.count /\ w.sent = c.sent /\ w.text = c.text
<1>. DEFINE Texts == Seq(PieceType)
            Stati == {200, 202, 400}
            Sent == {0, 200, 202, 400}
            w == [c EXCEPT !.stream = TRUE, !.status = 202]
<1>1. ContextType = [stream : BOOLEAN, count : Nat, status : Stati, sent : Sent, text : Texts] /\ 202 \in Stati
  BY DEF ContextType
<1>. HIDE DEF Texts, Stati, Sent
<1>2. /\ w \in ContextType /\ w.stream = TRUE /\ w.status = 202
      /\ w.count = c.count /\ w.sent = c.sent /\ w.text = c.text
  BY <1>1
<1>. QED
  BY <1>2 DEF ServerSideStream

\* The answers of a function that was invoked.
Given == [i \in DOMAIN Codes |-> [id |-> Id, code |-> Codes[i]]]

LEMMA GivenAnswers ==
  ASSUME Id \in Nat
  PROVE  /\ Given \in Seq(Answer)
         /\ \/ Codes = <<>> /\ Given = <<>>
            \/ \E code \in {InternalError, Result} :
                 Codes = <<code>> /\ Given = <<[id |-> Id, code |-> code]>>
<1>1. Codes \in {<<>>, <<InternalError>>, <<Result>>}
  BY DEF Codes
<1>2. CASE Codes = <<>>
  BY <1>2 DEF Given
<1>3. ASSUME NEW code \in {InternalError, Result}, Codes = <<code>>
      PROVE  Given = <<[id |-> Id, code |-> code]>> /\ Given \in Seq(Answer)
  <2>1. [id |-> Id, code |-> code] \in Answer
    BY DEF Answer
  <2>2. DOMAIN Codes = 1..1 /\ Codes[1] = code
    BY <1>3
  <2>3. Given = [i \in 1..1 |-> [id |-> Id, code |-> code]]
    BY <2>2 DEF Given
  <2>. QED
    BY <2>1, <2>3
<1>. QED
  BY <1>1, <1>2, <1>3

\* Next without its grouping; the four complaints about the input are one case, as are the
\* three refusals of a call.
LEMMA StepCases ==
  ASSUME [Next]_vars
  PROVE  \/ UNCHANGED vars
         \/ Arrive \/ SkipNewline \/ IgnoreRest
         \/ NoInput \/ SingleRequest \/ BatchRequest \/ FirstOfBatch \/ NextOfBatch \/ LastOfBatch
         \/ /\ pc \in {"opened", "separator", "action"}
            /\ \E code \in {ParseError, InvalidRequest} : GiveUp(code)
         \/ /\ At("action", {"call"})
            /\ \E code \in {InvalidRequest, MethodNotFound, InvalidParams}, good \in BOOLEAN : Refuse(code, good)
         \/ Invoke \/ StrayParams
         \/ EndMessage \/ NextMessage
  BY DEF Next, ReadMessage, ReadOneAction, BatchWithoutEnd, EmptyBatch, BadSeparator, BadJson,
         RefuseVersion, RefuseMethod, RefuseParams, Stopped, At

LEMMA ContextTyped ==
  ASSUME TypeOK
  PROVE  context \in ContextType /\ Transport
  BY DEF TypeOK, ContextType, PieceType, Transport

\* What is left to show of a step that leaves transport and batches as they are.
StepType ==
  /\ front' \in Tokens \cup {Nothing, End} /\ place' \in 0..MaxTokens /\ failed' \in BOOLEAN
  /\ pc' \in {"start", "opened", "action", "separator", "closing", "ignoring", "stopped"}
  /\ again' \in BOOLEAN
  /\ context' \in ContextType /\ answers' \in Seq(Answer)
  /\ taken' \in [place : 0..MaxTokens, id : BOOLEAN]

LEMMA SameTypes ==
  ASSUME TypeOK, UNCHANGED <<transport, batches>>, StepType
  PROVE  TypeOK'
  BY DEF TypeOK, StepType, ContextType, PieceType

\* A call that is taken, refused or not.
LEMMA TakeType ==
  ASSUME TypeOK, NEW good \in BOOLEAN, Take(good),
         context' \in ContextType, answers' \in Seq(Answer)
  PROVE  TypeOK'
<1>1. front.id \in BOOLEAN
  BY FrontCall DEF Take, CallType
<1>2. place \in 0..MaxTokens /\ taken' \in [place : 0..MaxTokens, id : BOOLEAN]
  <2>1. place \in 0..MaxTokens
    BY DEF TypeOK
  <2>. QED
    BY <1>1, <2>1 DEF Take
<1>3. /\ front' \in Tokens \cup {Nothing, End} /\ place' \in 0..MaxTokens /\ failed' \in BOOLEAN
      /\ pc' \in {"start", "opened", "action", "separator", "closing", "ignoring", "stopped"}
      /\ again' \in BOOLEAN
  BY <1>2 DEF Take, Consume, Return, TypeOK
<1>4. StepType
  BY <1>2, <1>3 DEF StepType
<1>. QED
  BY <1>4, SameTypes DEF Take

\* Whatever a peer sends, every variable keeps its type.
THEOREM TypeCorrect == Spec => []TypeOK
<1>1. Init => TypeOK
  <2>. SUFFICES ASSUME Init PROVE TypeOK
    OBVIOUS
  <2>1. context \in ContextType
    BY NewContextType DEF Init
  <2>2. answers \in Seq(Answer) /\ 0 \in 0..MaxTokens
    BY TokensAssumption DEF Init
  <2>3. taken \in [place : 0..MaxTokens, id : BOOLEAN]
    BY <2>2 DEF Init
  <2>4. /\ transport \in {"server", "local", "client"} /\ batches \in BOOLEAN
        /\ front \in Tokens \cup {Nothing, End} /\ place \in 0..MaxTokens /\ failed \in BOOLEAN
        /\ pc = "start" /\ again \in BOOLEAN
    BY <2>2 DEF Init
  <2>. QED
    BY <2>1, <2>2, <2>3, <2>4 DEF TypeOK, ContextType, PieceType
<1>2. TypeOK /\ [Next]_vars => TypeOK'
  <2>. SUFFICES ASSUME TypeOK, [Next]_vars PROVE TypeOK'
    OBVIOUS
  <2>1. context \in ContextType /\ Transport
    BY ContextTyped
  <2>2. /\ front \in Tokens \cup {Nothing, End} /\ place \in 0..MaxTokens /\ failed \in BOOLEAN
        /\ pc \in {"start", "opened", "action", "separator", "closing", "ignoring", "stopped"}
        /\ again \in BOOLEAN /\ answers \in Seq(Answer)
        /\ taken \in [place : 0..MaxTokens, id : BOOLEAN]
    BY DEF TypeOK
  <2>3. CASE UNCHANGED vars
    <3>1. StepType
      BY <2>1, <2>2, <2>3 DEF vars, StepType
    <3>. QED
      BY <2>3, <3>1, SameTypes DEF vars
  <2>4. CASE Arrive
    <3>1. place' \in 0..MaxTokens /\ front' \in Tokens \cup {Nothing, End}
      BY <2>2, <2>4, TokensAssumption DEF Arrive
    <3>2. StepType
      BY <2>1, <2>2, <2>4, <3>1 DEF Arrive, StepType
    <3>. QED
      BY <2>4, <3>2, SameTypes DEF Arrive
  <2>5. CASE SkipNewline \/ IgnoreRest
    <3>1. StepType
      BY <2>1, <2>2, <2>5 DEF SkipNewline, IgnoreRest, Consume, StepType
    <3>. QED
      BY <2>5, <3>1, SameTypes DEF SkipNewline, IgnoreRest
  <2>6. CASE NoInput \/ SingleRequest \/ BatchRequest \/ NextOfBatch \/ LastOfBatch
    <3>1. StepType
      BY <2>1, <2>2, <2>6
         DEF NoInput, SingleRequest, BatchRequest, NextOfBatch, LastOfBatch, Consume, Return, StepType
    <3>. QED
      BY <2>6, <3>1, SameTypes DEF NoInput, SingleRequest, BatchRequest, NextOfBatch, LastOfBatch
  <2>7. CASE FirstOfBatch
    <3>1. context' \in ContextType
      BY <2>1, <2>7, StreamType DEF FirstOfBatch
    <3>2. StepType
      BY <2>2, <2>7, <3>1 DEF FirstOfBatch, StepType
    <3>. QED
      BY <2>7, <3>2, SameTypes DEF FirstOfBatch
  <2>8. ASSUME NEW code \in {ParseError, InvalidRequest}, GiveUp(code) PROVE TypeOK'
    <3>1. context' \in ContextType
      BY <2>1, <2>8, ErrorType DEF GiveUp, WrittenTo
    <3>2. [id |-> 0, code |-> code] \in Answer
      BY DEF Answer
    <3>3. answers' \in Seq(Answer)
      BY <2>2, <2>8, <3>2 DEF GiveUp
    <3>4. StepType
      BY <2>2, <2>8, <3>1, <3>3 DEF GiveUp, Return, StepType
    <3>. QED
      BY <2>8, <3>4, SameTypes DEF GiveUp
  <2>9. ASSUME NEW code \in {InvalidRequest, MethodNotFound, InvalidParams}, NEW good \in BOOLEAN,
               At("action", {"call"}), Refuse(code, good) PROVE TypeOK'
    <3>1. Id \in Nat
      BY <2>9, FrontCall
    <3>2. context' \in ContextType
      BY <2>1, <2>9, <3>1, ErrorType DEF Refuse, WrittenTo
    <3>3. [id |-> Id, code |-> code] \in Answer
      BY <3>1 DEF Answer
    <3>4. answers' \in Seq(Answer)
      BY <2>2, <2>9, <3>3 DEF Refuse
    <3>. QED
      BY <2>9, <3>2, <3>4, TakeType DEF Refuse
  <2>10. CASE Invoke
    <3>1. Id \in Nat
      BY <2>10, FrontCall DEF Invoke
    <3>2. context' \in ContextType
      BY <2>1, <2>10, <3>1, InvokedType DEF Invoke
    <3>3. answers' \in Seq(Answer)
      BY <2>2, <2>10, <3>1, GivenAnswers, ConcatProperties DEF Invoke, Given
    <3>. QED
      BY <2>10, <3>2, <3>3, TakeType DEF Invoke
  <2>11. CASE StrayParams
    <3>1. Id \in Nat
      BY <2>11, FrontCall DEF StrayParams
    <3>2. Error(context, Id) \in ContextType
      BY <2>1, <3>1, ErrorType DEF WrittenTo
    <3>3. context' \in ContextType
      BY <2>1, <2>11, <3>1, <3>2, InvokedType DEF StrayParams
    <3>4. [id |-> Id, code |-> InvalidParams] \in Answer
      BY <3>1 DEF Answer
    <3>5. answers' = Append(answers, [id |-> Id, code |-> InvalidParams]) \o Given
      BY <2>11 DEF StrayParams, Given
    <3>6. Append(answers, [id |-> Id, code |-> InvalidParams]) \in Seq(Answer) /\ Given \in Seq(Answer)
      BY <2>2, <3>1, <3>4, GivenAnswers, AppendProperties
    <3>7. answers' \in Seq(Answer)
      BY <3>5, <3>6, ConcatProperties
    <3>. QED
      BY <2>11, <3>3, <3>7, TakeType DEF StrayParams
  <2>12. CASE EndMessage
    <3>1. context' \in ContextType
      BY <2>1, <2>12, CloseType DEF EndMessage
    <3>2. StepType
      BY <2>2, <2>12, <3>1 DEF EndMessage, StepType
    <3>. QED
      BY <2>12, <3>2, SameTypes DEF EndMessage
  <2>13. CASE NextMessage
    <3>1. StepType
      BY <2>1, <2>2, <2>13, NewContextType DEF NextMessage, StepType
    <3>. QED
      BY <2>13, <3>1, SameTypes DEF NextMessage
  <2>. QED
    BY <2>3, <2>4, <2>5, <2>6, <2>7, <2>8, <2>9, <2>10, <2>11, <2>12, <2>13, StepCases
<1>. QED
  BY <1>1, <1>2, PTL DEF Spec

----------------------------------------------------------------------------
(* The shape of a message.                                                 *)

\* Where a message stands: the array it may be, and the context it is answered through.
Shape ==
  /\ transport = "client" => ~batches
  /\ pc = "opened" \/ context.stream => batches
  /\ pc = "separator" => context.stream
  /\ pc \in {"start", "opened"} \/ (pc = "action" /\ ~context.stream) => context = NewContext
  /\ pc = "ignoring" => transport = "local"

\* A call that is answered, or not, and a complaint leave the context's stream as it is.
LEMMA AnswerContext ==
  ASSUME TypeOK,
         \/ \E code \in {ParseError, InvalidRequest} : GiveUp(code)
         \/ /\ At("action", {"call"})
            /\ \E code \in {InvalidRequest, MethodNotFound, InvalidParams}, good \in BOOLEAN : Refuse(code, good)
         \/ Invoke \/ StrayParams
  PROVE  context'.stream = context.stream
<1>1. context \in ContextType /\ Transport
  BY ContextTyped
<1>2. CASE \E code \in {ParseError, InvalidRequest} : GiveUp(code)
  BY <1>1, <1>2, ErrorType DEF GiveUp, WrittenTo
<1>3. CASE /\ At("action", {"call"})
           /\ \E code \in {InvalidRequest, MethodNotFound, InvalidParams}, good \in BOOLEAN : Refuse(code, good)
  <2>1. Id \in Nat /\ context' = Error(context, Id)
    BY <1>3, FrontCall DEF Refuse
  <2>2. WrittenTo(context, Error(context, Id))
    BY <1>1, <2>1, ErrorType
  <2>. QED
    BY <2>1, <2>2 DEF WrittenTo
<1>4. CASE Invoke
  BY <1>1, <1>4, FrontCall, InvokedType DEF Invoke
<1>5. CASE StrayParams
  <2>1. Id \in Nat
    BY <1>5, FrontCall DEF StrayParams
  <2>2. Error(context, Id) \in ContextType /\ Error(context, Id).stream = context.stream
    BY <1>1, <2>1, ErrorType DEF WrittenTo
  <2>. QED
    BY <1>1, <1>5, <2>1, <2>2, InvokedType DEF StrayParams
<1>. QED
  BY <1>2, <1>3, <1>4, <1>5

LEMMA ShapeInvariant == Spec => []Shape
<1>1. Init => Shape
  <2>. SUFFICES ASSUME Init PROVE Shape
    OBVIOUS
  <2>1. context = NewContext /\ context.stream = FALSE /\ pc = "start" /\ (transport = "client" => batches = FALSE)
    BY NewContextFields DEF Init
  <2>. QED
    BY <2>1 DEF Shape
<1>2. TypeOK /\ Shape /\ [Next]_vars => Shape'
  <2>. SUFFICES ASSUME TypeOK, Shape, [Next]_vars PROVE Shape'
    OBVIOUS
  <2>. USE DEF Shape
  <2>1. CASE UNCHANGED vars
    BY <2>1 DEF vars
  <2>2. CASE Arrive \/ SkipNewline \/ IgnoreRest
    BY <2>2 DEF Arrive, SkipNewline, IgnoreRest
  <2>3. CASE NoInput \/ SingleRequest \/ BatchRequest \/ NextOfBatch \/ LastOfBatch
    <3>1. /\ UNCHANGED <<transport, batches, context>>
          /\ pc' \in {"closing", "action", "opened"}
          /\ pc' = "opened" => pc = "start" /\ batches
          /\ pc' = "action" => pc = "start" \/ pc = "separator"
      BY <2>3 DEF NoInput, SingleRequest, BatchRequest, NextOfBatch, LastOfBatch, At, Return
    <3>. QED
      BY <3>1
  <2>4. CASE FirstOfBatch
    <3>1. context'.stream = TRUE
      BY <2>4, ContextTyped, StreamType DEF FirstOfBatch
    <3>. QED
      BY <2>4, <3>1 DEF FirstOfBatch
  <2>5. ASSUME NEW code \in {ParseError, InvalidRequest}, GiveUp(code) PROVE Shape'
    BY <2>5, AnswerContext DEF GiveUp, Return
  <2>6. ASSUME NEW good \in BOOLEAN, Take(good), context'.stream = context.stream PROVE Shape'
    <3>1. pc' \in {"separator", "closing"} /\ (pc' = "separator" => context.stream)
      BY <2>6 DEF Take, Return
    <3>. QED
      BY <2>6, <3>1 DEF Take
  <2>7. ASSUME NEW code \in {InvalidRequest, MethodNotFound, InvalidParams}, NEW good \in BOOLEAN,
               At("action", {"call"}), Refuse(code, good) PROVE Shape'
    BY <2>6, <2>7, AnswerContext DEF Refuse
  <2>8. CASE Invoke \/ StrayParams
    BY <2>6, <2>8, AnswerContext DEF Invoke, StrayParams
  <2>9. CASE EndMessage
    <3>1. context'.stream = context.stream
      BY <2>9, ContextTyped, CloseType DEF EndMessage
    <3>. QED
      BY <2>9, <3>1 DEF EndMessage
  <2>10. CASE NextMessage
    BY <2>10 DEF NextMessage, NewContext
  <2>. QED
    BY <2>1, <2>2, <2>3, <2>4, <2>5, <2>7, <2>8, <2>9, <2>10, StepCases
<1>. QED
  BY <1>1, <1>2, TypeCorrect, PTL DEF Spec

----------------------------------------------------------------------------
(* The status of a response.                                               *)

Failure == \E i \in DOMAIN answers : answers[i].code # Result

\* What StatusTellsOutcome needs of the steps before the last.
Statuses ==
  transport = "server" =>
    IF context.stream
    THEN context.status = 202 /\ context.sent \in {0, 202} /\ (pc = "stopped" => context.sent = 202)
    ELSE /\ pc \in {"start", "opened", "action"} => answers = <<>>
         /\ pc \in {"closing", "stopped"} => (context.sent = 400 <=> Failure)
         /\ pc = "closing" /\ context.sent = 0 => context.status # 400

\* A stream's status stays 202, whatever becomes of its calls.
LEMMA StreamStatus ==
  ASSUME TypeOK, context.stream, context.status = 202, context.sent \in {0, 202},
         \/ \E code \in {ParseError, InvalidRequest} : GiveUp(code)
         \/ /\ At("action", {"call"})
            /\ \E code \in {InvalidRequest, MethodNotFound, InvalidParams}, good \in BOOLEAN : Refuse(code, good)
         \/ Invoke \/ StrayParams
  PROVE  context'.status = 202 /\ context'.sent \in {0, 202}
<1>1. context \in ContextType /\ Transport
  BY ContextTyped
<1>2. CASE \E code \in {ParseError, InvalidRequest} : GiveUp(code)
  BY <1>1, <1>2, ErrorType DEF GiveUp
<1>3. CASE /\ At("action", {"call"})
           /\ \E code \in {InvalidRequest, MethodNotFound, InvalidParams}, good \in BOOLEAN : Refuse(code, good)
  BY <1>1, <1>3, FrontCall, ErrorType DEF Refuse
<1>4. CASE Invoke
  BY <1>1, <1>4, FrontCall, InvokedType DEF Invoke
<1>5. CASE StrayParams
  <2>. DEFINE e == Error(context, Id)
  <2>1. Id \in Nat /\ context' = Invoked(e)
    BY <1>5, FrontCall DEF StrayParams
  <2>2. e \in ContextType /\ e.stream = context.stream /\ e.status = 202 /\ e.sent \in {0, 202}
    <3>1. /\ WrittenTo(context, e) /\ e.status = context.status
          /\ e.sent = IF context.sent = 0 THEN context.status ELSE context.sent
      BY <1>1, <2>1, ErrorType
    <3>. HIDE DEF e
    <3>. QED
      BY <3>1 DEF WrittenTo
  <2>. HIDE DEF e
  <2>3. Invoked(e).status = e.status /\ Invoked(e).sent \in {e.sent, e.status}
    BY <1>1, <2>1, <2>2, InvokedType
  <2>. QED
    BY <2>1, <2>2, <2>3
<1>. QED
  BY <1>2, <1>3, <1>4, <1>5

\* The one call of a message without a stream, or what is wrong with it: if it is answered
\* with an error, 400 is sent with it, and else it is not sent, then or later.
LEMMA SingleStatus ==
  ASSUME TypeOK, context = NewContext, answers = <<>>,
         \/ \E code \in {ParseError, InvalidRequest} : GiveUp(code)
         \/ /\ At("action", {"call"})
            /\ \E code \in {InvalidRequest, MethodNotFound, InvalidParams}, good \in BOOLEAN : Refuse(code, good)
         \/ Invoke \/ StrayParams
  PROVE  /\ context'.sent = 400 <=> Failure'
         /\ context'.sent = 0 => context'.status # 400
<1>1. context \in ContextType /\ Transport
  BY ContextTyped
<1>2. context.stream = FALSE /\ context.sent = 0 /\ context.status = 200
  BY NewContextFields
<1>3. \A id, code : Append(answers, [id |-> id, code |-> code]) = <<[id |-> id, code |-> code]>>
  OBVIOUS
<1>4. CASE \E code \in {ParseError, InvalidRequest} : GiveUp(code)
  <2>1. PICK code \in {ParseError, InvalidRequest} : GiveUp(code)
    BY <1>4
  <2>2. context'.sent = 400
    BY <1>1, <1>2, <2>1, ErrorType DEF GiveUp
  <2>3. answers' = <<[id |-> 0, code |-> code]>>
    BY <1>3, <2>1 DEF GiveUp
  <2>4. Failure'
    BY <2>3 DEF Failure, ParseError, InvalidRequest, Result
  <2>. QED
    BY <2>2, <2>4
<1>5. CASE /\ At("action", {"call"})
           /\ \E code \in {InvalidRequest, MethodNotFound, InvalidParams}, good \in BOOLEAN : Refuse(code, good)
  <2>1. PICK code \in {InvalidRequest, MethodNotFound, InvalidParams}, good \in BOOLEAN : Refuse(code, good)
    BY <1>5
  <2>2. context'.sent = 400
    BY <1>1, <1>2, <1>5, <2>1, FrontCall, ErrorType DEF Refuse
  <2>3. answers' = <<[id |-> Id, code |-> code]>>
    BY <1>3, <2>1 DEF Refuse
  <2>4. Failure'
    BY <2>3 DEF Failure, MethodNotFound, InvalidParams, InvalidRequest, Result
  <2>. QED
    BY <2>2, <2>4
<1>6. CASE Invoke
  <2>1. Id \in Nat /\ context' = Invoked(context) /\ answers' = answers \o Given
    BY <1>6, FrontCall DEF Invoke, Given
  <2>2. answers' = Given
    BY <2>1, GivenAnswers, ConcatEmptySeq
  <2>3. CASE Codes = <<>>
    <3>1. answers' = <<>>
      BY <2>1, <2>2, <2>3, GivenAnswers
    <3>2. ~Failure'
      BY <3>1 DEF Failure
    <3>3. context'.sent = 0 /\ Codes # <<InternalError>>
      BY <1>1, <1>2, <2>1, <2>3, InvokedType
    <3>. QED
      BY <1>1, <1>2, <2>1, <3>2, <3>3, InvokedType
  <2>4. ASSUME NEW code \in {InternalError, Result}, Codes = <<code>>, Given = <<[id |-> Id, code |-> code]>>
        PROVE  (context'.sent = 400 <=> Failure') /\ context'.sent # 0
    <3>1. Failure' <=> code # Result
      BY <2>2, <2>4 DEF Failure
    <3>2. Codes # <<>> /\ (code = InternalError <=> code # Result) /\ (Codes = <<InternalError>> <=> code = InternalError)
      BY <2>4 DEF InternalError, Result
    <3>3. context'.sent = context'.status /\ (context'.status = 400 <=> code = InternalError)
      BY <1>1, <1>2, <2>1, <3>2, InvokedType
    <3>4. context'.status # 0
      <4>1. context' \in ContextType
        BY <1>1, <2>1, InvokedType
      <4>. QED
        BY <4>1 DEF ContextType
    <3>. QED
      BY <3>1, <3>2, <3>3, <3>4
  <2>. QED
    BY <2>1, <2>3, <2>4, GivenAnswers
<1>7. CASE StrayParams
  <2>. DEFINE e == Error(context, Id)
              a == [id |-> Id, code |-> InvalidParams]
  <2>1. Id \in Nat /\ context' = Invoked(e) /\ answers' = Append(answers, a) \o Given
    BY <1>7, FrontCall DEF StrayParams, Given
  <2>2. /\ WrittenTo(context, e)
        /\ ~context.stream => e.sent = IF context.sent = 0 THEN 400 ELSE context.sent
    BY <1>1, <2>1, ErrorType
  <2>. HIDE DEF e
  <2>8. e \in ContextType /\ e.stream = FALSE /\ e.sent = 400
    BY <1>2, <2>2 DEF WrittenTo
  <2>3. context'.sent = 400
    BY <1>1, <2>1, <2>8, InvokedType
  <2>4. a \in Answer /\ Given \in Seq(Answer)
    BY <2>1, GivenAnswers DEF Answer
  <2>5. answers' = <<a>> \o Given
    BY <1>3, <2>1
  <2>6. Len(answers') >= 1 /\ DOMAIN answers' = 1..Len(answers') /\ answers'[1] = a
    BY <2>4, <2>5, ConcatProperties
  <2>7. Failure'
    BY <2>6 DEF Failure, InvalidParams, Result
  <2>. QED
    BY <2>3, <2>7
<1>. QED
  BY <1>4, <1>5, <1>6, <1>7

\* After a call or a complaint the message goes on only with a stream.
LEMMA AnswerPlace ==
  ASSUME TypeOK,
         \/ /\ pc \in {"opened", "separator", "action"}
            /\ \E code \in {ParseError, InvalidRequest} : GiveUp(code)
         \/ /\ At("action", {"call"})
            /\ \E code \in {InvalidRequest, MethodNotFound, InvalidParams}, good \in BOOLEAN : Refuse(code, good)
         \/ Invoke \/ StrayParams
  PROVE  /\ pc \in {"opened", "separator", "action"}
         /\ pc' \in {"separator", "closing"} /\ (pc' = "separator" => context.stream)
         /\ UNCHANGED <<transport, batches>>
<1>1. ASSUME NEW code, GiveUp(code) PROVE pc' = "closing" /\ UNCHANGED <<transport, batches>>
  BY <1>1 DEF GiveUp, Return
<1>2. ASSUME NEW good, Take(good)
      PROVE  /\ pc = "action" /\ pc' \in {"separator", "closing"} /\ (pc' = "separator" => context.stream)
             /\ UNCHANGED <<transport, batches>>
  BY <1>2 DEF Take, Return, At
<1>. QED
  BY <1>1, <1>2 DEF Refuse, Invoke, StrayParams

LEMMA StatusInvariant == Spec => []Statuses
<1>1. Init => Statuses
  BY NewContextFields DEF Init, Statuses
<1>2. TypeOK /\ Shape /\ Statuses /\ [Next]_vars => Statuses'
  <2>. SUFFICES ASSUME TypeOK, Shape, Statuses, [Next]_vars PROVE Statuses'
    OBVIOUS
  <2>. USE DEF Statuses
  <2>1. ASSUME UNCHANGED <<transport, pc, context, answers>> PROVE Statuses'
    BY <2>1 DEF Failure
  <2>2. CASE Arrive \/ SkipNewline \/ IgnoreRest \/ UNCHANGED vars
    BY <2>1, <2>2 DEF Arrive, SkipNewline, IgnoreRest, vars
  <2>3. CASE NoInput
    <3>1. /\ context' = NewContext /\ pc' = "closing" /\ UNCHANGED <<transport, answers>>
          /\ (transport = "server" => answers = <<>>)
      BY <2>3, NewContextFields DEF NoInput, At, Return, Shape
    <3>. QED
      BY <3>1, NewContextFields DEF Failure
  <2>4. CASE SingleRequest \/ BatchRequest \/ NextOfBatch \/ LastOfBatch
    <3>1. /\ UNCHANGED <<transport, context, answers>>
          /\ pc' \in {"action", "opened", "closing"} /\ pc \in {"start", "separator"}
          /\ (pc' = "closing" => pc = "separator")
      BY <2>4 DEF SingleRequest, BatchRequest, NextOfBatch, LastOfBatch, At, Return
    <3>. QED
      BY <3>1 DEF Shape
  <2>5. CASE FirstOfBatch
    <3>1. context = NewContext /\ context \in ContextType
      BY <2>5, ContextTyped DEF FirstOfBatch, Shape
    <3>2. context' = ServerSideStream(context) /\ pc' = "action"
      BY <2>5 DEF FirstOfBatch
    <3>3. context'.stream /\ context'.status = 202 /\ context'.sent = context.sent
      BY <3>1, <3>2, StreamType
    <3>4. context'.sent = 0
      BY <3>1, <3>3, NewContextFields
    <3>. QED
      BY <3>2, <3>3, <3>4
  <2>6. ASSUME \/ /\ pc \in {"opened", "separator", "action"}
                  /\ \E code \in {ParseError, InvalidRequest} : GiveUp(code)
               \/ /\ At("action", {"call"})
                  /\ \E code \in {InvalidRequest, MethodNotFound, InvalidParams}, good \in BOOLEAN : Refuse(code, good)
               \/ Invoke \/ StrayParams
        PROVE  Statuses'
    <3>1. /\ pc \in {"opened", "separator", "action"} /\ context'.stream = context.stream
          /\ pc' \in {"separator", "closing"} /\ (pc' = "separator" => context.stream)
          /\ transport' = transport
      BY <2>6, AnswerPlace, AnswerContext
    <3>2. CASE context.stream
      <4>1. transport = "server" => context'.status = 202 /\ context'.sent \in {0, 202}
        BY <2>6, <3>2, StreamStatus
      <4>. QED
        BY <3>1, <3>2, <4>1
    <3>3. CASE ~context.stream
      <4>1. context = NewContext
        BY <3>1, <3>3 DEF Shape
      <4>2. transport = "server" => answers = <<>>
        BY <3>1, <3>3, <4>1 DEF Shape
      <4>3. transport = "server" => (context'.sent = 400 <=> Failure') /\ (context'.sent = 0 => context'.status # 400)
        BY <2>6, <4>1, <4>2, SingleStatus
      <4>. QED
        BY <3>1, <3>3, <4>3
    <3>. QED
      BY <3>2, <3>3
  <2>7. CASE EndMessage
    <3>1. /\ context'.stream = context.stream /\ context'.status = context.status
          /\ context'.sent = IF context.sent = 0 THEN context.status ELSE context.sent
          /\ UNCHANGED <<transport, answers>> /\ pc = "closing"
          /\ (transport = "server" => pc' = "stopped")
      BY <2>7, ContextTyped, CloseType DEF EndMessage
    <3>. QED
      BY <3>1 DEF Failure
  <2>8. CASE NextMessage
    BY <2>8 DEF NextMessage, Shape
  <2>. QED
    BY <2>2, <2>3, <2>4, <2>5, <2>6, <2>7, <2>8, StepCases
<1>. QED
  BY <1>1, <1>2, TypeCorrect, ShapeInvariant, PTL DEF Spec

\* For any calls and any length of the input, a single request is answered with status 400
\* exactly when it failed, and a batch with 202.
THEOREM StatusIsRight == Spec => []StatusTellsOutcome
<1>1. Statuses => StatusTellsOutcome
  BY DEF Statuses, StatusTellsOutcome, Failure
<1>. QED
  BY <1>1, StatusInvariant, PTL

----------------------------------------------------------------------------
(* The service: calls in order, answered once, none after a complaint.     *)

\* How far the input is read, and that it is read no further after a complaint.
Reading ==
  /\ pc \in {"opened", "separator", "action"} => ~failed
  /\ pc = "start" /\ failed => front.kind = "end"
  /\ pc \in {"closing", "ignoring"} /\ again => ~failed
  /\ taken.place <= place
  /\ front.kind \notin {"none", "end"} => taken.place < place

LEMMA Places ==
  ASSUME TypeOK PROVE place \in Nat /\ taken.place \in Nat
<1>1. place \in 0..MaxTokens /\ taken \in [place : 0..MaxTokens, id : BOOLEAN]
  BY DEF TypeOK
<1>. QED
  BY <1>1, TokensAssumption

LEMMA AnswersTyped ==
  ASSUME TypeOK
  PROVE  answers \in Seq(Answer) /\ \A i \in DOMAIN answers : answers[i].id \in Nat
<1>1. answers \in Seq(Answer)
  BY DEF TypeOK
<1>2. \A i \in DOMAIN answers : answers[i] \in Answer
  BY <1>1, ElementOfSeq, LenProperties
<1>3. \A a \in Answer : a.id \in Nat
  BY DEF Answer
<1>. QED
  BY <1>1, <1>2, <1>3

\* The steps that take a call.
Takes ==
  \/ /\ At("action", {"call"})
     /\ \E code \in {InvalidRequest, MethodNotFound, InvalidParams}, good \in BOOLEAN : Refuse(code, good)
  \/ Invoke \/ StrayParams

LEMMA TakesWell ==
  ASSUME TypeOK, Takes
  PROVE  /\ pc = "action" /\ front \in Calls /\ front \in CallType /\ front.kind = "call"
         /\ Id \in Nat /\ Id = IF front.id THEN place ELSE 0
         /\ taken' = [place |-> place, id |-> front.id]
         /\ front' = Nothing /\ place' = place
         /\ pc' \in {"separator", "closing"} /\ failed' \in BOOLEAN
         /\ pc' = "separator" => ~failed'
         /\ pc' = "closing" /\ again' => ~failed'
<1>1. PICK good \in BOOLEAN : Take(good)
  BY DEF Takes, Refuse, Invoke, StrayParams
<1>2. At("action", {"call"})
  BY <1>1 DEF Take
<1>3. front \in Calls /\ front \in CallType /\ Id \in Nat
  BY <1>2, FrontCall
<1>. QED
  BY <1>1, <1>2, <1>3 DEF Take, At, Consume, Return, Id

LEMMA ReadingInvariant == Spec => []Reading
<1>1. Init => Reading
  BY DEF Init, Reading, Nothing
<1>2. TypeOK /\ Reading /\ [Next]_vars => Reading'
  <2>. SUFFICES ASSUME TypeOK, Reading, [Next]_vars PROVE Reading'
    OBVIOUS
  <2>0. place \in Nat /\ taken.place \in Nat
    BY Places
  <2>. USE DEF Reading
  <2>1. CASE UNCHANGED vars
    BY <2>1 DEF vars
  <2>2. CASE Arrive
    <3>1. CASE place' = place + 1
      BY <2>0, <2>2, <3>1 DEF Arrive
    <3>2. CASE place' = place /\ front' = End
      BY <2>2, <3>2 DEF Arrive, End
    <3>. QED
      BY <2>2, <3>1, <3>2 DEF Arrive
  <2>3. CASE SkipNewline \/ IgnoreRest
    BY <2>0, <2>3 DEF SkipNewline, IgnoreRest, Consume, Nothing
  <2>4. CASE NoInput \/ LastOfBatch
    BY <2>0, <2>4 DEF NoInput, LastOfBatch, At, Return, Consume, Nothing
  <2>5. CASE SingleRequest \/ FirstOfBatch
    BY <2>5 DEF SingleRequest, FirstOfBatch
  <2>6. CASE BatchRequest \/ NextOfBatch
    <3>1. /\ pc' \in {"opened", "action"} /\ failed' = failed
          /\ UNCHANGED <<place, taken>> /\ taken.place <= place
          /\ (pc = "start" /\ front.kind = "open") \/ pc = "separator"
      BY <2>6 DEF BatchRequest, NextOfBatch, At
    <3>3. ~failed
      BY <3>1
    <3>2. front'.kind = "none"
      <4>1. front' = Nothing
        BY <2>6 DEF BatchRequest, NextOfBatch, Consume
      <4>. QED
        BY <4>1 DEF Nothing
    <3>. QED
      BY <3>1, <3>2, <3>3
  <2>7. ASSUME NEW code, GiveUp(code) PROVE Reading'
    BY <2>7 DEF GiveUp, Return
  <2>8. CASE Takes
    <3>1. taken'.place = place /\ front'.kind = "none" /\ place' = place
      BY <2>8, TakesWell DEF Nothing
    <3>. QED
      BY <2>0, <2>8, <3>1, TakesWell
  <2>9. CASE EndMessage
    BY <2>9 DEF EndMessage
  <2>10. CASE NextMessage
    BY <2>0, <2>10 DEF NextMessage, Nothing
  <2>. QED
    BY <2>1, <2>2, <2>3, <2>4, <2>5, <2>6, <2>7, <2>8, <2>9, <2>10, StepCases DEF Takes
<1>. QED
  BY <1>1, <1>2, TypeCorrect, PTL DEF Spec

\* What a call that is taken adds to the answers: one for a call with an id, at most one,
\* with id null, for a notification.
LEMMA OnceAnswered ==
  ASSUME TypeOK, Takes, AnsweredNotTwice(front)
  PROVE  \/ \E code : answers' = Append(answers, [id |-> Id, code |-> code]) /\ [id |-> Id, code |-> code] \in Answer
         \/ answers' = answers /\ (NotLost(front) => ~front.id)
<1>1. answers \in Seq(Answer) /\ Id \in Nat /\ front \in CallType
  BY TakesWell DEF TypeOK
<1>2. CASE \E code \in {InvalidRequest, MethodNotFound, InvalidParams}, good \in BOOLEAN : Refuse(code, good)
  BY <1>1, <1>2 DEF Refuse, Answer
<1>3. CASE Invoke
  <2>1. answers' = answers \o Given
    BY <1>3 DEF Invoke, Given
  <2>2. CASE Codes = <<>>
    <3>1. answers' = answers
      BY <1>1, <2>1, <2>2, GivenAnswers, ConcatEmptySeq
    <3>2. ~front.throws /\ (front.method = "silent" \/ ~front.id)
      BY <2>2 DEF Codes
    <3>3. NotLost(front) => ~front.id
      BY <1>1, <1>3, <3>2 DEF Invoke, Known, NotLost, CallType
    <3>. QED
      BY <3>1, <3>3
  <2>3. CASE Codes # <<>>
    <3>1. PICK code \in {InternalError, Result} : Given = <<[id |-> Id, code |-> code]>>
      BY <1>1, <2>3, GivenAnswers
    <3>2. [id |-> Id, code |-> code] \in Answer
      BY <1>1 DEF Answer
    <3>3. Append(answers, [id |-> Id, code |-> code]) = answers \o <<[id |-> Id, code |-> code]>>
      BY <1>1, <3>2, AppendIsConcat
    <3>. QED
      BY <2>1, <3>1, <3>2, <3>3
  <2>. QED
    BY <2>2, <2>3
<1>4. CASE StrayParams
  <2>. DEFINE a == [id |-> Id, code |-> InvalidParams]
  <2>1. Stray(front)
    BY <1>1, <1>4 DEF StrayParams, Known, Stray, CallType
  <2>2. Codes = <<>>
    BY <2>1 DEF AnsweredNotTwice, Codes
  <2>3. a \in Answer
    BY <1>1 DEF Answer
  <2>4. Append(answers, a) \in Seq(Answer)
    BY <1>1, <2>3, AppendProperties
  <2>5. answers' = Append(answers, a) \o Given
    BY <1>4 DEF StrayParams, Given
  <2>6. answers' = Append(answers, a)
    BY <1>1, <2>2, <2>4, <2>5, GivenAnswers, ConcatEmptySeq
  <2>. HIDE DEF a
  <2>7. a = [id |-> Id, code |-> InvalidParams]
    BY DEF a
  <2>. QED
    BY <2>3, <2>6, <2>7
<1>. QED
  BY <1>2, <1>3, <1>4 DEF Takes

\* No answer is ahead of the input.
Behind == \A i \in DOMAIN answers : answers[i].id <= taken.place

LEMMA AnswersInvariant ==
  ASSUME \A call \in Calls : AnsweredNotTwice(call)
  PROVE  Spec => [](Behind /\ OneAnswer)
<1>1. Init => Behind /\ OneAnswer
  BY DEF Init, Behind, OneAnswer
<1>2. TypeOK /\ TypeOK' /\ Reading /\ Behind /\ OneAnswer /\ [Next]_vars => Behind' /\ OneAnswer'
  <2>. SUFFICES ASSUME TypeOK, TypeOK', Reading, Behind, OneAnswer, [Next]_vars PROVE Behind' /\ OneAnswer'
    OBVIOUS
  <2>0. /\ answers \in Seq(Answer) /\ place \in Nat /\ taken.place \in Nat
        /\ \A i \in DOMAIN answers : answers[i].id \in Nat
    BY Places, AnswersTyped
  <2>1. ASSUME UNCHANGED <<answers, taken>> PROVE Behind' /\ OneAnswer'
    BY <2>1 DEF Behind, OneAnswer
  <2>2. ASSUME NEW a \in Answer, answers' = Append(answers, a), taken'.place \in Nat,
               taken.place <= taken'.place, a.id <= taken'.place, a.id # 0 => a.id > taken.place
        PROVE  Behind' /\ OneAnswer'
    <3>1. /\ DOMAIN answers = 1..Len(answers) /\ DOMAIN answers' = 1..Len(answers) + 1 /\ Len(answers) \in Nat
          /\ \A i \in 1..Len(answers) : answers'[i] = answers[i]
          /\ answers'[Len(answers) + 1] = a
      <4>1. answers' \in Seq(Answer) /\ Len(answers') = Len(answers) + 1
        BY <2>0, <2>2, AppendProperties
      <4>. QED
        BY <2>0, <2>2, <4>1, AppendProperties, LenProperties
    <3>2. Behind'
      <4>. SUFFICES ASSUME NEW i \in DOMAIN answers' PROVE answers'[i].id <= taken'.place
        BY DEF Behind
      <4>1. CASE i \in DOMAIN answers
        <5>1. answers[i].id <= taken.place
          BY <4>1 DEF Behind
        <5>. QED
          BY <2>0, <2>2, <3>1, <4>1, <5>1
      <4>2. CASE i = Len(answers) + 1
        BY <2>2, <3>1, <4>2
      <4>. QED
        BY <3>1, <4>1, <4>2
    <3>3. OneAnswer'
      <4>. SUFFICES ASSUME NEW i \in DOMAIN answers', NEW j \in DOMAIN answers',
                           answers'[i].id = answers'[j].id, answers'[i].id # 0, i # j
                    PROVE  FALSE
        BY DEF OneAnswer
      <4>1. \A k \in DOMAIN answers : answers[k].id <= taken.place /\ answers'[k] = answers[k]
        BY <3>1 DEF Behind
      <4>2. CASE i \in DOMAIN answers /\ j \in DOMAIN answers
        BY <4>1, <4>2 DEF OneAnswer
      <4>3. CASE i = Len(answers) + 1 /\ j \in DOMAIN answers
        BY <2>0, <2>2, <3>1, <4>1, <4>3
      <4>4. CASE j = Len(answers) + 1 /\ i \in DOMAIN answers
        BY <2>0, <2>2, <3>1, <4>1, <4>4
      <4>. QED
        BY <3>1, <4>2, <4>3, <4>4
    <3>. QED
      BY <3>2, <3>3
  <2>3. ASSUME NEW code \in {ParseError, InvalidRequest}, GiveUp(code) PROVE Behind' /\ OneAnswer'
    <3>1. [id |-> 0, code |-> code] \in Answer
      BY DEF Answer
    <3>. QED
      BY <2>0, <2>2, <2>3, <3>1 DEF GiveUp
  <2>4. CASE Takes
    <3>1. /\ taken'.place = place /\ taken.place < place /\ AnsweredNotTwice(front)
          /\ Id \in {0, place}
      BY <2>4, TakesWell DEF Reading
    <3>2. CASE answers' = answers
      <4>1. Behind'
        BY <2>0, <3>1, <3>2 DEF Behind
      <4>. QED
        BY <3>2, <4>1 DEF OneAnswer
    <3>3. ASSUME NEW code, answers' = Append(answers, [id |-> Id, code |-> code]), [id |-> Id, code |-> code] \in Answer
          PROVE  Behind' /\ OneAnswer'
      <4>. DEFINE a == [id |-> Id, code |-> code]
      <4>1. a \in Answer /\ answers' = Append(answers, a) /\ a.id = Id
        BY <3>3
      <4>. HIDE DEF a
      <4>. QED
        BY <2>0, <2>2, <3>1, <4>1
    <3>. QED
      BY <2>4, <3>1, <3>2, <3>3, OnceAnswered
  <2>5. CASE \/ UNCHANGED vars
             \/ Arrive \/ SkipNewline \/ IgnoreRest
             \/ NoInput \/ SingleRequest \/ BatchRequest \/ FirstOfBatch \/ NextOfBatch \/ LastOfBatch
             \/ EndMessage \/ NextMessage
    <3>1. CASE UNCHANGED vars \/ Arrive \/ SkipNewline \/ IgnoreRest
      BY <2>1, <3>1 DEF Arrive, SkipNewline, IgnoreRest, vars
    <3>2. CASE NoInput \/ SingleRequest \/ BatchRequest \/ FirstOfBatch \/ NextOfBatch \/ LastOfBatch
      BY <2>1, <3>2 DEF NoInput, SingleRequest, BatchRequest, FirstOfBatch, NextOfBatch, LastOfBatch
    <3>3. CASE EndMessage \/ NextMessage
      BY <2>1, <3>3 DEF EndMessage, NextMessage
    <3>. QED
      BY <2>5, <3>1, <3>2, <3>3
  <2>. QED
    BY <2>3, <2>4, <2>5, StepCases DEF Takes
<1>. QED
  BY <1>1, <1>2, TypeCorrect, ReadingInvariant, PTL DEF Spec

\* A call is answered at most once, unless it gives parameters to a function that takes
\* none and has a result: its executor answers the error and runs the function as well.
THEOREM AnsweredAtMostOnce ==
  ASSUME \A call \in Calls : AnsweredNotTwice(call)
  PROVE  Spec => []OneAnswer
  BY AnswersInvariant, PTL

----------------------------------------------------------------------------
(* What ends a batch.                                                      *)

\* A call with the parameters its method takes.
ParamsFit(call) ==
  /\ call.method = "param" => call.params = "good"
  /\ call.method \in {"silent", "plain"} => call.params = "absent"

LEMMA LastAnswer ==
  ASSUME TypeOK, GiveUp(ParseError)
  PROVE  OnlyBadJsonEndsBatch'
<1>. DEFINE a == [id |-> 0, code |-> ParseError]
<1>1. a \in Answer /\ answers \in Seq(Answer) /\ a.code = ParseError
  BY DEF Answer, TypeOK
<1>2. answers' = Append(answers, a)
  BY DEF GiveUp
<1>. HIDE DEF a
<1>3. answers' # <<>> /\ answers'[Len(answers')] = a
  BY <1>1, <1>2, AppendProperties, EmptySeq
<1>. QED
  BY <1>1, <1>3 DEF OnlyBadJsonEndsBatch

\* The only other complaint is about an empty array, before there is a stream.
LEMMA ComplaintEnds ==
  ASSUME TypeOK, Shape, BatchWithoutEnd \/ EmptyBatch \/ BadSeparator \/ BadJson
  PROVE  OnlyBadJsonEndsBatch'
<1>1. PICK code \in {ParseError, InvalidRequest} : GiveUp(code) /\ (code = ParseError \/ EmptyBatch)
  BY DEF BatchWithoutEnd, EmptyBatch, BadSeparator, BadJson
<1>2. CASE code = ParseError
  BY <1>1, <1>2, LastAnswer
<1>3. CASE EmptyBatch
  <2>1. ~context.stream
    BY <1>3, NewContextFields DEF EmptyBatch, At, Shape
  <2>2. ~context'.stream
    BY <1>1, <2>1, AnswerContext
  <2>. QED
    BY <2>2 DEF OnlyBadJsonEndsBatch
<1>. QED
  BY <1>1, <1>2, <1>3

LEMMA CallGoesOn ==
  ASSUME TypeOK, RefuseVersion \/ RefuseMethod \/ RefuseParams \/ Invoke \/ StrayParams,
         \A call \in Calls : ParamsFit(call)
  PROVE  OnlyBadJsonEndsBatch'
<1>1. front \in Calls /\ front \in CallType /\ Id \in Nat /\ At("action", {"call"})
  BY FrontCall DEF RefuseVersion, RefuseMethod, RefuseParams, Invoke, StrayParams
<1>2. RefuseVersion \/ RefuseMethod \/ Invoke
  BY <1>1 DEF RefuseParams, StrayParams, Known, ParamsFit, CallType
<1>3. Take(TRUE)
  BY <1>2 DEF RefuseVersion, RefuseMethod, Refuse, Invoke
<1>4. context'.stream = context.stream
  BY <1>1, <1>2, AnswerContext DEF RefuseVersion, RefuseMethod
<1>. QED
  BY <1>3, <1>4 DEF Take, Return, OnlyBadJsonEndsBatch

\* Whatever else is wrong with its calls and however long it is, only bad JSON ends a batch
\* whose calls have the parameters their methods take: parameters that do not fit, as in the
\* run batch_given_up, are the only other way.
THEOREM BatchesGoOn ==
  ASSUME \A call \in Calls : ParamsFit(call)
  PROVE  Spec => []OnlyBadJsonEndsBatch
<1>1. Init => OnlyBadJsonEndsBatch
  BY DEF Init, OnlyBadJsonEndsBatch
<1>2. TypeOK /\ Shape /\ OnlyBadJsonEndsBatch /\ [Next]_vars => OnlyBadJsonEndsBatch'
  <2>. SUFFICES ASSUME TypeOK, Shape, OnlyBadJsonEndsBatch, [Next]_vars PROVE OnlyBadJsonEndsBatch'
    OBVIOUS
  <2>. USE DEF OnlyBadJsonEndsBatch
  <2>1. CASE Arrive \/ SkipNewline \/ IgnoreRest \/ Stopped \/ UNCHANGED vars
    BY <2>1 DEF Arrive, SkipNewline, IgnoreRest, Stopped, vars
  <2>2. CASE NoInput
    BY <2>2, NewContextFields DEF NoInput, At, Return, Shape
  <2>3. CASE SingleRequest \/ BatchRequest \/ FirstOfBatch \/ NextOfBatch \/ EndMessage \/ NextMessage
    <3>1. pc' # "closing"
      BY <2>3 DEF SingleRequest, BatchRequest, FirstOfBatch, NextOfBatch, EndMessage, NextMessage
    <3>. QED
      BY <3>1
  <2>4. CASE LastOfBatch
    BY <2>4 DEF LastOfBatch, Return
  <2>5. CASE BatchWithoutEnd \/ EmptyBatch \/ BadSeparator \/ BadJson
    BY <2>5, ComplaintEnds
  <2>6. CASE RefuseVersion \/ RefuseMethod \/ RefuseParams \/ Invoke \/ StrayParams
    BY <2>6, CallGoesOn
  <2>. QED
    BY <2>1, <2>2, <2>3, <2>4, <2>5, <2>6 DEF Next, ReadMessage, ReadOneAction
<1>. QED
  BY <1>1, <1>2, TypeCorrect, ShapeInvariant, PTL DEF Spec

----------------------------------------------------------------------------
(* The text of a message.                                                  *)

\* An array that is not closed yet, and the text of a message without one.
Alternates(text) ==
  \A i \in 1..Len(text) : text[i].mark = IF i % 2 = 0 THEN "item" ELSE IF i = 1 THEN "open" ELSE "comma"

Growing(c) == Len(c.text) = 2 * c.count /\ Alternates(c.text)

AtMostItem(text) == text = <<>> \/ (Len(text) = 1 /\ text[1].mark = "item")

\* What is written while a message is handled.
Texts ==
  transport # "server" =>
    IF pc \in {"ignoring", "stopped"} THEN IsJson(context.text)
    ELSE IF context.stream THEN Growing(context) ELSE AtMostItem(context.text)

LEMMA Parity ==
  ASSUME NEW k \in Nat, NEW n, n = 2 * k
  PROVE  /\ n \in Nat /\ n % 2 = 0 /\ (n + 1) % 2 = 1 /\ (n + 2) % 2 = 0
         /\ (n = 0 <=> k = 0) /\ (n # 0 => n >= 2)
         /\ n + 2 = 2 * (k + 1)
  OBVIOUS

LEMMA OneMore ==
  ASSUME NEW t \in Seq(PieceType), NEW x \in PieceType
  PROVE  /\ t \o <<x>> \in Seq(PieceType) /\ Len(t \o <<x>>) = Len(t) + 1
         /\ \A i \in 1..Len(t) : (t \o <<x>>)[i] = t[i]
         /\ (t \o <<x>>)[Len(t) + 1] = x
<1>1. <<x>> \in Seq(PieceType) /\ Len(<<x>>) = 1 /\ <<x>>[1] = x /\ Len(t) \in Nat
  OBVIOUS
<1>. QED
  BY <1>1, ConcatProperties

LEMMA AlternatesOn ==
  ASSUME NEW t \in Seq(PieceType), NEW n \in Nat, Len(t) = n, Alternates(t),
         n % 2 = 0, (n + 1) % 2 = 1, (n + 2) % 2 = 0,
         NEW s \in PieceType, s.mark = (IF n = 0 THEN "open" ELSE "comma"),
         NEW x \in PieceType, x.mark = "item",
         NEW u, u = (t \o <<s>>) \o <<x>>
  PROVE  Len(u) = n + 2 /\ Alternates(u)
<1>1. <<s>> \in Seq(PieceType) /\ <<x>> \in Seq(PieceType) /\ Len(<<s>>) = 1 /\ Len(<<x>>) = 1
  OBVIOUS
<1>2. /\ t \o <<s>> \in Seq(PieceType) /\ Len(t \o <<s>>) = n + 1
      /\ \A i \in 1..n + 1 : (t \o <<s>>)[i] = IF i <= n THEN t[i] ELSE <<s>>[i - n]
  BY <1>1, ConcatProperties
<1>3. /\ Len(u) = n + 2
      /\ \A i \in 1..n + 2 : u[i] = IF i <= n + 1 THEN (t \o <<s>>)[i] ELSE <<x>>[i - (n + 1)]
  BY <1>1, <1>2, ConcatProperties
<1>4. ASSUME NEW i \in 1..n + 2
      PROVE  u[i].mark = IF i % 2 = 0 THEN "item" ELSE IF i = 1 THEN "open" ELSE "comma"
  <2>1. CASE i \in 1..n
    <3>1. i \in 1..n + 1 /\ i <= n /\ i <= n + 1
      BY <2>1
    <3>2. u[i] = t[i]
      BY <1>2, <1>3, <3>1
    <3>. QED
      BY <2>1, <3>2 DEF Alternates
  <2>2. CASE i = n + 1
    <3>1. i \in 1..n + 1 /\ ~(i <= n) /\ i <= n + 1 /\ i - n = 1 /\ i % 2 # 0 /\ (i = 1 <=> n = 0)
      BY <2>2
    <3>2. u[i] = (t \o <<s>>)[i]
      BY <1>3, <3>1
    <3>3. (t \o <<s>>)[n + 1] = s
      BY OneMore
    <3>4. u[i] = s
      BY <2>2, <3>2, <3>3
    <3>. QED
      BY <3>1, <3>4
  <2>3. CASE i = n + 2
    <3>1. ~(i <= n + 1) /\ i - (n + 1) = 1 /\ i % 2 = 0
      BY <2>3
    <3>2. u[Len(t \o <<s>>) + 1] = x
      BY <1>2, OneMore
    <3>3. i = Len(t \o <<s>>) + 1
      BY <1>2, <2>3
    <3>. QED
      BY <3>1, <3>2, <3>3
  <2>4. i \in 1..n \/ i = n + 1 \/ i = n + 2
    OBVIOUS
  <2>. QED
    BY <2>1, <2>2, <2>3, <2>4
<1>5. Alternates(u)
  BY <1>3, <1>4 DEF Alternates
<1>. QED
  BY <1>3, <1>5

\* An item added to an array comes after its start or a comma.
LEMMA GrowingOn ==
  ASSUME transport = "local", NEW c \in ContextType, c.stream, Growing(c), NEW w, WrittenTo(c, w)
  PROVE  Growing(w)
<1>. DEFINE s == Separator(IF c.count = 0 THEN "open" ELSE "comma")
<1>1. PICK x \in PieceType : x.mark = "item" /\ w.text = c.text \o Before(c) \o <<x>>
  BY DEF WrittenTo
<1>2. Before(c) = <<s>>
  BY DEF Before
<1>3. s \in PieceType /\ s.mark = IF c.count = 0 THEN "open" ELSE "comma"
  BY DEF Separator, Piece, PieceType
<1>4. c.text \in Seq(PieceType) /\ c.count \in Nat
  BY DEF ContextType
<1>5. w.text = (c.text \o <<s>>) \o <<x>> /\ w.count = c.count + 1
  BY <1>1, <1>2 DEF WrittenTo
<1>. DEFINE n == Len(c.text)
<1>6. n = 2 * c.count /\ n = Len(c.text) /\ Alternates(c.text)
  BY DEF Growing
<1>. HIDE DEF s
<1>7. /\ n \in Nat /\ n % 2 = 0 /\ (n + 1) % 2 = 1 /\ (n + 2) % 2 = 0
      /\ (n = 0 <=> c.count = 0) /\ n + 2 = 2 * (c.count + 1)
  <2>. DEFINE k == c.count
              l == n
  <2>1. k \in Nat /\ l = 2 * k
    BY <1>4, <1>6
  <2>. HIDE DEF k, l
  <2>2. l \in Nat /\ l % 2 = 0 /\ (l + 1) % 2 = 1 /\ (l + 2) % 2 = 0
    BY <2>1, Parity
  <2>3. (l = 0 <=> k = 0) /\ l + 2 = 2 * (k + 1)
    BY <2>1
  <2>. QED
    BY <2>2, <2>3 DEF k, l
<1>. HIDE DEF n
<1>8. Len(w.text) = n + 2 /\ Alternates(w.text)
  BY <1>1, <1>3, <1>4, <1>5, <1>6, <1>7, AlternatesOn
<1>. QED
  BY <1>5, <1>7, <1>8 DEF Growing

\* The end of an array makes it JSON.
LEMMA AlternatesEnd ==
  ASSUME NEW t \in Seq(PieceType), NEW n \in Nat, Len(t) = n, Alternates(t),
         n >= 2, (n + 1) % 2 = 1, NEW e \in PieceType, e.mark = "close"
  PROVE  IsJson(t \o <<e>>)
<1>. DEFINE u == t \o <<e>>
<1>1. /\ u \in Seq(PieceType) /\ Len(u) = n + 1
      /\ \A i \in 1..n : u[i] = t[i]
      /\ u[n + 1] = e
  <2>1. n = Len(t)
    OBVIOUS
  <2>. QED
    BY <2>1, OneMore
<1>. HIDE DEF u
<1>2. \A i \in 1..n : u[i].mark = IF i % 2 = 0 THEN "item" ELSE IF i = 1 THEN "open" ELSE "comma"
  BY <1>1 DEF Alternates
<1>3. u # <<>> /\ Len(u) % 2 = 1
  BY <1>1
<1>4. u[Len(u)].mark = "close"
  BY <1>1
<1>5. u[1].mark = "open"
  <2>1. 1 \in 1..n /\ 1 % 2 # 0
    OBVIOUS
  <2>. QED
    BY <1>2, <2>1
<1>6. \A i \in 2..Len(u) - 1 : u[i].mark = IF i % 2 = 0 THEN "item" ELSE "comma"
  <2>1. \A i \in 2..Len(u) - 1 : i \in 1..n /\ i # 1
    BY <1>1
  <2>. QED
    BY <1>2, <2>1
<1>. QED
  BY <1>3, <1>4, <1>5, <1>6 DEF IsJson, u

\* The first item without an array stands alone.
LEMMA ItemAlone ==
  ASSUME NEW c \in ContextType, ~c.stream, c.text = <<>>, NEW w, WrittenTo(c, w)
  PROVE  AtMostItem(w.text)
<1>1. PICK x \in PieceType : x.mark = "item" /\ w.text = c.text \o Before(c) \o <<x>>
  BY DEF WrittenTo
<1>2. Before(c) = <<>>
  BY DEF Before
<1>3. w.text = <<x>>
  BY <1>1, <1>2
<1>. QED
  BY <1>1, <1>3 DEF AtMostItem

LEMMA ClosedText ==
  ASSUME TypeOK, transport # "server",
         context.stream => transport = "local",
         IF context.stream THEN Growing(context) ELSE AtMostItem(context.text)
  PROVE  IsJson(CloseContext(context).text)
<1>. DEFINE c == context
            n == Len(c.text)
            text == CloseContext(c).text
<1>1. c \in ContextType /\ c.text \in Seq(PieceType) /\ c.count \in Nat /\ c.stream \in BOOLEAN
  BY ContextTyped DEF ContextType
<1>2. text = c.text \o After(c)
  BY ContextTyped, CloseType
<1>3. CASE ~c.stream
  <2>1. After(c) = <<>>
    BY <1>3 DEF After
  <2>2. text = c.text
    BY <1>1, <1>2, <2>1, ConcatEmptySeq
  <2>. QED
    BY <1>3, <2>2 DEF AtMostItem, IsJson
<1>4. CASE c.stream /\ c.count = 0
  <2>1. After(c) = <<>>
    BY <1>4 DEF After
  <2>2. Len(c.text) = 2 * c.count
    BY <1>4 DEF Growing
  <2>3. c.text = <<>>
    BY <1>1, <1>4, <2>2, EmptySeq
  <2>4. text = <<>>
    BY <1>2, <2>1, <2>3
  <2>. QED
    BY <2>4 DEF IsJson
<1>5. CASE c.stream /\ c.count > 0
  <2>. DEFINE e == Separator("close")
  <2>1. After(c) = <<e>>
    BY <1>5 DEF After
  <2>2. e \in PieceType /\ e.mark = "close"
    BY DEF Separator, Piece, PieceType
  <2>3. n = 2 * c.count /\ Alternates(c.text)
    BY <1>5 DEF Growing
  <2>4. n \in Nat /\ n >= 2 /\ (n + 1) % 2 = 1
    BY <1>1, <1>5, <2>3, Parity
  <2>. HIDE DEF e
  <2>5. IsJson(c.text \o <<e>>)
    BY <1>1, <2>2, <2>3, <2>4, AlternatesEnd
  <2>. QED
    BY <1>2, <2>1, <2>5
<1>. QED
  BY <1>1, <1>3, <1>4, <1>5

\* What a call or a complaint adds to the text; only a call that is answered twice outside
\* of an array would make two items of it.
LEMMA AnswerText ==
  ASSUME TypeOK, Shape, transport # "server", pc \in {"opened", "separator", "action"},
         \/ \E code \in {ParseError, InvalidRequest} : GiveUp(code)
         \/ Takes /\ AnsweredNotTwice(front),
         IF context.stream THEN Growing(context) ELSE context.text = <<>>
  PROVE  IF context.stream THEN Growing(context') ELSE AtMostItem(context'.text)
<1>. DEFINE c == context
            Fits(w) == IF c.stream THEN Growing(w) ELSE AtMostItem(w.text)
<1>1. c \in ContextType /\ Transport /\ c.stream \in BOOLEAN
  BY ContextTyped DEF ContextType
<1>2. c.stream => transport = "local"
  BY <1>1 DEF Shape, Transport
<1>3. ASSUME NEW w, WrittenTo(c, w) PROVE Fits(w)
  BY <1>1, <1>2, <1>3, GrowingOn, ItemAlone
<1>4. CASE \E code \in {ParseError, InvalidRequest} : GiveUp(code)
  <2>1. WrittenTo(c, Error(c, 0)) /\ context' = Error(c, 0)
    BY <1>1, <1>4, ErrorType DEF GiveUp
  <2>. QED
    BY <1>3, <2>1
<1>5. CASE At("action", {"call"})
           /\ \E code \in {InvalidRequest, MethodNotFound, InvalidParams}, good \in BOOLEAN : Refuse(code, good)
  <2>1. Id \in Nat /\ context' = Error(c, Id)
    BY <1>5, FrontCall DEF Refuse
  <2>2. WrittenTo(c, Error(c, Id))
    BY <1>1, <2>1, ErrorType
  <2>. QED
    BY <1>3, <2>1, <2>2
<1>6. CASE Invoke
  <2>1. Id \in Nat /\ context' = Invoked(c)
    BY <1>6, FrontCall DEF Invoke
  <2>2. CASE Codes # <<>>
    BY <1>1, <1>3, <2>1, <2>2, InvokedType
  <2>3. CASE Codes = <<>>
    <3>1. context'.count = c.count /\ context'.text = c.text
      BY <1>1, <2>1, <2>3, InvokedType
    <3>. QED
      BY <3>1 DEF Growing, AtMostItem
  <2>. QED
    BY <2>2, <2>3
<1>7. CASE StrayParams /\ AnsweredNotTwice(front)
  <2>. DEFINE e == Error(c, Id)
  <2>1. Id \in Nat /\ context' = Invoked(e)
    BY <1>7, FrontCall DEF StrayParams
  <2>2. front \in CallType /\ Stray(front)
    BY <1>7, FrontCall DEF StrayParams, Known, Stray, CallType
  <2>3. Codes = <<>>
    BY <1>7, <2>2 DEF AnsweredNotTwice, Codes
  <2>4. WrittenTo(c, e)
    BY <1>1, <2>1, ErrorType
  <2>. HIDE DEF e
  <2>5. e \in ContextType /\ Fits(e)
    BY <1>3, <2>4 DEF WrittenTo
  <2>6. context'.count = e.count /\ context'.text = e.text
    BY <1>1, <2>1, <2>3, <2>5, InvokedType
  <2>. QED
    BY <2>5, <2>6 DEF Growing, AtMostItem
<1>. QED
  BY <1>4, <1>5, <1>6, <1>7 DEF Takes

LEMMA TextsInvariant ==
  ASSUME \A call \in Calls : AnsweredNotTwice(call)
  PROVE  Spec => []Texts
<1>1. Init => Texts
  BY NewContextFields DEF Init, Texts, AtMostItem
<1>2. TypeOK /\ Shape /\ Shape' /\ Texts /\ [Next]_vars => Texts'
  <2>. SUFFICES ASSUME TypeOK, Shape, Shape', Texts, [Next]_vars PROVE Texts'
    OBVIOUS
  <2>0. context.stream \in BOOLEAN
    BY ContextTyped DEF ContextType
  <2>1. ASSUME UNCHANGED <<transport, context>>,
               pc \in {"ignoring", "stopped"} <=> pc' \in {"ignoring", "stopped"}
        PROVE  Texts'
    BY <2>1 DEF Texts, Growing
  <2>2. CASE Arrive \/ SkipNewline \/ IgnoreRest \/ UNCHANGED vars
    BY <2>1, <2>2 DEF Arrive, SkipNewline, IgnoreRest, vars
  <2>3. CASE NoInput \/ SingleRequest \/ BatchRequest \/ NextOfBatch \/ LastOfBatch
    <3>1. /\ UNCHANGED <<transport, context>> /\ pc \in {"start", "separator"}
          /\ pc' \in {"action", "opened", "closing"}
      BY <2>3 DEF NoInput, SingleRequest, BatchRequest, NextOfBatch, LastOfBatch, At, Return
    <3>. QED
      BY <2>1, <3>1
  <2>4. CASE FirstOfBatch
    <3>1. context = NewContext /\ context \in ContextType
      BY <2>4, ContextTyped DEF FirstOfBatch, Shape
    <3>2. context'.stream /\ context'.count = 0 /\ context'.text = <<>> /\ pc' = "action"
      BY <2>4, <3>1, StreamType, NewContextFields DEF FirstOfBatch
    <3>3. Len(context'.text) = 0 /\ 2 * context'.count = 0
      BY <3>2
    <3>4. Growing(context')
      BY <3>3 DEF Growing, Alternates
    <3>. QED
      BY <3>2, <3>4 DEF Texts, Growing
  <2>5. ASSUME pc \in {"opened", "separator", "action"},
               \/ \E code \in {ParseError, InvalidRequest} : GiveUp(code)
               \/ Takes
        PROVE  Texts'
    <3>1. /\ context'.stream = context.stream /\ transport' = transport
          /\ pc' \in {"separator", "closing"}
      BY <2>5, AnswerPlace, AnswerContext DEF Takes
    <3>2. transport # "server" => IF context.stream THEN Growing(context) ELSE context.text = <<>>
      <4>1. context.stream => (transport # "server" => Growing(context))
        BY <2>5 DEF Texts
      <4>2. ~context.stream => context = NewContext
        BY <2>5 DEF Shape
      <4>. QED
        BY <4>1, <4>2, NewContextFields
    <3>3. Takes => AnsweredNotTwice(front)
      BY TakesWell
    <3>4. transport # "server" => IF context.stream THEN Growing(context') ELSE AtMostItem(context'.text)
      BY <2>5, <3>2, <3>3, AnswerText
    <3>. QED
      BY <3>1, <3>4 DEF Texts, Growing
  <2>6. CASE EndMessage
    <3>1. /\ context' = CloseContext(context) /\ transport' = transport /\ pc = "closing"
          /\ pc' \in {"ignoring", "stopped"}
      BY <2>6 DEF EndMessage
    <3>2. transport # "server" /\ context.stream => transport = "local"
      BY ContextTyped DEF Shape, Transport
    <3>3. transport # "server" => IF context.stream THEN Growing(context) ELSE AtMostItem(context.text)
      BY <3>1 DEF Texts
    <3>4. transport # "server" => IsJson(context'.text)
      BY <3>1, <3>2, <3>3, ClosedText
    <3>. QED
      BY <3>1, <3>4 DEF Texts
  <2>7. CASE NextMessage
    <3>1. \/ pc' = "start" /\ context' = NewContext
          \/ pc' = "stopped" /\ pc = "ignoring" /\ context' = context
      BY <2>7 DEF NextMessage
    <3>2. transport' = transport
      BY <2>7 DEF NextMessage
    <3>. QED
      BY <3>1, <3>2, NewContextFields DEF Texts, AtMostItem
  <2>. QED
    BY <2>2, <2>3, <2>4, <2>5, <2>6, <2>7, StepCases, TakesWell DEF Takes
<1>. QED
  BY <1>1, <1>2, TypeCorrect, ShapeInvariant, PTL DEF Spec

\* What a message of a local peer or an event of a server is answered is one JSON text, for
\* batches of any length and wherever they are given up, unless a call outside of a batch is
\* answered twice.
THEOREM TextParses ==
  ASSUME \A call \in Calls : AnsweredNotTwice(call)
  PROVE  Spec => []TextIsJson
<1>1. Texts => TextIsJson
  BY DEF Texts, TextIsJson
<1>. QED
  BY <1>1, TextsInvariant, PTL

----------------------------------------------------------------------------
(* The refinement of JsonRPCService.                                       *)

\* The ids of the answers, and a step of the service or none.
ids == [i \in DOMAIN answers |-> answers[i].id]
ServiceStep == [Service!Next]_<<taken, ids, ~failed>>

LEMMA OneId ==
  ASSUME TypeOK, NEW a \in Answer, answers' = Append(answers, a)
  PROVE  ids' = Append(ids, a.id)
<1>1. answers \in Seq(Answer) /\ Len(answers) \in Nat /\ DOMAIN answers = 1..Len(answers)
  BY AnswersTyped, LenProperties
<1>2. /\ DOMAIN answers' = 1..Len(answers) + 1
      /\ \A i \in 1..Len(answers) : answers'[i] = answers[i]
      /\ answers'[Len(answers) + 1] = a
  <2>1. answers' \in Seq(Answer) /\ Len(answers') = Len(answers) + 1
    BY <1>1, AppendProperties
  <2>. QED
    BY <1>1, <2>1, AppendProperties, LenProperties
<1>3. ids \in Seq(Nat) /\ Len(ids) = Len(answers) /\ a.id \in Nat
  BY <1>1, AnswersTyped DEF ids, Answer
<1>4. ids' \in Seq(Nat) /\ Len(ids') = Len(answers) + 1
  <2>1. \A i \in 1..Len(answers) + 1 : answers'[i].id \in Nat
    BY <1>1, <1>2, <1>3, AnswersTyped
  <2>2. ids' = [i \in 1..Len(answers) + 1 |-> answers'[i].id] /\ Len(answers) + 1 \in Nat
    BY <1>1, <1>2 DEF ids
  <2>. QED
    BY <2>1, <2>2
<1>5. Append(ids, a.id) \in Seq(Nat) /\ Len(Append(ids, a.id)) = Len(answers) + 1
  BY <1>3, AppendProperties
<1>6. ASSUME NEW i \in 1..Len(answers) + 1 PROVE ids'[i] = Append(ids, a.id)[i]
  <2>1. ids'[i] = answers'[i].id
    BY <1>2 DEF ids
  <2>2. CASE i \in 1..Len(answers)
    <3>1. ids[i] = answers[i].id /\ Append(ids, a.id)[i] = ids[i]
      BY <1>1, <1>3, <2>2, AppendProperties DEF ids
    <3>. QED
      BY <1>2, <2>1, <2>2, <3>1
  <2>3. CASE i = Len(answers) + 1
    <3>1. Append(ids, a.id)[i] = a.id
      BY <1>3, <2>3, AppendProperties
    <3>. QED
      BY <1>2, <2>1, <2>3, <3>1
  <2>4. i \in 1..Len(answers) \/ i = Len(answers) + 1
    BY <1>1
  <2>. QED
    BY <2>2, <2>3, <2>4
<1>. QED
  BY <1>4, <1>5, <1>6, SeqEqual

LEMMA ServiceSteps ==
  ASSUME \A call \in Calls : AnsweredNotTwice(call) /\ NotLost(call),
         TypeOK, Reading, [Next]_vars
  PROVE  ServiceStep
<1>0. failed \in BOOLEAN
  BY DEF TypeOK
<1>1. ASSUME UNCHANGED <<taken, answers, failed>> PROVE ServiceStep
  BY <1>1 DEF ServiceStep, ids
<1>2. ASSUME UNCHANGED <<taken, answers>>, failed' = TRUE PROVE ServiceStep
  <2>1. ids' = ids /\ (~failed)' = FALSE
    BY <1>2 DEF ids
  <2>. QED
    BY <1>2, <2>1 DEF ServiceStep, Service!Next, Service!Close, ids
<1>3. ASSUME pc \in {"opened", "separator", "action"}, NEW code \in {ParseError, InvalidRequest}, GiveUp(code)
      PROVE  ServiceStep
  <2>. DEFINE a == [id |-> 0, code |-> code]
  <2>1. a \in Answer /\ a.id = 0 /\ answers' = Append(answers, a)
    BY <1>3 DEF Answer, GiveUp
  <2>. HIDE DEF a
  <2>2. ids' = Append(ids, 0)
    BY <2>1, OneId
  <2>3. ~failed /\ failed' = TRUE /\ taken' = taken
    BY <1>3 DEF GiveUp, Reading
  <2>4. Service!Complain
    BY <2>2, <2>3 DEF Service!Complain, ids
  <2>. QED
    BY <2>4 DEF ServiceStep, Service!Next
<1>4. CASE Takes
  <2>1. /\ taken' = [place |-> place, id |-> front.id] /\ place > taken.place /\ ~failed
        /\ Id = (IF front.id THEN place ELSE 0) /\ failed' \in BOOLEAN
        /\ front \in CallType /\ AnsweredNotTwice(front) /\ NotLost(front)
    BY <1>4, TakesWell, Places DEF Reading
  <2>2. place \in 1..MaxTokens /\ front.id \in BOOLEAN
    <3>1. place \in 0..MaxTokens
      BY DEF TypeOK
    <3>. QED
      BY <2>1, <3>1, Places, TokensAssumption DEF CallType
  <2>3. ids' \in IF front.id THEN {Append(ids, place)} ELSE {Append(ids, 0), ids}
    <3>1. ASSUME NEW code, answers' = Append(answers, [id |-> Id, code |-> code]), [id |-> Id, code |-> code] \in Answer
          PROVE  ids' = Append(ids, Id)
      <4>. DEFINE a == [id |-> Id, code |-> code]
      <4>1. a \in Answer /\ answers' = Append(answers, a) /\ a.id = Id
        BY <3>1
      <4>. HIDE DEF a
      <4>. QED
        BY <4>1, OneId
    <3>2. CASE ids' = Append(ids, Id)
      BY <2>1, <2>2, <3>2
    <3>3. CASE answers' = answers /\ ~front.id
      BY <3>3 DEF ids
    <3>. QED
      BY <1>4, <2>1, <3>1, <3>2, <3>3, OnceAnswered
  <2>4. Service!Serve(place, front.id)
    BY <2>1, <2>2, <2>3 DEF Service!Serve, ids
  <2>5. Service!Next
    BY <2>2, <2>4 DEF Service!Next, Service!Serve, ids
  <2>. QED
    BY <2>5 DEF ServiceStep
<1>5. CASE NoInput
  BY <1>2, <1>5 DEF NoInput
<1>6. CASE NextMessage
  BY <1>0, <1>1, <1>2, <1>6 DEF NextMessage
<1>7. CASE UNCHANGED vars \/ Arrive \/ SkipNewline \/ IgnoreRest
  BY <1>1, <1>7 DEF Arrive, SkipNewline, IgnoreRest, vars
<1>8. CASE SingleRequest \/ BatchRequest \/ FirstOfBatch \/ NextOfBatch \/ LastOfBatch \/ EndMessage
  BY <1>1, <1>8 DEF SingleRequest, BatchRequest, FirstOfBatch, NextOfBatch, LastOfBatch, EndMessage
<1>. QED
  BY <1>3, <1>4, <1>5, <1>6, <1>7, <1>8, StepCases DEF Takes

\* If no call is answered twice and none is left without answer, handleInputStream and what
\* calls it give the service JsonRPCService promises, over every transport and with batches
\* of any length: calls are taken in order, each with an id is answered once and before the
\* next, and after a complaint about the input none is taken.
THEOREM ServiceImplemented ==
  ASSUME \A call \in Calls : AnsweredNotTwice(call) /\ NotLost(call)
  PROVE  Spec => ImplementsService
<1>1. Init => Service!Init
  BY DEF Init, Service!Init
<1>2. TypeOK /\ Reading /\ [Next]_vars => [Service!Next]_<<taken, ids, ~failed>>
  BY ServiceSteps DEF ServiceStep
<1>. QED
  BY <1>1, <1>2, TypeCorrect, ReadingInvariant, PTL
     DEF Spec, ImplementsService, Service!Spec, Service!svars, ids
=============================================================================
