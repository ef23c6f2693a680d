---------------------------- MODULE JsonRPCCore ----------------------------
(***************************************************************************)
(* JsonRPCCore::handleInputStream and the executors addExecutor wraps,     *)
(* with the three contexts that carry their answers: ServerContext (one    *)
(* HTTP request, one message), LocalContext in the loop of Local::run (one *)
(* message after the other from a stream, until one fails) and             *)
(* ClientContextMCP (one event that a server sent to a client).            *)
(*                                                                         *)
(* The input is read token by token; front is the token the stream stands  *)
(* at, once it has arrived.  A call is one token: what JsonImporter makes  *)
(* of its text is part of the token, and text it rejects is "junk".  A     *)
(* call that has an id has its place in the input for it; 0 is id null.    *)
(***************************************************************************)
EXTENDS Integers, Sequences

CONSTANTS
  Calls,        \* the calls a peer sends
  MaxTokens     \* bound: the length of the input

CallType ==
  [kind : {"call"},
   id : BOOLEAN,                                    \* a call without id is a notification
   version : BOOLEAN,                               \* jsonrpc is "2.0"
   method : {"unknown", "silent", "plain", "param"},
   params : {"absent", "good", "bad"},
   throws : BOOLEAN]                                \* the registered function throws

ASSUME CallsAssumption == Calls \subseteq CallType
ASSUME TokensAssumption == MaxTokens \in Nat

\* Besides calls: a bracket that is opened or closed, a comma, a line end, or anything else.
Mark(kinds) == [kind : kinds]
Tokens == Calls \cup Mark({"open", "close", "comma", "nl", "junk"})
Nothing == [kind |-> "none"]        \* the next token has not arrived
End == [kind |-> "end"]

ParseError == -32700
InvalidRequest == -32600
MethodNotFound == -32601
InvalidParams == -32602
InternalError == -32603
Result == 0

VARIABLES
  transport,    \* "server", "local" or "client"
  batches,      \* supportBatchRequest(context)
  front,        \* the next token of the input
  place,        \* the number of tokens that have arrived
  failed,       \* context.input has failbit or eofbit
  pc,
  again,        \* what handleInputStream returned
  context,      \* the Context of the message being handled
  answers,      \* the answers of all messages, as their texts have them
  taken         \* the place of the last call that was read, and whether it has an id

vars == <<transport, batches, front, place, failed, pc, again, context, answers, taken>>

Answer == [id : Nat, code : {ParseError, InvalidRequest, MethodNotFound, InvalidParams, InternalError, Result}]

\* What is written: separators of a local peer's array and of a stream of events, the id
\* line of an event, and answers.
Piece(mark, number) == [mark |-> mark, number |-> number]
Separator(mark) == Piece(mark, 0)

\* status is what the response is to get, sent what it got with its first item, 0 before.
NewContext == [stream |-> FALSE, count |-> 0, status |-> 200, sent |-> 0, text |-> <<>>]

TypeOK ==
  /\ transport \in {"server", "local", "client"}
  /\ batches \in BOOLEAN
  /\ front \in Tokens \cup {Nothing, End}
  /\ place \in 0..MaxTokens
  /\ failed \in BOOLEAN
  /\ pc \in {"start", "opened", "action", "separator", "closing", "ignoring", "stopped"}
  /\ again \in BOOLEAN
  /\ context \in [stream : BOOLEAN, count : Nat, status : {200, 202, 400}, sent : {0, 200, 202, 400},
                  text : Seq([mark : {"open", "comma", "close", "blank", "id", "item"}, number : Nat])]
  /\ answers \in Seq(Answer)
  /\ taken \in [place : 0..MaxTokens, id : BOOLEAN]

Init ==
  /\ transport \in {"server", "local", "client"}
  /\ batches \in IF transport = "client" THEN {FALSE} ELSE BOOLEAN
  /\ front = Nothing
  /\ place = 0
  /\ failed = FALSE
  /\ pc = "start"
  /\ again = FALSE
  /\ context = NewContext
  /\ answers = <<>>
  /\ taken = [place |-> 0, id |-> FALSE]

----------------------------------------------------------------------------
(* Contexts.                                                               *)

\* What addItem writes before an item: the start of an array or a comma for a local peer,
\* for an HTTP peer the blank line that ends the event before and the new event's id.
Before(c) ==
  CASE ~c.stream \/ transport = "client" -> <<>>
    [] c.stream /\ transport = "local" -> <<Separator(IF c.count = 0 THEN "open" ELSE "comma")>>
    [] c.stream /\ transport = "server" ->
         (IF c.count > 0 THEN <<Separator("blank")>> ELSE <<>>) \o <<Piece("id", c.count + 1)>>

Write(c, id, status) ==
  [c EXCEPT !.status = status,
            !.sent = IF @ = 0 THEN status ELSE @,
            !.text = @ \o Before(c) \o <<Piece("item", id)>>,
            !.count = @ + 1]

\* Slip: the first item's status forgets an error that came before it.
AddItemAsSuccess(c, id) == Write(c, id, IF ~c.stream THEN 202 ELSE c.status)

\* addItem: the first item of a response takes the status with it.
AddItem(c, id) == Write(c, id, IF ~c.stream /\ c.status = 200 THEN 202 ELSE c.status)

\* Slip: an error is not counted as an item.
ErrorUncounted(c, id) ==
  [AddItem(IF c.stream THEN c ELSE [c EXCEPT !.status = 400], id) EXCEPT !.count = c.count]

Error(c, id) == AddItem(IF c.stream THEN c ELSE [c EXCEPT !.status = 400], id)

\* Slip: a status of its own for notifications.
AddNoteNoContent(c) == IF c.stream THEN c ELSE [c EXCEPT !.status = 204]

AddNote(c) == IF c.stream THEN c ELSE [c EXCEPT !.status = 202]

ServerSideStream(c) == [c EXCEPT !.stream = TRUE, !.status = 202]

After(c) ==
  CASE ~(c.stream /\ c.count > 0) \/ transport = "client" -> <<>>
    [] c.stream /\ c.count > 0 /\ transport = "local" -> <<Separator("close")>>
    [] c.stream /\ c.count > 0 /\ transport = "server" -> <<Separator("blank")>>

\* Slip: the last event is left without its blank line.
CloseContextOpen(c) ==
  [c EXCEPT !.text = IF transport = "server" THEN @ ELSE @ \o After(c),
            !.sent = IF @ = 0 THEN c.status ELSE @]

\* The destructor: the array or the last event is closed; a response without items still
\* gets its status.
CloseContext(c) ==
  [c EXCEPT !.text = @ \o After(c), !.sent = IF @ = 0 THEN c.status ELSE @]

----------------------------------------------------------------------------
(* The input.                                                              *)

Arrive ==
  /\ pc \in {"start", "opened", "action", "separator", "ignoring"}
  /\ ~failed
  /\ front = Nothing
  /\ \/ place < MaxTokens /\ place' = place + 1 /\ front' \in Tokens
     \/ place' = place /\ front' = End
  /\ UNCHANGED <<transport, batches, failed, pc, again, context, answers, taken>>

At(where, kinds) == pc = where /\ front.kind \in kinds

Consume == front' = Nothing

\* operator>> and the importer skip white space.
SkipNewline ==
  /\ pc \in {"start", "opened", "action", "separator"}
  /\ front.kind = "nl"
  /\ Consume
  /\ UNCHANGED <<transport, batches, place, failed, pc, again, context, answers, taken>>

Return(result) == pc' = "closing" /\ again' = result

\* An error without a call: the stream fails and the message is over.
GiveUp(code) ==
  /\ context' = Error(context, 0)
  /\ answers' = Append(answers, [id |-> 0, code |-> code])
  /\ failed' = TRUE
  /\ Return(FALSE)
  /\ UNCHANGED <<transport, batches, front, place, taken>>

----------------------------------------------------------------------------
(* handleInputStream and handleInputStreamWithBatch.                       *)

\* Slip: the end of the input is no reason to stop.
NoInputGoOn ==
  /\ At("start", {"end"})
  /\ failed' = TRUE
  /\ Return(TRUE)
  /\ UNCHANGED <<transport, batches, front, place, context, answers, taken>>

NoInput ==
  /\ At("start", {"end"})
  /\ failed' = TRUE
  /\ Return(FALSE)
  /\ UNCHANGED <<transport, batches, front, place, context, answers, taken>>

SingleRequest ==
  /\ pc = "start"
  /\ front.kind \notin {"none", "nl", "end"}
  /\ ~(batches /\ front.kind = "open")
  /\ pc' = "action"
  /\ UNCHANGED <<transport, batches, front, place, failed, again, context, answers, taken>>

BatchRequest ==
  /\ At("start", {"open"})
  /\ batches
  /\ Consume
  /\ pc' = "opened"
  /\ UNCHANGED <<transport, batches, place, failed, again, context, answers, taken>>

BatchWithoutEnd == At("opened", {"end"}) /\ GiveUp(ParseError)
EmptyBatch == At("opened", {"close"}) /\ GiveUp(InvalidRequest)

FirstOfBatch ==
  /\ pc = "opened"
  /\ front.kind \notin {"none", "nl", "end", "close"}
  /\ context' = ServerSideStream(context)
  /\ pc' = "action"
  /\ UNCHANGED <<transport, batches, front, place, failed, again, answers, taken>>

NextOfBatch ==
  /\ At("separator", {"comma"})
  /\ Consume
  /\ pc' = "action"
  /\ UNCHANGED <<transport, batches, place, failed, again, context, answers, taken>>

LastOfBatch ==
  /\ At("separator", {"close"})
  /\ Consume
  /\ Return(TRUE)
  /\ UNCHANGED <<transport, batches, place, failed, context, answers, taken>>

BadSeparator ==
  /\ pc = "separator"
  /\ front.kind \notin {"none", "nl", "comma", "close"}
  /\ GiveUp(ParseError)

----------------------------------------------------------------------------
(* readOneAction and the executors.                                        *)

\* Slip: the message goes on after JSON that does not parse.
BadJsonSkipped ==
  /\ pc = "action"
  /\ front.kind \notin {"none", "nl", "call"}
  /\ context' = Error(context, 0)
  /\ answers' = Append(answers, [id |-> 0, code |-> ParseError])
  /\ Consume
  /\ pc' = "separator"
  /\ UNCHANGED <<transport, batches, place, failed, again, taken>>

BadJson ==
  /\ pc = "action"
  /\ front.kind \notin {"none", "nl", "call"}
  /\ GiveUp(ParseError)

\* The call at the front is read; after it the message goes on if good and in a batch.
Take(good) ==
  /\ At("action", {"call"})
  /\ taken' = [place |-> place, id |-> front.id]
  /\ Consume
  /\ IF good /\ context.stream THEN pc' = "separator" /\ UNCHANGED again ELSE Return(good)
  /\ failed' = ~good
  /\ UNCHANGED <<transport, batches, place>>

\* The id an answer to the call at the front has: a notification has none to give.
Id == IF front.id THEN place ELSE 0

Refuse(code, good) ==
  /\ Take(good)
  /\ context' = Error(context, Id)
  /\ answers' = Append(answers, [id |-> Id, code |-> code])

Known == front.version /\ front.method # "unknown"

RefuseVersion == At("action", {"call"}) /\ ~front.version /\ Refuse(InvalidRequest, TRUE)

RefuseMethod ==
  /\ At("action", {"call"})
  /\ front.version /\ front.method = "unknown"
  /\ Refuse(MethodNotFound, TRUE)

\* Parameters that do not parse, or none where some are needed: failbit is set.
RefuseParams ==
  /\ At("action", {"call"})
  /\ Known /\ front.method = "param" /\ front.params # "good"
  /\ Refuse(InvalidParams, FALSE)

\* The registered function runs: what it throws becomes an error; "silent" ones
\* never answer, the others add their result for a call and a note for a notification.
Codes == IF front.throws THEN <<InternalError>>
         ELSE IF front.method = "silent" \/ ~front.id THEN <<>>
         ELSE <<Result>>

Invoked(c) == IF front.throws THEN Error(c, Id)
              ELSE IF front.method = "silent" THEN c
              ELSE IF front.id THEN AddItem(c, Id)
              ELSE AddNote(c)

Invoke ==
  /\ At("action", {"call"})
  /\ Known /\ (IF front.method = "param" THEN front.params = "good" ELSE front.params = "absent")
  /\ Take(TRUE)
  /\ context' = Invoked(context)
  /\ answers' = answers \o [i \in DOMAIN Codes |-> [id |-> Id, code |-> Codes[i]]]

\* A function without parameters is given some: the error is answered and failbit set,
\* and the function runs all the same.
StrayParams ==
  /\ At("action", {"call"})
  /\ Known /\ front.method # "param" /\ front.params # "absent"
  /\ Take(FALSE)
  /\ context' = Invoked(Error(context, Id))
  /\ answers' = Append(answers, [id |-> Id, code |-> InvalidParams])
                  \o [i \in DOMAIN Codes |-> [id |-> Id, code |-> Codes[i]]]

----------------------------------------------------------------------------
(* The end of a message.                                                   *)

EndMessage ==
  /\ pc = "closing"
  /\ context' = CloseContext(context)
  /\ pc' = IF transport = "local" THEN "ignoring" ELSE "stopped"
  /\ UNCHANGED <<transport, batches, front, place, failed, again, answers, taken>>

\* ~LocalContext drops the rest of the line; a stream that has failed is left alone.
IgnoreRest ==
  /\ pc = "ignoring"
  /\ ~failed
  /\ front.kind \notin {"none", "nl", "end"}
  /\ Consume
  /\ UNCHANGED <<transport, batches, place, failed, pc, again, context, answers, taken>>

\* Local::run goes on with a new context unless handleInputStream failed.
NextMessage ==
  /\ pc = "ignoring"
  /\ failed \/ front.kind \in {"nl", "end"}
  /\ failed' = (failed \/ front.kind = "end")
  /\ front' = IF front.kind = "nl" THEN Nothing ELSE front
  /\ IF again THEN pc' = "start" /\ context' = NewContext
              ELSE pc' = "stopped" /\ UNCHANGED context
  /\ UNCHANGED <<transport, batches, place, again, answers, taken>>

Stopped == pc = "stopped" /\ UNCHANGED vars

ReadMessage == NoInput \/ SingleRequest \/ BatchRequest \/ BatchWithoutEnd \/ EmptyBatch
                 \/ FirstOfBatch \/ NextOfBatch \/ LastOfBatch \/ BadSeparator
ReadOneAction == BadJson \/ RefuseVersion \/ RefuseMethod \/ RefuseParams \/ Invoke \/ StrayParams

Next == \/ Arrive \/ SkipNewline
        \/ ReadMessage \/ ReadOneAction
        \/ EndMessage \/ IgnoreRest \/ NextMessage
        \/ Stopped

Spec == Init /\ [][Next]_vars

\* The peer writes on or closes, and the program goes on.
FairSpec == Spec /\ WF_vars(Next)

----------------------------------------------------------------------------
(* Properties.                                                             *)

IsJson(text) ==
  \/ text = <<>>
  \/ Len(text) = 1 /\ text[1].mark = "item"
  \/ /\ text # <<>> /\ text[1].mark = "open" /\ text[Len(text)].mark = "close"
     /\ Len(text) % 2 = 1
     /\ \A i \in 2..Len(text) - 1 : text[i].mark = IF i % 2 = 0 THEN "item" ELSE "comma"

\* What a message of a local peer, or an event of a server, was answered is one JSON text:
\* addItem, error and the destructor of LocalContext agree on where an array of answers
\* starts and ends, also when a batch is given up halfway or none of its calls is answered.
TextIsJson ==
  transport # "server" /\ pc \in {"ignoring", "stopped"} => IsJson(context.text)

\* What an HTTP client is answered to a batch is one event for every answer, in order, with
\* the answer's number as its id and a blank line at its end: addItem, error and the
\* destructor of ServerContext agree on the count, for a note and a silent call as well,
\* and also when the batch is given up halfway.
EventsNumbered ==
  transport = "server" /\ pc = "stopped" /\ context.stream =>
    LET text == context.text IN
    /\ Len(text) = 3 * Len(answers)
    /\ \A k \in 1..Len(answers) :
         /\ text[3 * k - 2] = Piece("id", k)
         /\ text[3 * k - 1] = Piece("item", answers[k].id)
         /\ text[3 * k] = Separator("blank")

\* A single request is answered with 400 exactly when it failed; a batch, once started,
\* with 202 whatever becomes of its calls (ServerContext::error, addItem and ~ServerContext).
StatusTellsOutcome ==
  transport = "server" /\ pc = "stopped" =>
    IF context.stream THEN context.sent = 202
    ELSE context.sent = 400 <=> \E i \in DOMAIN answers : answers[i].code # Result

\* No call is answered twice: "result" MUST NOT exist if there was an error invoking the
\* method (JsonRPC.h:146-147).
OneAnswer ==
  \A i, j \in DOMAIN answers :
    answers[i].id = answers[j].id /\ answers[i].id # 0 => i = j

\* A batch is given up halfway only for bad JSON, and its client is told so by the last
\* answer; other types of error allow it to go on (JsonRPCCore.cpp:87-88).
OnlyBadJsonEndsBatch ==
  pc = "closing" /\ context.stream /\ ~again =>
    answers # <<>> /\ answers[Len(answers)].code = ParseError

\* Every input that ends is worked off: Local::run leaves its loop, an HTTP request is answered.
RunEnds == <>(pc = "stopped")

Service == INSTANCE JsonRPCService WITH
  Places <- 1..MaxTokens,
  answered <- [i \in DOMAIN answers |-> answers[i].id],
  open <- ~failed

\* Calls are taken in order and answered once, and nothing is taken after a complaint.
ImplementsService == Service!Spec
=============================================================================
