----------------------------- MODULE ClientMCP -----------------------------
(***************************************************************************)
(* ClientMCP: the handshake of its constructor with an MCPServer, and      *)
(* sendRequest, whose callbacks may send requests of their own.            *)
(*                                                                         *)
(* post_async runs its callback before it returns, so open requests form a *)
(* stack: only the one on top moves, and the one below it is in a callback *)
(* of the user.  Each holds a connection of the pool.  Whatever a server   *)
(* may answer to a request is an answer here.  The handshake is answered   *)
(* by an MCPServer: server is what the client depends on of it, and its    *)
(* steps are what the client relies on (module ClientServer shows that     *)
(* MCPServer takes no others).                                             *)
(***************************************************************************)
EXTENDS ConnectionPool

CONSTANTS
  Versions,       \* the versions clients and servers are configured with
  MaxRequests,    \* bound: the number of requests sent, so also how deep they nest
  MaxEvents,      \* bound: the number of events in a stream
  None            \* no answer, no header

Protocol == 0..4
Asked == 3                          \* v2025_11_25, whatever the client is configured with

ASSUME VersionsAssumption == Versions \subseteq Protocol /\ None \notin Protocol
ASSUME BoundsAssumption == MaxRequests \in Nat /\ MaxEvents \in Nat

\* What an event or a JSON body is read as: a response with a result, an error or neither,
\* no JSON, or, in a stream, text without "method".  In a stream, where all but "other" have
\* "method", it is a call of the server that has neither.
EventType == {"result", "error", "neither", "junk", "other"}

\* refused: the status is not 202; untyped: neither json nor an event stream.
Response ==
  [kind : {"refused", "untyped"}, events : {<<"junk">>}]
    \cup [kind : {"object"}, events : {<<e>> : e \in EventType \ {"other"}}]
    \cup [kind : {"stream"}, events : UNION {[1..n -> EventType] : n \in 0..MaxEvents}]

VARIABLES
  config,     \* ClientConfig::protocol
  phase,      \* how far the constructor is
  header,     \* the MCP-Protocol-Version that is sent with the session id
  requests,   \* the requests sent
  stack,      \* the open posts, the innermost last
  deepest,    \* the largest number of posts open at a time
  server      \* the server's range of versions, the state of the client's session and
              \* whether it is in the server's map

vars == <<pool, spare, config, phase, header, requests, stack, deepest, server>>

OpenPost ==
  [connection : Nat, step : {"sent", "reading", "callback"},
   kind : {None, "refused", "untyped", "object", "stream"}, events : Seq(EventType),
   actions : Nat, errors : Nat, core : Nat]

TypeOK ==
  /\ pool \in Nat /\ spare \in Seq(1..pool)
  /\ config \in Versions
  /\ phase \in {"new", "initialize", "initialized", "ready", "failed"}
  /\ header \in Versions \cup {None}
  /\ requests \in 0..MaxRequests
  /\ stack \in Seq(OpenPost)
  /\ deepest \in Nat
  /\ server \in [first : Versions, last : Versions,
                 state : {"Invalid", "Requested", "Confirmed"}, alive : BOOLEAN]

Init ==
  /\ PoolInit
  /\ config \in Versions
  /\ phase = "new"
  /\ header = None
  /\ requests = 0
  /\ stack = <<>>
  /\ deepest = 0
  /\ server \in [first : Versions, last : Versions, state : {"Invalid"}, alive : {FALSE}]
  /\ server.first <= server.last

----------------------------------------------------------------------------
(* ConnectionFromPool and post_async.                                      *)

Top == stack[Len(stack)]
Below == SubSeq(stack, 1, Len(stack) - 1)

Open ==
  \E c \in 1..pool + 1 :
    /\ GetConnection(c)
    /\ stack' = Append(stack, [connection |-> c, step |-> "sent", kind |-> None, events |-> <<>>,
                               actions |-> 0, errors |-> 0, core |-> 0])
    /\ deepest' = IF Len(stack) = deepest THEN deepest + 1 ELSE deepest

Close ==
  /\ ReturnConnection(Top.connection)
  /\ stack' = Below
  /\ UNCHANGED deepest

----------------------------------------------------------------------------
(* The constructor.                                                        *)

Construct ==
  /\ phase = "new"
  /\ Open
  /\ phase' = "initialize"
  /\ UNCHANGED <<config, header, requests, server>>

\* The version the server answers: the one asked for, moved into its range.
Negotiated ==
  IF Asked < server.first THEN server.first ELSE IF Asked > server.last THEN server.last ELSE Asked

\* initialize is answered with a version and a session id: the client goes on if the
\* version is its own.
InitializeAnswer(version) ==
  /\ phase = "initialize"
  /\ IF version = config
     THEN header' = config /\ phase' = "initialized" /\ UNCHANGED <<pool, spare, stack, deepest>>
     ELSE phase' = "failed" /\ Close /\ UNCHANGED header
  /\ UNCHANGED <<config, requests>>

InitializeAnswered ==
  /\ server.state # "Invalid"
  /\ InitializeAnswer(Negotiated)
  /\ UNCHANGED server

\* initialize is answered with a status that is not 202, a body that does not parse, no
\* result or no single session id, or the connection breaks, also later: what throws leaves
\* the constructor.
InitializeFailed ==
  /\ phase \in {"initialize", "initialized"}
  /\ phase' = "failed"
  /\ Close
  /\ UNCHANGED <<config, header, requests, server>>

\* Slip: the status of the answer is not looked at.
InitializedAnswerAny(status) ==
  /\ phase = "initialized"
  /\ phase' = "ready"
  /\ Close
  /\ UNCHANGED <<config, header, requests>>

\* Slip: a refusal is not taken for the answer.
InitializedAnswerWaits(status) ==
  /\ phase = "initialized" /\ status = 200
  /\ phase' = "ready"
  /\ Close
  /\ UNCHANGED <<config, header, requests>>

\* notifications/initialized is answered.
InitializedAnswer(status) ==
  /\ phase = "initialized"
  /\ phase' = IF status = 200 THEN "ready" ELSE "failed"
  /\ Close
  /\ UNCHANGED <<config, header, requests>>

InitializedAccepted ==
  /\ server.state = "Confirmed" /\ header = server.last
  /\ InitializedAnswer(200)
  /\ UNCHANGED server

InitializedRefused ==
  /\ header # server.last \/ ~server.alive
  /\ \E status \in {400, 404} : InitializedAnswer(status)
  /\ UNCHANGED server

\* What the server does with the session: it makes one for initialize, confirms it when
\* the handshake ends, even if it is gone meanwhile, and ends it.
ServerMoves(session) ==
  /\ server' = [server EXCEPT !.state = session.state, !.alive = session.alive]
  /\ UNCHANGED <<pool, spare, config, phase, header, requests, stack, deepest>>

SessionCreated ==
  /\ phase = "initialize" /\ server.state = "Invalid"
  /\ ServerMoves([state |-> "Requested", alive |-> TRUE])

SessionConfirmed ==
  /\ server.state = "Requested"
  /\ ServerMoves([server EXCEPT !.state = "Confirmed"])

SessionEnds == server.alive /\ ServerMoves([server EXCEPT !.alive = FALSE])

----------------------------------------------------------------------------
(* sendRequest.                                                            *)

SendRequest ==
  /\ phase = "ready"
  /\ requests < MaxRequests
  /\ stack # <<>> => Top.step = "callback"
  /\ Open
  /\ requests' = requests + 1
  /\ UNCHANGED <<config, phase, header, server>>

ReplaceTop(q) ==
  /\ stack' = Append(Below, q)
  /\ UNCHANGED <<pool, spare, config, phase, header, requests, deepest, server>>

Answered(response) ==
  /\ phase = "ready" /\ stack # <<>> /\ Top.step = "sent"
  /\ ReplaceTop([Top EXCEPT !.step = "reading", !.kind = response.kind, !.events = response.events])

\* Which of the callbacks an event is for, if any.
Callback(kind, event) ==
  CASE event = "result" /\ kind \in {"object", "stream"} -> "action"
    [] event \in {"neither", "other"} /\ kind = "stream" -> "none"
    [] OTHER -> "errorAction"

\* Slip: the loop goes on after the response.
ReadsOnAlways(kind, event) == kind = "stream"

\* handleStreamRespFromServer reads on after an error and after what it gives to its core.
ReadsOn(kind, event) == kind = "stream" /\ event \in {"error", "other"}

\* One event, or the body, is handled: by a callback, by the client's core or not at all.
HandleResponse ==
  /\ stack # <<>> /\ Top.step = "reading" /\ Top.events # <<>>
  /\ LET callback == Callback(Top.kind, Head(Top.events)) IN
     ReplaceTop([Top EXCEPT
       !.step = IF callback = "none" THEN "reading" ELSE "callback",
       !.actions = @ + (IF callback = "action" THEN 1 ELSE 0),
       !.errors = @ + (IF callback = "errorAction" THEN 1 ELSE 0),
       !.core = @ + (IF Head(Top.events) = "other" THEN 1 ELSE 0),
       !.events = IF ReadsOn(Top.kind, Head(@)) THEN Tail(@) ELSE <<>>])

CallbackReturns ==
  /\ stack # <<>> /\ Top.step = "callback"
  /\ ReplaceTop([Top EXCEPT !.step = "reading"])

RequestReturns ==
  /\ stack # <<>> /\ Top.step = "reading" /\ Top.events = <<>>
  /\ Close
  /\ UNCHANGED <<config, phase, header, requests, server>>

\* The connection breaks in post_async, or the user's callback throws or passes on what a
\* request it sent has thrown: ~ConnectionFromPool is all that is run.
RequestThrows ==
  /\ phase = "ready" /\ stack # <<>> /\ Top.step \in {"sent", "callback"}
  /\ Close
  /\ UNCHANGED <<config, phase, header, requests, server>>

\* The constructor has thrown, or the program sends no more requests.
Rest ==
  /\ stack = <<>>
  /\ phase = "failed" \/ (phase = "ready" /\ requests = MaxRequests)
  /\ UNCHANGED vars

Next ==
  \/ Construct \/ InitializeAnswered \/ InitializeFailed \/ InitializedAccepted \/ InitializedRefused
  \/ SessionCreated \/ SessionConfirmed \/ SessionEnds
  \/ SendRequest \/ (\E response \in Response : Answered(response)) \/ HandleResponse
  \/ CallbackReturns \/ RequestReturns \/ RequestThrows
  \/ Rest

Spec == Init /\ [][Next]_vars

----------------------------------------------------------------------------
(* Properties.                                                             *)

Lent == {stack[i].connection : i \in DOMAIN stack}
Spare == {spare[i] : i \in DOMAIN spare}

\* Every connection is lent to one post or spare once (ConnectionPool::getConnection and
\* returnConnection, ConnectionFromPool), however requests nest in callbacks and also when
\* the constructor or a callback throws: none is shared and none is lost.
ConnectionsApart ==
  /\ Lent \cap Spare = {} /\ Lent \cup Spare = 1..pool
  /\ Len(stack) + Len(spare) = pool

\* A new connection is opened only when all are lent: the pool is as large as the requests
\* were ever deeply nested.
PoolIsSmall == pool = deepest

\* A client that was constructed has a session that the server has confirmed, and sends the
\* version the server compares it with.
ReadyIsConfirmed ==
  phase = "ready" => server.state = "Confirmed" /\ header = server.last /\ header = config

\* When sendRequest returns, and does not throw, exactly one of action and errorAction has
\* been called, once; for an event stream, action at most once (handleRespFromServer and
\* what it calls).
OneOutcome ==
  [][phase = "ready" /\ Len(stack') < Len(stack) /\ Top.step = "reading" =>
       IF Top.kind = "stream" THEN Top.actions <= 1 ELSE Top.actions + Top.errors = 1]_vars
=============================================================================
