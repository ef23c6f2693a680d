---------------------------- MODULE ClientServer ----------------------------
(***************************************************************************)
(* A ClientMCP and the MCPServer it talks to.  Each connection of the      *)
(* client's pool is a connection of the server; others carry what anybody  *)
(* who knows the session's id may send.  The client posts what its         *)
(* constructor and sendRequest write, and is answered what the server      *)
(* makes of it: status 200 is a request that was handled, which the        *)
(* context sends as 202 if there is a result.                              *)
(*                                                                         *)
(* A request whose session is destroyed under it is undefined from then    *)
(* on: the system is followed up to that step.                             *)
(***************************************************************************)
EXTENDS MCPServer

CONSTANTS
  MaxRequests,    \* bound: the requests the client sends
  MaxEvents,      \* bound of ClientMCP
  OtherBodies     \* bound: what others send

ASSUME OtherBodiesAssumption == OtherBodies \subseteq Body
ASSUME ClientBoundsAssumption == MaxRequests \in Nat /\ MaxEvents \in Nat
ASSUME ConnectionAssumption == 1 \in Requests   \* the first of the client's pool

VARIABLES
  pool, spare, config, phase, header, requests, stack, deepest,   \* the client
  mine        \* the session the server made for the client, None before

clientVars == <<pool, spare, config, phase, header, requests, stack, deepest>>
systemVars == <<sessionMap, session, age, callbacks, request, sweepIn, memory, clientVars, mine>>

Client == INSTANCE ClientMCP WITH server <-
  [first |-> MinProtocol, last |-> MaxProtocol,
   state |-> IF mine = None THEN "Invalid" ELSE session[mine].state,
   alive |-> mine \in sessionMap]

ASSUME ServerVersionsAssumption == {MinProtocol, MaxProtocol, Client!Asked} \subseteq Versions

SystemInit == Init /\ mine = None /\ config \in Versions /\ Client!Init

----------------------------------------------------------------------------
(* The client's steps.                                                     *)

Connection == stack[Len(stack)].connection
Waiting == stack # <<>> /\ Client!Top.step = "sent"

\* The server is done with the client's post.
Answered(status) ==
  Waiting /\ request[Connection].phase = "idle" /\ request[Connection].status = status

ServerStill == UNCHANGED <<sessionMap, session, age, callbacks, sweepIn, memory, mine>>

\* A message is on its way over c.
Post(c) == request' = [request EXCEPT ![c] = Idle(0)]

Construct == ServerStill /\ Client!Construct /\ Post(Connection')

\* The constructor's second post goes over the same connection.
InitializeAnswered ==
  /\ Answered(200)
  /\ ServerStill
  /\ Client!InitializeAnswer(Negotiate(Client!Asked))
  /\ Post(Connection)

InitializeFailed == Answered(403) /\ ServerStill /\ UNCHANGED request /\ Client!InitializeFailed

InitializedAnswered ==
  /\ \E status \in {200, 400, 404} : Answered(status) /\ Client!InitializedAnswer(status)
  /\ ServerStill /\ UNCHANGED request

\* Bound: one request after the other.
SendRequest == stack = <<>> /\ ServerStill /\ Client!SendRequest /\ Post(Connection')

RequestAnswered ==
  /\ ServerStill /\ UNCHANGED request
  /\ \/ Answered(200) /\ Client!Answered([kind |-> "object", events |-> <<"result">>])
     \/ \E status \in {400, 404} :
          Answered(status) /\ Client!Answered([kind |-> "refused", events |-> <<"junk">>])

\* The user's callback runs; it may send a request (SendRequest), return or throw.
RequestHandled ==
  /\ ServerStill /\ UNCHANGED request
  /\ \/ Client!HandleResponse \/ Client!CallbackReturns \/ Client!RequestReturns
     \/ ~Waiting /\ Client!RequestThrows

Handshaking == Construct \/ InitializeAnswered \/ InitializeFailed \/ InitializedAnswered
Requesting == RequestAnswered \/ RequestHandled

----------------------------------------------------------------------------
(* The server's steps.                                                     *)

\* Whatever the client writes has its method before its parameters.
Single(method, arg) ==
  [array |-> FALSE, calls |-> <<[method |-> method, arg |-> arg]>>,
   found |-> IF method \in Early THEN method ELSE ""]

InitializeRequest == Single("initialize", Client!Asked)
Notification_Initialized == Single("notifications/initialized", 0)
PingRequest == Single("ping", 0)
SetLevelRequest(level) == Single("logging/setLevel", level)

\* What the client has posted after initialize; its requests are for what MCPCore knows.
PostedBodies ==
  IF phase = "initialized" THEN {Notification_Initialized}
  ELSE {PingRequest} \cup {SetLevelRequest(level) : level \in Levels}

Validate(r, s, version, body) ==
  \/ RefuseUnknownSession(r, s)
  \/ RefuseUnconfirmed(r, s, body.found)
  \/ FindSession(r, s, version, body)

\* The client's post reaches the server.  Of its headers only the origin may be wrong.
Deliver ==
  /\ Answered(0)
  /\ IF phase = "initialize"
     THEN \/ Refuse(Connection, 403) /\ UNCHANGED mine
          \/ \E s \in Sessions :
               CreateSession(Connection, s, None, InitializeRequest) /\ mine' = s
     ELSE /\ \E body \in PostedBodies : Validate(Connection, mine, header, body)
          /\ UNCHANGED mine
  /\ UNCHANGED clientVars

Others == Requests \ {1}

ServerStep ==
  /\ \/ \E r \in Others, s \in Sessions, version \in Headers, body \in OtherBodies :
          Validate(r, s, version, body)
     \/ \E r \in Requests : Progress(r) \/ Start(r) \/ Yield(r)
     \/ \E s \in Sessions : RemoveSession(s)
     \/ JanitorSweep
     \/ Tick
  /\ UNCHANGED <<clientVars, mine>>

Lost == memory # "sound" /\ UNCHANGED systemVars

SystemNext ==
  \/ /\ memory = "sound"
     /\ Handshaking \/ SendRequest \/ Requesting \/ Deliver \/ ServerStep
  \/ Lost

SystemSpec == SystemInit /\ [][SystemNext]_systemVars

\* The client's thread runs, its user's callbacks return, and what is posted arrives; the
\* server is as fair as it is by itself.
SystemFairness == Fairness /\ WF_systemVars(Handshaking \/ Requesting) /\ WF_systemVars(Deliver)

FairSystem == SystemSpec /\ SystemFairness

----------------------------------------------------------------------------
(* Properties.                                                             *)

\* A client whose constructor has returned is refused only when its session is gone: its
\* handshake has left the server with the state and the version that validateRequest
\* looks for in every later request, whatever others send for the session meanwhile.
ReadyIsServed ==
  phase = "ready" /\ memory = "sound" =>
    \A status \in {400, 403, 404} : Answered(status) => mine \notin sessionMap

\* The client's constructor and its sendRequest return, though the session may end at any
\* time and others use the server's threads.
PostsReturn == stack # <<>> ~> stack = <<>> \/ memory # "sound"

\* The server does with the client's session and answers to its handshake what ClientMCP
\* relies on, whatever others send for that session.
ImplementsClient == Client!Spec
=============================================================================
