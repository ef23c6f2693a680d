----------------------------- MODULE MCPServer -----------------------------
(***************************************************************************)
(* The session layer of the MCP server: MCPServer (validateRequest,        *)
(* handleRequest, removeSession), the MCPSession objects it keeps in       *)
(* sessionMap, the MCPJanitor timer and the four executors of MCPCore.     *)
(*                                                                         *)
(* An HTTP request runs as a coroutine on one of the worker threads.  It   *)
(* looks its session up once, keeps a reference to it, and may be          *)
(* suspended whenever it waits for input or output and resumed on another  *)
(* thread; meanwhile other requests, DELETEs and the janitor go on.        *)
(* Nothing counts the references: erasing a session from the map destroys  *)
(* it.  What a request finds through such a reference is undefined; the    *)
(* model lets the process die or the request go on with the old contents.  *)
(*                                                                         *)
(* One step is one access of the shared state: single operations of        *)
(* std::map, std::set and of the logging library are taken as atomic.      *)
(* Time is kept as ages: age[s] is Clock::now() - lastUsed.                *)
(***************************************************************************)
EXTENDS Integers, Sequences

CONSTANTS
  Sessions,           \* the uuids random_generator may draw
  Requests,           \* the connections; each carries one request at a time
  Threads,            \* worker threads
  MinProtocol,        \* MCPServerConfig::protocolInfo.first
  MaxProtocol,        \* MCPServerConfig::protocolInfo.second
  Versions,           \* the versions clients write in headers and parameters
  Levels,             \* the logging levels clients ask for
  MaxBatch,           \* the number of calls in the longest array, 0 for no arrays
  InitHandShake,      \* MCPServerConfig::initHandShake
  SessionTimeout,     \* MCPServerConfig::sessionTimeout
  JanitorCheckTime,   \* MCPServerConfig::janitorCheckTime
  None                \* no session, no thread, no header

Protocol == 0..4                  \* the five versions of enum Protocol, in order
FirstWithoutBatch == 2            \* v2025_06_18
Emergency == 0                    \* LoggingLevel::emergency; any other level is 1

ASSUME ProtocolAssumption ==
  /\ MinProtocol \in Protocol /\ MaxProtocol \in Protocol
  /\ MinProtocol <= MaxProtocol
  /\ Versions \subseteq Protocol
ASSUME LevelsAssumption == Levels \subseteq {Emergency, 1}
ASSUME TimeAssumption ==
  /\ InitHandShake \in Nat /\ SessionTimeout \in Nat
  /\ JanitorCheckTime \in Nat \ {0}
  /\ InitHandShake <= SessionTimeout
ASSUME NoneAssumption == None \notin Sessions \cup Threads \cup Protocol
ASSUME BatchAssumption == MaxBatch \in Nat

Call ==
  [method : {"initialize"}, arg : Versions]
    \cup [method : {"logging/setLevel"}, arg : Levels]
    \cup [method : {"notifications/initialized", "ping"}, arg : {0}]

Handshake == {"notifications/initialized", "ping"}
Early == Handshake \cup {"initialize"}

\* What getMethodName finds: the string after the first text "method" of what is buffered,
\* be it the method of a call, a member of its parameters or anything else.  "" is any
\* string validateRequest does not compare with, or none.
Found == Early \cup {""}

\* A body is one call, or an array of calls, and what is found in its text.
Body ==
  [array : {FALSE}, calls : [1..1 -> Call], found : Found]
    \cup [array : {TRUE}, calls : UNION {[1..n -> Call] : n \in 1..MaxBatch}, found : Found]

Headers == Versions \cup {None}   \* None: no single MCP-Protocol-Version header

\* A call that has to wait for the handshake, behind a text that need not wait and is not
\* the method of the first call.
Hides(body) ==
  /\ body.found \in Early \ {body.calls[1].method}
  /\ \E i \in DOMAIN body.calls : body.calls[i].method \notin Early

VARIABLES
  sessionMap,   \* the uuids that are keys of MCPServer::sessionMap
  session,      \* the MCPSession objects, or what is left of them in memory
  age,          \* time since MCPSession::lastUsed of the sessions in the map
  callbacks,    \* the sessions registered with the logging library
  request,      \* the request each connection is serving
  sweepIn,      \* time until the janitor's timer fires
  memory        \* "sound", "stale": a destroyed session was used, "down"

vars == <<sessionMap, session, age, callbacks, request, sweepIn, memory>>

Idle(status) ==
  [phase |-> "idle", status |-> status, session |-> None, header |-> None,
   array |-> FALSE, hides |-> FALSE, calls |-> <<>>, thread |-> None]

Fresh == [state |-> "Invalid", protocol |-> 0, hasBeenSet |-> FALSE, knownThreads |-> {}]

SessionType ==
  [state : {"Invalid", "Requested", "Confirmed"}, protocol : Protocol,
   hasBeenSet : BOOLEAN, knownThreads : SUBSET Threads]

RequestType ==
  [phase : {"idle", "found", "admitted", "running", "suspended"},
   status : {0, 200, 400, 403, 404},
   session : Sessions \cup {None},
   header : Headers,
   array : BOOLEAN,
   hides : BOOLEAN,        \* for HandshakeComesFirst: no step depends on it
   calls : Seq(Call),
   thread : Threads \cup {None}]

TypeOK ==
  /\ sessionMap \in SUBSET Sessions
  /\ session \in [Sessions -> SessionType]
  /\ age \in [Sessions -> Nat]
  /\ callbacks \in SUBSET Sessions
  /\ request \in [Requests -> RequestType]
  /\ sweepIn \in 0..JanitorCheckTime
  /\ memory \in {"sound", "stale", "down"}

Init ==
  /\ sessionMap = {}
  /\ session = [s \in Sessions |-> Fresh]
  /\ age = [s \in Sessions |-> 0]
  /\ callbacks = {}
  /\ request = [r \in Requests |-> Idle(0)]
  /\ sweepIn = JanitorCheckTime
  /\ memory = "sound"

----------------------------------------------------------------------------
(* Destroying and using sessions.                                          *)

\* Slip: the destructor leaves the callback registered.
DestroyKeepsCallbacks(gone) ==
  /\ sessionMap' = sessionMap \ gone
  /\ age' = [s \in Sessions |-> IF s \in gone THEN 0 ELSE age[s]]
  /\ UNCHANGED callbacks

\* ~MCPSession of every session in gone, and their removal from the map.
Destroy(gone) ==
  /\ sessionMap' = sessionMap \ gone
  /\ callbacks' = callbacks \ {s \in gone : session[s].hasBeenSet}
  /\ age' = [s \in Sessions |-> IF s \in gone THEN 0 ELSE age[s]]

\* The reference a request keeps is followed.
Use(s) == memory' = IF s \in sessionMap THEN memory ELSE "stale"

RequestAdd(s, t) ==
  session' = IF session[s].hasBeenSet
             THEN [session EXCEPT ![s].knownThreads = @ \cup {t}]
             ELSE session

\* Slip: a thread that leaves is not forgotten.
RequestRemoveForgotten(s, t) == UNCHANGED session

RequestRemove(s, t) ==
  session' = IF session[s].hasBeenSet
             THEN [session EXCEPT ![s].knownThreads = @ \ {t}]
             ELSE session

\* What t logs is sent to s, if the logging library calls s back.
Logs(s, t) == t \in session[s].knownThreads

\* A thread runs one coroutine at a time.
FreeThread(t) == \A r \in Requests : request[r].phase = "running" => request[r].thread # t

----------------------------------------------------------------------------
(* validateRequest.                                                        *)

Refuse(r, status) ==
  /\ request[r].phase = "idle"
  /\ request' = [request EXCEPT ![r] = Idle(status)]
  /\ UNCHANGED <<sessionMap, session, age, callbacks, sweepIn, memory>>

\* The origin is not the allowed one (403), or json and event-stream are not
\* both accepted (404).
RefuseHeaders(r) == \E status \in {403, 404} : Refuse(r, status)

\* No session id on anything but initialize, or more than one (400); a
\* session id that does not parse (404).
RefuseSessionId(r) == \E status \in {400, 404} : Refuse(r, status)

RefuseUnknownSession(r, s) == s \notin sessionMap /\ Refuse(r, 404)

\* The session waits for its handshake and the method found is no part of it.
RefuseUnconfirmed(r, s, found) ==
  /\ s \in sessionMap
  /\ session[s].state = "Requested"
  /\ found \notin Handshake
  /\ Refuse(r, 404)

Accept(r, phase, s, header, body) ==
  request' = [request EXCEPT ![r] =
    [phase |-> phase, status |-> 0, session |-> s, header |-> header,
     array |-> body.array, hides |-> Hides(body), calls |-> body.calls, thread |-> None]]

\* initialize is found and there is no session id: a new session, not checked any further.
CreateSession(r, s, header, body) ==
  /\ request[r].phase = "idle"
  /\ body.found = "initialize"
  /\ session[s].state = "Invalid"           \* the uuid was never drawn before
  /\ sessionMap' = sessionMap \cup {s}
  /\ session' = [session EXCEPT ![s] = [Fresh EXCEPT !.state = "Requested", !.protocol = MaxProtocol]]
  /\ age' = [age EXCEPT ![s] = 0]
  /\ Accept(r, "admitted", s, header, body)
  /\ UNCHANGED <<callbacks, sweepIn, memory>>

\* Slip: every method is let through before the handshake.
FindSessionUnconfirmed(r, s, header, body) ==
  /\ request[r].phase = "idle"
  /\ s \in sessionMap
  /\ Accept(r, "found", s, header, body)
  /\ UNCHANGED <<sessionMap, session, age, callbacks, sweepIn, memory>>

\* The session id is in the map: from here on the request has a reference.
FindSession(r, s, header, body) ==
  /\ request[r].phase = "idle"
  /\ s \in sessionMap
  /\ session[s].state = "Requested" => body.found \in Handshake
  /\ Accept(r, "found", s, header, body)
  /\ UNCHANGED <<sessionMap, session, age, callbacks, sweepIn, memory>>

\* Slip: the header's version is not compared.
CheckProtocolSkipped(r) ==
  /\ request[r].phase = "found"
  /\ request' = [request EXCEPT ![r].phase = "admitted"]
  /\ Use(request[r].session)
  /\ UNCHANGED <<sessionMap, session, age, callbacks, sweepIn>>

\* Slip: a mismatch is detected and the request is left open.
CheckProtocolHangs(r) ==
  /\ CheckProtocolSkipped(r)
  /\ request[r].header = session[request[r].session].protocol

CheckProtocol(r) ==
  LET s == request[r].session IN
  /\ request[r].phase = "found"
  /\ request' = IF request[r].header = session[s].protocol
                THEN [request EXCEPT ![r].phase = "admitted"]
                ELSE [request EXCEPT ![r] = Idle(400)]
  /\ Use(s)
  /\ UNCHANGED <<sessionMap, session, age, callbacks, sweepIn>>

----------------------------------------------------------------------------
(* handleRequest: the request joins its session, its calls are executed,   *)
(* and it leaves.                                                          *)

\* Slip: the session's version is not looked at.
SupportBatchRequestAlways(s) == TRUE

SupportBatchRequest(s) == session[s].protocol < FirstWithoutBatch

\* An array is no request where batches are not supported: nothing of it runs.
Join(r, t) ==
  LET s == request[r].session IN
  /\ request[r].phase = "admitted"
  /\ FreeThread(t)
  /\ RequestAdd(s, t)
  /\ request' = [request EXCEPT ![r] = [@ EXCEPT
       !.phase = "running",
       !.thread = t,
       !.array = FALSE,
       !.calls = IF request[r].array /\ ~SupportBatchRequest(s) THEN <<>> ELSE request[r].calls]]
  /\ Use(s)
  /\ UNCHANGED <<sessionMap, age, callbacks, sweepIn>>

\* The coroutine waits for input or output and gives its thread away.
Yield(r) ==
  LET s == request[r].session IN
  /\ request[r].phase = "running"
  /\ RequestRemove(s, request[r].thread)
  /\ request' = [request EXCEPT ![r] = [@ EXCEPT !.phase = "suspended", !.thread = None]]
  /\ Use(s)
  /\ UNCHANGED <<sessionMap, age, callbacks, sweepIn>>

Resume(r, t) ==
  LET s == request[r].session IN
  /\ request[r].phase = "suspended"
  /\ FreeThread(t)
  /\ RequestAdd(s, t)
  /\ request' = [request EXCEPT ![r] = [@ EXCEPT !.phase = "running", !.thread = t]]
  /\ Use(s)
  /\ UNCHANGED <<sessionMap, age, callbacks, sweepIn>>

\* The next call of the body is taken; its executor runs to its end.
Execute(r, method) ==
  /\ request[r].phase = "running"
  /\ request[r].calls # <<>>
  /\ Head(request[r].calls).method = method
  /\ request' = [request EXCEPT ![r].calls = Tail(@)]
  /\ Use(request[r].session)
  /\ UNCHANGED <<sessionMap, age, sweepIn>>

\* The version agreed to: the one asked for, moved into the server's range.
Negotiate(version) ==
  IF version < MinProtocol THEN MinProtocol
  ELSE IF version > MaxProtocol THEN MaxProtocol
  ELSE version

\* ping and initialize answer and change nothing of the session: the version
\* that initialize agrees to is only written into the answer.
Ping(r) == Execute(r, "ping") /\ UNCHANGED <<session, callbacks>>

\* Slip: initialize on an existing session starts its handshake again.
InitializeAgain(r) ==
  /\ Execute(r, "initialize")
  /\ session' = [session EXCEPT ![request[r].session].state = "Requested"]
  /\ UNCHANGED callbacks

Initialize(r) == Execute(r, "initialize") /\ UNCHANGED <<session, callbacks>>

\* Slip: the session is given the oldest version.
NotificationsInitializedOldest(r) ==
  LET s == request[r].session IN
  /\ Execute(r, "notifications/initialized")
  /\ session' = [session EXCEPT ![s] = [@ EXCEPT !.state = "Confirmed", !.protocol = MinProtocol]]
  /\ UNCHANGED callbacks

NotificationsInitialized(r) ==
  LET s == request[r].session IN
  /\ Execute(r, "notifications/initialized")
  /\ session' = IF request[r].header = None
                THEN session
                ELSE [session EXCEPT ![s] =
                       [@ EXCEPT !.state = "Confirmed", !.protocol = request[r].header]]
  /\ UNCHANGED callbacks

\* Slip: the level emergency leaves the callback in place.
LoggingSetLevelKeeps(r) ==
  LET s == request[r].session
      on == Head(request[r].calls).arg # Emergency IN
  /\ Execute(r, "logging/setLevel")
  /\ session' = [session EXCEPT ![s].hasBeenSet = on]
  /\ callbacks' = callbacks \cup (IF on THEN {s} ELSE {})

\* Slip: with the old callback go the threads it listened to.
LoggingSetLevelForgets(r) ==
  LET s == request[r].session
      on == Head(request[r].calls).arg # Emergency IN
  /\ Execute(r, "logging/setLevel")
  /\ session' = [session EXCEPT ![s] = [@ EXCEPT !.hasBeenSet = on, !.knownThreads = {}]]
  /\ callbacks' = (callbacks \ {s}) \cup (IF on THEN {s} ELSE {})

\* setLogging: the old callback goes, a new one comes unless the level is emergency.
LoggingSetLevel(r) ==
  LET s == request[r].session
      on == Head(request[r].calls).arg # Emergency IN
  /\ Execute(r, "logging/setLevel")
  /\ session' = [session EXCEPT ![s].hasBeenSet = on]
  /\ callbacks' = (IF session[s].hasBeenSet THEN callbacks \ {s} ELSE callbacks)
                    \cup (IF on THEN {s} ELSE {})

Finish(r) ==
  LET s == request[r].session IN
  /\ request[r].phase = "running"
  /\ request[r].calls = <<>>
  /\ RequestRemove(s, request[r].thread)
  /\ request' = [request EXCEPT ![r] = Idle(200)]
  /\ Use(s)
  /\ UNCHANGED <<sessionMap, age, callbacks, sweepIn>>

----------------------------------------------------------------------------
(* DELETE, the janitor and the clock.                                      *)

\* DELETE with a session id, known or not, and whatever the session's state.
RemoveSession(s) ==
  /\ Destroy({s} \cap sessionMap)
  /\ UNCHANGED <<session, request, sweepIn, memory>>

\* Slip: the handshake has no time limit of its own.
HasTimedOutLate(s) == age[s] > SessionTimeout

HasTimedOut(s) ==
  age[s] > IF session[s].state = "Requested" THEN InitHandShake ELSE SessionTimeout

\* Slip: an unfinished handshake that is late is given another period.
JanitorSweepRenews ==
  LET late == {s \in sessionMap : HasTimedOut(s)}
      gone == {s \in late : session[s].state = "Confirmed"} IN
  /\ sweepIn = 0
  /\ sessionMap' = sessionMap \ gone
  /\ callbacks' = callbacks \ {s \in gone : session[s].hasBeenSet}
  /\ age' = [s \in Sessions |-> IF s \in late THEN 0 ELSE age[s]]
  /\ sweepIn' = JanitorCheckTime
  /\ UNCHANGED <<session, request, memory>>

JanitorSweep ==
  /\ sweepIn = 0
  /\ Destroy({s \in sessionMap : HasTimedOut(s)})
  /\ sweepIn' = JanitorCheckTime
  /\ UNCHANGED <<session, request, memory>>

\* Slip: the timer is served late.
TickLate ==
  /\ sweepIn' = sweepIn - 1
  /\ age' = [s \in Sessions |-> IF s \in sessionMap THEN age[s] + 1 ELSE age[s]]
  /\ UNCHANGED <<sessionMap, session, callbacks, request, memory>>

\* The timer is served before time passes on.
Tick ==
  /\ sweepIn > 0
  /\ sweepIn' = sweepIn - 1
  /\ age' = [s \in Sessions |-> IF s \in sessionMap THEN age[s] + 1 ELSE age[s]]
  /\ UNCHANGED <<sessionMap, session, callbacks, request, memory>>

\* A destroyed session is used and the process does not survive it.
Crash(r) ==
  /\ request[r].phase # "idle"
  /\ request[r].session \notin sessionMap
  /\ memory' = "down"
  /\ UNCHANGED <<sessionMap, session, age, callbacks, request, sweepIn>>

Down == memory = "down" /\ UNCHANGED vars

----------------------------------------------------------------------------

Receive(r) ==
  \/ RefuseHeaders(r)
  \/ RefuseSessionId(r)
  \/ \E s \in Sessions : RefuseUnknownSession(r, s)
  \/ \E s \in Sessions, found \in Found : RefuseUnconfirmed(r, s, found)
  \/ \E s \in Sessions, header \in Headers, body \in Body : CreateSession(r, s, header, body)
  \/ \E s \in Sessions, header \in Headers, body \in Body : FindSession(r, s, header, body)

RunCall(r) == Ping(r) \/ Initialize(r) \/ NotificationsInitialized(r) \/ LoggingSetLevel(r)

Progress(r) == CheckProtocol(r) \/ RunCall(r) \/ Finish(r)
Start(r) == \E t \in Threads : Join(r, t) \/ Resume(r, t)

Next ==
  \/ /\ memory # "down"
     /\ \/ \E r \in Requests : Receive(r) \/ Progress(r) \/ Start(r) \/ Yield(r) \/ Crash(r)
        \/ \E s \in Sessions : RemoveSession(s)
        \/ JanitorSweep
        \/ Tick
  \/ Down

Spec == Init /\ [][Next]_vars

\* The workers' and the timer's scheduling: a request that can be checked is; one that
\* is ready again and again for a thread gets one, and one that is resumed again and
\* again (each wait is for one message) gets to its next call; the clock and the timer go on.
Up(A) == memory # "down" /\ A

Fairness ==
  /\ \A r \in Requests : SF_vars(Up(Start(r))) /\ SF_vars(Up(Progress(r)))
  /\ WF_vars(Up(Tick \/ JanitorSweep))

FairSpec == Spec /\ Fairness

----------------------------------------------------------------------------
(* Properties.                                                             *)

\* As long as no destroyed session was used, the logging library holds a callback for
\* exactly the sessions in the map that have logging set: setLogging and ~MCPSession
\* (by DELETE or by the janitor) never leave one pointing at a destroyed session, and
\* never lose one.
CallbacksMatchSessions ==
  memory = "sound" => callbacks = {s \in sessionMap : session[s].hasBeenSet}

\* Until a session is confirmed no call but ping, notifications/initialized and the
\* initialize that made it gets to its executor, unless the text of its body hides it from
\* getMethodName: neither behind the other calls of an array nor because other requests of
\* the session change its state after validateRequest looked at it.
HandshakeComesFirst ==
  \A r \in Requests :
    /\ request[r].phase = "running"
    /\ ~request[r].hides
    /\ request[r].calls # <<>>
    /\ session[request[r].session].state = "Requested"
    => Head(request[r].calls).method \in Early

\* Logging is set only on sessions whose handshake is complete: a session that is only
\* requested is ignored until its client has initialized (MCPServer.cpp:169-170).
LoggingNeedsHandshake ==
  \A s \in Sessions : session[s].hasBeenSet => session[s].state = "Confirmed"

\* A session keeps the protocol it was created with: notifications/initialized stores
\* the version of its own header, which was checked some steps earlier.
ProtocolIsFixed ==
  \A s \in Sessions : session[s].state # "Invalid" => session[s].protocol = MaxProtocol

\* The janitor's bound (MCPServer.h:28-30): an unfinished handshake is gone after
\* initHandShake + janitorCheckTime, any session after sessionTimeout + janitorCheckTime.
SessionsAgeOut ==
  \A s \in sessionMap :
    /\ age[s] <= SessionTimeout + JanitorCheckTime
    /\ session[s].state = "Requested" => age[s] <= InitHandShake + JanitorCheckTime

\* No session that has logging set is sent what a thread logs for another session's
\* request (mcpLog, MCPSession::log and the join and yield notifications).
NoForeignLog ==
  memory = "sound" =>
    \A r \in Requests, s \in callbacks :
      /\ request[r].phase = "running"
      /\ Logs(s, request[r].thread)
      => request[r].session = s

\* A thread that began to serve its session's request while logging was set is heard until
\* it yields or the session ends, though other requests of the session set other levels and
\* other threads leave it meanwhile (requestAdd, requestRemove and setLogging).
OwnLogIsHeard ==
  [][\A r \in Requests :
       LET s == request[r].session
           heard == session[s].hasBeenSet /\ Logs(s, request[r].thread) IN
       request[r].phase = "running" /\ request'[r].phase = "running" /\ heard
         => heard' \/ ~session'[s].hasBeenSet]_vars

\* No request follows its reference to a session that DELETE or the janitor destroyed.
NoDestroyedSessionUsed == memory = "sound"

\* Every accepted request is answered, or a destroyed session was used.
RequestsFinish ==
  \A r \in Requests : request[r].phase # "idle" ~> request[r].phase = "idle" \/ memory # "sound"

\* A session whose handshake is never completed does not stay.
HandshakesEnd ==
  \A s \in Sessions :
    s \in sessionMap /\ session[s].state = "Requested"
      ~> s \notin sessionMap \/ session[s].state = "Confirmed" \/ memory # "sound"

Stage(s) ==
  CASE session[s].state = "Invalid" -> "none"
    [] session[s].state # "Invalid" /\ s \notin sessionMap -> "gone"
    [] session[s].state = "Requested" /\ s \in sessionMap -> "requested"
    [] session[s].state = "Confirmed" /\ s \in sessionMap -> "confirmed"

Lifecycle == INSTANCE SessionLifecycle WITH
  stage <- [s \in Sessions |-> Stage(s)], listening <- callbacks \cap sessionMap

\* The server implements the lifecycle: whatever texts and calls it is sent, a session is
\* requested, confirmed and ended once, in this order, and forwards no log after its end.
ImplementsLifecycle == Lifecycle!Spec
=============================================================================
