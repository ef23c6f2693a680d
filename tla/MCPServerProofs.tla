-------------------------- MODULE MCPServerProofs --------------------------
(***************************************************************************)
(* Theorems about MCPServer for every choice of its constants.             *)
(***************************************************************************)
EXTENDS MCPServer, SequenceTheorems, TLAPS

USE DEF Protocol, FirstWithoutBatch, Emergency

----------------------------------------------------------------------------
(* Bodies and requests are of their types.                                 *)

LEMMA BodyType ==
  ASSUME NEW body \in Body
  PROVE  body.array \in BOOLEAN /\ body.calls \in Seq(Call) /\ Hides(body) \in BOOLEAN
<1>. DEFINE C == Call
<1>1. \A n \in Nat : [1..n -> C] \subseteq Seq(C)
  BY SeqDef
<1>2. 1 \in Nat /\ \A n \in 1..MaxBatch : n \in Nat
  BY BatchAssumption
<1>3. body \in [array : {FALSE}, calls : [1..1 -> C], found : Found]
        \cup [array : {TRUE}, calls : UNION {[1..n -> C] : n \in 1..MaxBatch}, found : Found]
  BY DEF Body
<1>. HIDE DEF C
<1>4. CASE body \in [array : {FALSE}, calls : [1..1 -> C], found : Found]
  <2>1. body.array = FALSE /\ body.calls \in [1..1 -> C]
    BY <1>4
  <2>. QED
    BY <1>1, <1>2, <2>1 DEF C, Hides
<1>5. CASE body \in [array : {TRUE}, calls : UNION {[1..n -> C] : n \in 1..MaxBatch}, found : Found]
  <2>1. body.array = TRUE /\ body.calls \in UNION {[1..n -> C] : n \in 1..MaxBatch}
    BY <1>5
  <2>2. PICK n \in 1..MaxBatch : body.calls \in [1..n -> C]
    BY <2>1
  <2>. QED
    BY <1>1, <1>2, <2>1, <2>2 DEF C, Hides
<1>. QED
  BY <1>3, <1>4, <1>5

LEMMA IdleType ==
  ASSUME NEW status \in {0, 200, 400, 403, 404}
  PROVE  Idle(status) \in RequestType /\ Idle(status).phase = "idle"
  BY EmptySeq DEF Idle, RequestType, Headers

\* Every request in service refers to a session, a running one to its thread.
Served ==
  \A r \in Requests :
    /\ request[r].phase # "idle" => request[r].session \in Sessions
    /\ request[r].phase = "running" => request[r].thread \in Threads

TInv == TypeOK /\ Served

\* A step of one request: its new record is well typed, the other requests' stay.
LEMMA RequestStep ==
  ASSUME TInv, NEW r \in Requests, NEW q \in RequestType,
         request' = [request EXCEPT ![r] = q],
         q.phase # "idle" => q.session \in Sessions,
         q.phase = "running" => q.thread \in Threads
  PROVE  request' \in [Requests -> RequestType] /\ Served'
  BY DEF TInv, TypeOK, Served

\* A session's new record.
LEMMA SessionStep ==
  ASSUME TypeOK, NEW s \in Sessions, NEW x \in SessionType,
         session' = session \/ session' = [session EXCEPT ![s] = x]
  PROVE  session' \in [Sessions -> SessionType]
  BY DEF TypeOK

LEMMA UseType ==
  ASSUME TypeOK, NEW s, Use(s) PROVE memory' \in {"sound", "stale", "down"}
  BY DEF TypeOK, Use

LEMMA AddRemoveType ==
  ASSUME TypeOK, NEW s \in Sessions, NEW t \in Threads, RequestAdd(s, t) \/ RequestRemove(s, t)
  PROVE  session' \in [Sessions -> SessionType]
  BY DEF TypeOK, SessionType, RequestAdd, RequestRemove

\* What becomes of a session's record.
LEMMA SessionRecords ==
  ASSUME NEW x \in SessionType
  PROVE  /\ \A v \in Protocol : [x EXCEPT !.state = "Confirmed", !.protocol = v] \in SessionType
         /\ \A on \in BOOLEAN : [x EXCEPT !.hasBeenSet = on] \in SessionType
<1>. DEFINE States == {"Invalid", "Requested", "Confirmed"}
            Ps == Protocol
            Ts == SUBSET Threads
<1>1. SessionType = [state : States, protocol : Ps, hasBeenSet : BOOLEAN, knownThreads : Ts]
  BY DEF SessionType
<1>2. "Confirmed" \in States /\ Ps = Protocol
  OBVIOUS
<1>. HIDE DEF States, Ps, Ts
<1>3. \A v \in Ps : [x EXCEPT !.state = "Confirmed", !.protocol = v] \in SessionType
  BY <1>1, <1>2
<1>4. \A on \in BOOLEAN : [x EXCEPT !.hasBeenSet = on] \in SessionType
  BY <1>1
<1>. QED
  BY <1>2, <1>3, <1>4

\* What becomes of a request's record.
Admitted(q) == [q EXCEPT !.phase = "admitted"]
Placed(q, t) == [q EXCEPT !.phase = "running", !.thread = t]
Started(q, t, c) == [q EXCEPT !.phase = "running", !.thread = t, !.array = FALSE, !.calls = c]
Suspended(q) == [q EXCEPT !.phase = "suspended", !.thread = None]
WithCalls(q, c) == [q EXCEPT !.calls = c]

LEMMA Records ==
  ASSUME NEW q \in RequestType
  PROVE  /\ Admitted(q) \in RequestType /\ Admitted(q).phase = "admitted" /\ Admitted(q).session = q.session
         /\ \A t \in Threads :
              Placed(q, t) \in RequestType /\ Placed(q, t).session = q.session /\ Placed(q, t).thread = t
         /\ \A t \in Threads, c \in Seq(Call) :
              Started(q, t, c) \in RequestType /\ Started(q, t, c).session = q.session /\ Started(q, t, c).thread = t
         /\ Suspended(q) \in RequestType /\ Suspended(q).session = q.session /\ Suspended(q).phase = "suspended"
         /\ \A c \in Seq(Call) :
              /\ WithCalls(q, c) \in RequestType /\ WithCalls(q, c).phase = q.phase
              /\ WithCalls(q, c).session = q.session /\ WithCalls(q, c).thread = q.thread
<1>. DEFINE Phases == {"idle", "found", "admitted", "running", "suspended"}
            Stati == {0, 200, 400, 403, 404}
            Ss == Sessions \cup {None}
            Hs == Headers
            Cs == Seq(Call)
            Ts == Threads \cup {None}
<1>1. RequestType = [phase : Phases, status : Stati, session : Ss, header : Hs, array : BOOLEAN, hides : BOOLEAN, calls : Cs, thread : Ts]
  BY DEF RequestType
<1>2. /\ {"admitted", "running", "suspended"} \subseteq Phases
      /\ Seq(Call) = Cs /\ Threads \subseteq Ts /\ None \in Ts
  OBVIOUS
<1>. HIDE DEF Phases, Stati, Ss, Hs, Cs, Ts
<1>3. Admitted(q) \in RequestType /\ Admitted(q).phase = "admitted" /\ Admitted(q).session = q.session
  BY <1>1, <1>2 DEF Admitted
<1>4. \A t \in Threads : Placed(q, t) \in RequestType /\ Placed(q, t).session = q.session /\ Placed(q, t).thread = t
  BY <1>1, <1>2 DEF Placed
<1>5. \A t \in Threads, c \in Seq(Call) :
        Started(q, t, c) \in RequestType /\ Started(q, t, c).session = q.session /\ Started(q, t, c).thread = t
  BY <1>1, <1>2 DEF Started
<1>6. Suspended(q) \in RequestType /\ Suspended(q).session = q.session /\ Suspended(q).phase = "suspended"
  BY <1>1, <1>2 DEF Suspended
<1>7. \A c \in Seq(Call) :
        /\ WithCalls(q, c) \in RequestType /\ WithCalls(q, c).phase = q.phase
        /\ WithCalls(q, c).session = q.session /\ WithCalls(q, c).thread = q.thread
  BY <1>1, <1>2 DEF WithCalls
<1>. QED
  BY <1>3, <1>4, <1>5, <1>6, <1>7

\* A request in service that takes its next call.
LEMMA ExecuteType ==
  ASSUME TInv, NEW r \in Requests, NEW method, Execute(r, method)
  PROVE  /\ request[r].session \in Sessions
         /\ Head(request[r].calls) \in Call
         /\ request' \in [Requests -> RequestType]
         /\ Served'
         /\ memory' \in {"sound", "stale", "down"}
<1>. DEFINE q == WithCalls(request[r], Tail(request[r].calls))
<1>1. request[r] \in RequestType /\ request[r].phase = "running" /\ request[r].calls # <<>>
  BY DEF TInv, TypeOK, Execute
<1>2. request[r].calls \in Seq(Call)
  BY <1>1 DEF RequestType
<1>3. Tail(request[r].calls) \in Seq(Call) /\ Head(request[r].calls) \in Call
  BY <1>1, <1>2
<1>4. q \in RequestType /\ q.phase = "running" /\ q.session = request[r].session /\ q.thread = request[r].thread
  BY <1>1, <1>3, Records
<1>5. request' = [request EXCEPT ![r] = q]
  BY DEF Execute, WithCalls
<1>6. request[r].session \in Sessions /\ request[r].thread \in Threads
  BY <1>1 DEF TInv, Served
<1>. HIDE DEF q
<1>7. request' \in [Requests -> RequestType] /\ Served'
  BY <1>4, <1>5, <1>6, RequestStep
<1>. QED
  BY <1>3, <1>6, <1>7, UseType DEF TInv, Execute

\* A step keeps the types.
LEMMA TypingStep == TInv /\ [Next]_vars => TInv'
<1>. SUFFICES ASSUME TInv, [Next]_vars PROVE TInv'
  OBVIOUS
<1>. USE DEF TInv
<1>1. ASSUME NEW r \in Requests, NEW status \in {200, 400, 403, 404}, Refuse(r, status) PROVE TInv'
  <2>1. request' = [request EXCEPT ![r] = Idle(status)]
    BY <1>1 DEF Refuse
  <2>2. Idle(status) \in RequestType /\ Idle(status).phase = "idle"
    BY IdleType
  <2>3. request' \in [Requests -> RequestType] /\ Served'
    BY <2>1, <2>2, RequestStep
  <2>. QED
    BY <1>1, <2>3 DEF Refuse, TypeOK
<1>2. ASSUME NEW r \in Requests, NEW s \in Sessions, NEW header \in Headers, NEW body \in Body,
             CreateSession(r, s, header, body) PROVE TInv'
  <2>. DEFINE q == [phase |-> "admitted", status |-> 0, session |-> s, header |-> header,
                    array |-> body.array, hides |-> Hides(body), calls |-> body.calls, thread |-> None]
              x == [Fresh EXCEPT !.state = "Requested", !.protocol = MaxProtocol]
  <2>1. request' = [request EXCEPT ![r] = q] /\ session' = [session EXCEPT ![s] = x]
    BY <1>2 DEF CreateSession, Accept
  <2>2. q \in RequestType /\ q.phase = "admitted" /\ q.session = s
    BY BodyType DEF RequestType
  <2>3. x \in SessionType
    BY ProtocolAssumption DEF Fresh, SessionType
  <2>. HIDE DEF q, x
  <2>4. request' \in [Requests -> RequestType] /\ Served'
    BY <2>1, <2>2, RequestStep
  <2>5. session' \in [Sessions -> SessionType]
    BY <2>1, <2>3, SessionStep
  <2>. QED
    BY <1>2, <2>4, <2>5 DEF CreateSession, TypeOK
<1>3. ASSUME NEW r \in Requests, NEW s \in Sessions, NEW header \in Headers, NEW body \in Body,
             FindSession(r, s, header, body) PROVE TInv'
  <2>. DEFINE q == [phase |-> "found", status |-> 0, session |-> s, header |-> header,
                    array |-> body.array, hides |-> Hides(body), calls |-> body.calls, thread |-> None]
  <2>1. request' = [request EXCEPT ![r] = q]
    BY <1>3 DEF FindSession, Accept
  <2>2. q \in RequestType /\ q.phase = "found" /\ q.session = s
    BY BodyType DEF RequestType
  <2>. HIDE DEF q
  <2>3. request' \in [Requests -> RequestType] /\ Served'
    BY <2>1, <2>2, RequestStep
  <2>. QED
    BY <1>3, <2>3 DEF FindSession, TypeOK
<1>4. ASSUME NEW r \in Requests, CheckProtocol(r) PROVE TInv'
  <2>. DEFINE p == Admitted(request[r])
              q == IF request[r].header = session[request[r].session].protocol THEN p ELSE Idle(400)
  <2>1. request' = [request EXCEPT ![r] = q]
    BY <1>4 DEF CheckProtocol, Admitted
  <2>2. request[r] \in RequestType /\ request[r].session \in Sessions
    BY <1>4 DEF CheckProtocol, TypeOK, Served
  <2>3. p \in RequestType /\ p.phase = "admitted" /\ p.session = request[r].session
    BY <2>2, Records
  <2>4. Idle(400) \in RequestType /\ Idle(400).phase = "idle"
    BY IdleType
  <2>5. q \in RequestType /\ (q.phase # "idle" => q.session \in Sessions) /\ q.phase # "running"
    BY <2>2, <2>3, <2>4
  <2>. HIDE DEF q
  <2>6. request' \in [Requests -> RequestType] /\ Served'
    BY <2>1, <2>5, RequestStep
  <2>. QED
    BY <1>4, <2>6, UseType DEF CheckProtocol, TypeOK
<1>5. ASSUME NEW r \in Requests, NEW t \in Threads, Join(r, t) PROVE TInv'
  <2>. DEFINE c == IF request[r].array /\ ~SupportBatchRequest(request[r].session)
                   THEN <<>> ELSE request[r].calls
              q == Started(request[r], t, c)
  <2>1. request' = [request EXCEPT ![r] = q]
    BY <1>5 DEF Join, Started
  <2>2. request[r] \in RequestType /\ request[r].session \in Sessions
    BY <1>5 DEF Join, TypeOK, Served
  <2>3. c \in Seq(Call)
    BY <2>2, EmptySeq DEF RequestType
  <2>. HIDE DEF c
  <2>4. q \in RequestType /\ q.session \in Sessions /\ q.thread \in Threads
    <3>1. q \in RequestType /\ q.session = request[r].session /\ q.thread = t
      BY <2>2, <2>3, Records
    <3>. QED
      BY <2>2, <3>1
  <2>. HIDE DEF q
  <2>5. request' \in [Requests -> RequestType] /\ Served'
    BY <2>1, <2>4, RequestStep
  <2>. QED
    BY <1>5, <2>2, <2>5, UseType, AddRemoveType DEF Join, TypeOK
<1>6. ASSUME NEW r \in Requests, NEW t \in Threads, Resume(r, t) PROVE TInv'
  <2>. DEFINE q == Placed(request[r], t)
  <2>1. request' = [request EXCEPT ![r] = q]
    BY <1>6 DEF Resume, Placed
  <2>2. request[r] \in RequestType /\ request[r].session \in Sessions
    BY <1>6 DEF Resume, TypeOK, Served
  <2>3. q \in RequestType /\ q.session \in Sessions /\ q.thread \in Threads
    BY <2>2, Records
  <2>. HIDE DEF q
  <2>4. request' \in [Requests -> RequestType] /\ Served'
    BY <2>1, <2>3, RequestStep
  <2>. QED
    BY <1>6, <2>2, <2>4, UseType, AddRemoveType DEF Resume, TypeOK
<1>7. ASSUME NEW r \in Requests, Yield(r) PROVE TInv'
  <2>. DEFINE q == Suspended(request[r])
  <2>1. request' = [request EXCEPT ![r] = q]
    BY <1>7 DEF Yield, Suspended
  <2>2. request[r] \in RequestType /\ request[r].session \in Sessions /\ request[r].thread \in Threads
    BY <1>7 DEF Yield, TypeOK, Served
  <2>3. q \in RequestType /\ q.session \in Sessions /\ q.phase # "running"
    BY <2>2, Records
  <2>. HIDE DEF q
  <2>4. request' \in [Requests -> RequestType] /\ Served'
    BY <2>1, <2>3, RequestStep
  <2>. QED
    BY <1>7, <2>2, <2>4, UseType, AddRemoveType DEF Yield, TypeOK
<1>8. ASSUME NEW r \in Requests, Ping(r) \/ Initialize(r) PROVE TInv'
  BY <1>8, ExecuteType DEF Ping, Initialize, Execute, TypeOK
<1>9. ASSUME NEW r \in Requests, NotificationsInitialized(r) PROVE TInv'
  <2>. DEFINE s == request[r].session
              x == [session[s] EXCEPT !.state = "Confirmed", !.protocol = request[r].header]
  <2>1. session' = session \/ (request[r].header # None /\ session' = [session EXCEPT ![s] = x])
    BY <1>9 DEF NotificationsInitialized
  <2>2. s \in Sessions /\ request[r] \in RequestType /\ session[s] \in SessionType
    BY <1>9, ExecuteType DEF NotificationsInitialized, TypeOK
  <2>3. request[r].header # None => request[r].header \in Protocol
    BY <2>2, ProtocolAssumption DEF RequestType, Headers
  <2>4. request[r].header # None => x \in SessionType
    BY <2>2, <2>3, SessionRecords
  <2>. HIDE DEF s, x
  <2>5. session' \in [Sessions -> SessionType]
    BY <2>1, <2>2, <2>4, SessionStep
  <2>. QED
    BY <1>9, <2>5, ExecuteType DEF NotificationsInitialized, Execute, TypeOK
<1>10. ASSUME NEW r \in Requests, LoggingSetLevel(r) PROVE TInv'
  <2>. DEFINE s == request[r].session
              on == Head(request[r].calls).arg # Emergency
              x == [session[s] EXCEPT !.hasBeenSet = on]
  <2>1. session' = [session EXCEPT ![s] = x]
    BY <1>10 DEF LoggingSetLevel
  <2>2. s \in Sessions /\ session[s] \in SessionType
    BY <1>10, ExecuteType DEF LoggingSetLevel, TypeOK
  <2>3. x \in SessionType
    BY <2>2, SessionRecords
  <2>4. callbacks' \in SUBSET Sessions
    BY <1>10, <2>2 DEF LoggingSetLevel, TypeOK
  <2>. HIDE DEF s, x
  <2>5. session' \in [Sessions -> SessionType]
    BY <2>1, <2>2, <2>3, SessionStep
  <2>. QED
    BY <1>10, <2>4, <2>5, ExecuteType DEF LoggingSetLevel, Execute, TypeOK
<1>11. ASSUME NEW r \in Requests, Finish(r) PROVE TInv'
  <2>1. request' = [request EXCEPT ![r] = Idle(200)]
    BY <1>11 DEF Finish
  <2>2. request' \in [Requests -> RequestType] /\ Served'
    <3>. DEFINE q == Idle(200)
    <3>1. q \in RequestType /\ q.phase = "idle"
      BY IdleType
    <3>. HIDE DEF q
    <3>. QED
      BY <2>1, <3>1, RequestStep DEF q
  <2>3. request[r].session \in Sessions /\ request[r].thread \in Threads
    BY <1>11 DEF Finish, Served
  <2>. QED
    BY <1>11, <2>2, <2>3, UseType, AddRemoveType DEF Finish, TypeOK
<1>12. ASSUME NEW r \in Requests, Crash(r) PROVE TInv'
  BY <1>12 DEF Crash, TypeOK, Served
<1>13. ASSUME NEW s \in Sessions, RemoveSession(s) PROVE TInv'
  BY <1>13 DEF RemoveSession, Destroy, TypeOK, Served
<1>14. CASE JanitorSweep
  BY <1>14, TimeAssumption DEF JanitorSweep, Destroy, TypeOK, Served
<1>15. CASE Tick
  BY <1>15, TimeAssumption DEF Tick, TypeOK, Served
<1>16. CASE UNCHANGED vars
  BY <1>16 DEF vars, TypeOK, Served
<1>. QED
  BY <1>1, <1>2, <1>3, <1>4, <1>5, <1>6, <1>7, <1>8, <1>9, <1>10, <1>11, <1>12, <1>13, <1>14,
     <1>15, <1>16
     DEF Next, Receive, RefuseHeaders, RefuseSessionId, RefuseUnknownSession, RefuseUnconfirmed,
         Progress, RunCall, Start, Down

\* The first state is well typed.
LEMMA InitialTypes == Init => TInv
  BY IdleType, ProtocolAssumption, TimeAssumption
     DEF Init, TInv, TypeOK, Served, Fresh, SessionType

\* Every state is well typed, and every request in service has a session and a thread.
THEOREM Typing == Spec => []TInv
<1>1. Init => TInv
  BY InitialTypes
<1>2. TInv /\ [Next]_vars => TInv'
  BY TypingStep
<1>. QED
  BY <1>1, <1>2, PTL DEF Spec

\* The types alone: whatever is asked of the server, its variables stay in them.
THEOREM TypeCorrect == Spec => []TypeOK
  BY Typing, PTL DEF TInv

----------------------------------------------------------------------------
(* What the steps leave alone.                                             *)

\* Next without its grouping.
LEMMA StepCases ==
  ASSUME [Next]_vars
  PROVE  \/ UNCHANGED vars \/ JanitorSweep \/ Tick
         \/ \E s \in Sessions : RemoveSession(s)
         \/ \E r \in Requests :
              \/ \E status \in {200, 400, 403, 404} : Refuse(r, status)
              \/ \E s \in Sessions, header \in Headers, body \in Body :
                   CreateSession(r, s, header, body) \/ FindSession(r, s, header, body)
              \/ CheckProtocol(r) \/ Yield(r) \/ Finish(r) \/ Crash(r)
              \/ \E t \in Threads : Join(r, t) \/ Resume(r, t)
              \/ Ping(r) \/ Initialize(r) \/ NotificationsInitialized(r) \/ LoggingSetLevel(r)
  BY DEF Next, Receive, RefuseHeaders, RefuseSessionId, RefuseUnknownSession, RefuseUnconfirmed,
         Progress, RunCall, Start, Down

\* Steps after which every session object has the fields it had, its threads aside.
SameSessions ==
  \A s \in Sessions : /\ session'[s].state = session[s].state
                      /\ session'[s].protocol = session[s].protocol
                      /\ session'[s].hasBeenSet = session[s].hasBeenSet

LEMMA AddRemoveSame ==
  ASSUME TypeOK, NEW s \in Sessions, NEW t \in Threads, RequestAdd(s, t) \/ RequestRemove(s, t)
  PROVE  SameSessions
  BY DEF TypeOK, SessionType, RequestAdd, RequestRemove, SameSessions

\* Steps of requests that touch neither the map nor the callbacks, and of the sessions
\* the threads at most.
LEMMA QuietSteps ==
  ASSUME TInv, NEW r \in Requests,
         \/ \E status \in {200, 400, 403, 404} : Refuse(r, status)
         \/ \E s \in Sessions, header \in Headers, body \in Body : FindSession(r, s, header, body)
         \/ CheckProtocol(r) \/ Yield(r) \/ Finish(r) \/ Crash(r)
         \/ \E t \in Threads : Join(r, t) \/ Resume(r, t)
         \/ Ping(r) \/ Initialize(r)
  PROVE  /\ SameSessions /\ UNCHANGED <<sessionMap, age, callbacks, sweepIn>>
         /\ memory' = "sound" => memory = "sound"
<1>1. CASE \/ \E status \in {200, 400, 403, 404} : Refuse(r, status)
           \/ \E s \in Sessions, header \in Headers, body \in Body : FindSession(r, s, header, body)
           \/ Crash(r)
  BY <1>1 DEF Refuse, FindSession, Crash, SameSessions
<1>2. CASE CheckProtocol(r) \/ Ping(r) \/ Initialize(r)
  BY <1>2 DEF CheckProtocol, Ping, Initialize, Execute, Use, SameSessions
<1>3. CASE Yield(r) \/ Finish(r)
  <2>1. request[r].session \in Sessions /\ request[r].thread \in Threads
    BY <1>3 DEF TInv, Served, Yield, Finish
  <2>. QED
    BY <1>3, <2>1, AddRemoveSame DEF TInv, Yield, Finish, Use
<1>4. CASE \E t \in Threads : Join(r, t) \/ Resume(r, t)
  <2>1. request[r].session \in Sessions
    BY <1>4 DEF TInv, Served, Join, Resume
  <2>. QED
    BY <1>4, <2>1, AddRemoveSame DEF TInv, Join, Resume, Use
<1>. QED
  BY <1>1, <1>2, <1>3, <1>4

----------------------------------------------------------------------------
(* Callbacks.                                                              *)

\* Only constructed sessions are in the map.
Constructed == \A s \in sessionMap : session[s].state # "Invalid"

CInv == Constructed /\ CallbacksMatchSessions

\* A step keeps the callbacks in step with the sessions.
LEMMA CallbackStep == TInv /\ CInv /\ [Next]_vars => CInv'
<1>. SUFFICES ASSUME TInv, CInv, [Next]_vars PROVE CInv'
  OBVIOUS
<1>. USE DEF CInv, Constructed, CallbacksMatchSessions
<1>1. CASE UNCHANGED vars
  BY <1>1 DEF vars
<1>2. ASSUME NEW r \in Requests, NEW s \in Sessions, NEW header \in Headers, NEW body \in Body,
             CreateSession(r, s, header, body) PROVE CInv'
  BY <1>2 DEF CreateSession, Fresh, TInv, TypeOK
<1>3. ASSUME NEW r \in Requests, NotificationsInitialized(r) PROVE CInv'
  <2>1. \A s \in Sessions : /\ session'[s].hasBeenSet = session[s].hasBeenSet
                            /\ session[s].state # "Invalid" => session'[s].state # "Invalid"
    BY <1>3 DEF NotificationsInitialized, TInv, TypeOK, SessionType
  <2>. QED
    BY <1>3, <2>1 DEF NotificationsInitialized, Execute, Use, TInv, TypeOK
<1>4. ASSUME NEW r \in Requests, LoggingSetLevel(r) PROVE CInv'
  <2>. DEFINE s == request[r].session
              on == Head(request[r].calls).arg # Emergency
  <2>1. s \in Sessions
    BY <1>4, ExecuteType DEF LoggingSetLevel
  <2>2. \A x \in Sessions : /\ session'[x].state = session[x].state
                            /\ session'[x].hasBeenSet = IF x = s THEN on ELSE session[x].hasBeenSet
    BY <1>4, <2>1 DEF LoggingSetLevel, TInv, TypeOK, SessionType
  <2>3. memory' = "sound" => memory = "sound" /\ s \in sessionMap
    BY <1>4 DEF LoggingSetLevel, Execute, Use
  <2>4. /\ sessionMap' = sessionMap
        /\ callbacks' = (IF session[s].hasBeenSet THEN callbacks \ {s} ELSE callbacks)
                          \cup (IF on THEN {s} ELSE {})
    BY <1>4 DEF LoggingSetLevel, Execute
  <2>. HIDE DEF s, on
  <2>. QED
    BY <2>1, <2>2, <2>3, <2>4 DEF TInv, TypeOK
<1>5. ASSUME NEW gone \in SUBSET Sessions, Destroy(gone), UNCHANGED <<session, memory>> PROVE CInv'
  BY <1>5 DEF Destroy
<1>6. ASSUME NEW s \in Sessions, RemoveSession(s) PROVE CInv'
  BY <1>6, <1>5 DEF RemoveSession
<1>7. CASE JanitorSweep
  BY <1>7, <1>5 DEF JanitorSweep, TInv, TypeOK
<1>8. CASE Tick
  BY <1>8 DEF Tick
<1>9. ASSUME SameSessions, UNCHANGED <<sessionMap, callbacks>>, memory' = "sound" => memory = "sound"
      PROVE  CInv'
  BY <1>9 DEF SameSessions, TInv, TypeOK
<1>. QED
  BY <1>1, <1>2, <1>3, <1>4, <1>6, <1>7, <1>8, <1>9, StepCases, QuietSteps

\* At first nothing is registered.
LEMMA InitialCallbacks == Init => CInv
  BY DEF Init, Fresh, CInv, Constructed, CallbacksMatchSessions

\* The induction needs that a session being constructed was not in the map before.
LEMMA CallbackInvariant == Spec => []CInv
<1>1. Init => CInv
  BY InitialCallbacks
<1>2. TInv /\ CInv /\ [Next]_vars => CInv'
  BY CallbackStep
<1>. QED
  BY <1>1, <1>2, Typing, PTL DEF Spec

\* The logging library's callbacks are those of the live sessions with logging set,
\* as long as no destroyed session was used.
THEOREM CallbacksMatch == Spec => []CallbacksMatchSessions
  BY CallbackInvariant, PTL DEF CInv

----------------------------------------------------------------------------
(* The janitor's bounds.                                                   *)

\* Age and the time to the next sweep grow and shrink together.
AInv ==
  \A s \in sessionMap :
    /\ age[s] + sweepIn <= SessionTimeout + JanitorCheckTime
    /\ session[s].state = "Requested" => age[s] + sweepIn <= InitHandShake + JanitorCheckTime

\* An unfinished handshake lasts initHandShake + janitorCheckTime at most, a session
\* sessionTimeout + janitorCheckTime: what a sweep leaves is too young, and the next
\* sweep is janitorCheckTime away.
THEOREM AgesBounded == Spec => []SessionsAgeOut
<1>1. Init => AInv
  BY DEF Init, AInv
<1>2. TInv /\ TInv' /\ AInv /\ [Next]_vars => AInv'
  <2>. SUFFICES ASSUME TInv, TInv', AInv, [Next]_vars PROVE AInv'
    OBVIOUS
  <2>. USE TimeAssumption DEF AInv
  <2>1. CASE UNCHANGED vars
    BY <2>1 DEF vars
  <2>2. ASSUME NEW r \in Requests, NEW s \in Sessions, NEW header \in Headers, NEW body \in Body,
               CreateSession(r, s, header, body) PROVE AInv'
    BY <2>2 DEF CreateSession, TInv, TypeOK
  <2>3. ASSUME NEW r \in Requests, NotificationsInitialized(r) PROVE AInv'
    <3>1. \A s \in Sessions : session'[s].state \in {session[s].state, "Confirmed"}
      BY <2>3 DEF NotificationsInitialized, TInv, TypeOK, SessionType
    <3>. QED
      BY <2>3, <3>1 DEF NotificationsInitialized, Execute, TInv, TypeOK
  <2>4. ASSUME NEW r \in Requests, LoggingSetLevel(r) PROVE AInv'
    <3>1. \A s \in Sessions : session'[s].state = session[s].state
      BY <2>4 DEF LoggingSetLevel, TInv, TypeOK, SessionType
    <3>. QED
      BY <2>4, <3>1 DEF LoggingSetLevel, Execute, TInv, TypeOK
  <2>5. ASSUME NEW s \in Sessions, RemoveSession(s) PROVE AInv'
    BY <2>5 DEF RemoveSession, Destroy, TInv, TypeOK
  <2>6. CASE JanitorSweep
    <3>. SUFFICES ASSUME NEW s \in sessionMap'
                  PROVE  /\ age'[s] + sweepIn' <= SessionTimeout + JanitorCheckTime
                         /\ session'[s].state = "Requested" =>
                              age'[s] + sweepIn' <= InitHandShake + JanitorCheckTime
      OBVIOUS
    <3>1. s \in sessionMap /\ s \in Sessions /\ ~HasTimedOut(s)
      BY <2>6 DEF JanitorSweep, Destroy, TInv, TypeOK
    <3>2. age'[s] = age[s] /\ session' = session /\ sweepIn' = JanitorCheckTime
      BY <2>6, <3>1 DEF JanitorSweep, Destroy
    <3>3. age[s] \in Nat
      BY <3>1 DEF TInv, TypeOK
    <3>. QED
      BY <3>1, <3>2, <3>3 DEF HasTimedOut
  <2>7. CASE Tick
    BY <2>7 DEF Tick, TInv, TypeOK
  <2>8. ASSUME SameSessions, UNCHANGED <<sessionMap, age, sweepIn>> PROVE AInv'
    BY <2>8 DEF SameSessions, TInv, TypeOK
  <2>. QED
    BY <2>1, <2>2, <2>3, <2>4, <2>5, <2>6, <2>7, <2>8, StepCases, QuietSteps
<1>3. TInv /\ AInv => SessionsAgeOut
  BY TimeAssumption DEF TInv, TypeOK, AInv, SessionsAgeOut
<1>. QED
  BY <1>1, <1>2, <1>3, Typing, PTL DEF Spec

----------------------------------------------------------------------------
(* The handshake.                                                          *)

\* A session has the server's newest version until it is confirmed.
NewestAtFirst ==
  \A s \in Sessions : session[s].state = "Requested" => session[s].protocol = MaxProtocol

AllEarly(calls) == \A i \in DOMAIN calls : calls[i].method \in Early

\* Every request in service refers to a session that was constructed.  An array is taken
\* apart when the request joins, if at all.  What a request still has to run on a session
\* that is not confirmed needs no handshake, where arrays are refused.
HReq(r) ==
  /\ request[r].phase # "idle" => session[request[r].session].state # "Invalid"
  /\ request[r].array => request[r].phase \in {"found", "admitted"}
  /\ /\ MaxProtocol >= FirstWithoutBatch
     /\ request[r].phase # "idle" /\ ~request[r].hides /\ ~request[r].array
     /\ session[request[r].session].state = "Requested"
     => AllEarly(request[r].calls)

HInv == NewestAtFirst /\ \A r \in Requests : HReq(r)

\* Sessions only move on.
Forward ==
  \A s \in Sessions : /\ session[s].state # "Invalid" => session'[s].state # "Invalid"
                      /\ session[s].state = "Confirmed" => session'[s].state = "Confirmed"

\* What is requested and was constructed before was requested before.
LEMMA StillRequested ==
  ASSUME TInv, Forward, NEW s \in Sessions, session[s].state # "Invalid", session'[s].state = "Requested"
  PROVE  session[s].state = "Requested"
  BY DEF TInv, TypeOK, SessionType, Forward

\* One request steps; what the others wait for stays allowed.
LEMMA OtherRequests ==
  ASSUME TInv, HInv, NEW r \in Requests, NEW q, request' = [request EXCEPT ![r] = q],
         Forward, HReq(r)'
  PROVE  \A p \in Requests : HReq(p)'
<1>. SUFFICES ASSUME NEW p \in Requests, p # r PROVE HReq(p)'
  OBVIOUS
<1>1. request'[p] = request[p] /\ HReq(p)
  BY DEF TInv, TypeOK, HInv
<1>2. CASE request[p].phase = "idle"
  BY <1>1, <1>2 DEF HReq
<1>3. CASE request[p].phase # "idle"
  <2>1. request[p].session \in Sessions
    BY <1>3 DEF TInv, Served
  <2>2. /\ session'[request[p].session].state # "Invalid"
        /\ session'[request[p].session].state = "Requested" => session[request[p].session].state = "Requested"
    BY <1>1, <1>3, <2>1, StillRequested DEF HReq, Forward
  <2>. QED
    BY <1>1, <1>3, <2>2 DEF HReq
<1>. QED
  BY <1>2, <1>3

LEMMA SingleCall ==
  ASSUME NEW body \in Body, ~body.array
  PROVE  DOMAIN body.calls = {1} /\ body.calls[1] \in Call
<1>1. body \in [array : {FALSE}, calls : [1..1 -> Call], found : Found]
  <2>1. body \notin [array : {TRUE}, calls : UNION {[1..n -> Call] : n \in 1..MaxBatch}, found : Found]
    OBVIOUS
  <2>. QED
    BY <2>1 DEF Body
<1>2. body.calls \in [1..1 -> Call]
  BY <1>1
<1>. QED
  BY <1>2

\* A single call that hides nothing needs no handshake if what is found needs none.
LEMMA FoundIsCalled ==
  ASSUME NEW body \in Body, ~body.array, ~Hides(body), body.found \in Early
  PROVE  AllEarly(body.calls)
  BY SingleCall DEF Hides, AllEarly

LEMMA TailCalls ==
  ASSUME NEW c \in Seq(Call), c # <<>>
  PROVE  /\ 1 \in DOMAIN c /\ Head(c) = c[1]
         /\ \A i \in DOMAIN Tail(c) : i + 1 \in DOMAIN c /\ Tail(c)[i] = c[i + 1]
<1>1. /\ Len(c) \in Nat \ {0} /\ DOMAIN c = 1..Len(c)
      /\ Tail(c) \in Seq(Call) /\ Len(Tail(c)) = Len(c) - 1
      /\ \A i \in 1..Len(Tail(c)) : Tail(c)[i] = c[i + 1]
  BY HeadTailProperties, LenProperties, EmptySeq
<1>2. DOMAIN Tail(c) = 1..Len(Tail(c))
  BY <1>1, LenProperties
<1>3. Head(c) = c[1]
  OBVIOUS
<1>. QED
  BY <1>1, <1>2, <1>3

\* A request that takes its next call: the rest is as allowed as before.
LEMMA ExecuteAllowed ==
  ASSUME TInv, HInv, NEW r \in Requests, NEW method, Execute(r, method), Forward
  PROVE  HReq(r)' /\ session[request[r].session].state # "Invalid"
<1>. DEFINE c == request[r].calls
            s == request[r].session
<1>1. /\ request[r].phase = "running" /\ c # <<>>
      /\ request'[r] = [request[r] EXCEPT !.calls = Tail(c)]
      /\ request[r] \in RequestType
  BY DEF Execute, TInv, TypeOK
<1>2. c \in Seq(Call) /\ s \in Sessions
  BY <1>1 DEF RequestType, TInv, Served
<1>3. /\ request'[r].calls = Tail(c) /\ request'[r].phase = "running"
      /\ request'[r].session = s /\ request'[r].array = request[r].array
      /\ request'[r].hides = request[r].hides
  BY <1>1 DEF RequestType
<1>4. AllEarly(c) => AllEarly(Tail(c))
  BY <1>1, <1>2, TailCalls DEF AllEarly
<1>5. HReq(r) /\ session[s].state # "Invalid"
  BY <1>1 DEF HInv, HReq
<1>6. /\ session'[s].state # "Invalid"
      /\ session'[s].state = "Requested" => session[s].state = "Requested"
  BY <1>2, <1>5, StillRequested DEF Forward
<1>. HIDE DEF c, s
<1>7. HReq(r)'
  BY <1>1, <1>3, <1>4, <1>5, <1>6 DEF HReq, c, s
<1>. QED
  BY <1>5, <1>7 DEF s

\* The induction: a session keeps MaxProtocol until it is confirmed, so till then arrays are
\* refused whole; and of a single call validateRequest saw the method, or it hides.
LEMMA HandshakeStep == TInv /\ CInv /\ HInv /\ [Next]_vars => HInv'
<1>. USE DEF HInv
<1>. SUFFICES ASSUME TInv, CInv, HInv, [Next]_vars PROVE HInv'
  OBVIOUS
<1>0. ASSUME SameSessions PROVE NewestAtFirst' /\ Forward
  BY <1>0 DEF SameSessions, NewestAtFirst, Forward
<1>1. ASSUME UNCHANGED <<session, request>> PROVE HInv'
  BY <1>1 DEF HReq, NewestAtFirst
<1>2. ASSUME NEW r \in Requests, NEW status,
             request' = [request EXCEPT ![r] = Idle(status)] PROVE HReq(r)'
  BY <1>2 DEF TInv, TypeOK, Idle, HReq
<1>3. ASSUME NEW r \in Requests, NEW status, Refuse(r, status) PROVE HInv'
  <2>1. SameSessions
    BY <1>3 DEF Refuse, SameSessions
  <2>. QED
    BY <1>0, <1>2, <1>3, <2>1, OtherRequests DEF Refuse
<1>4. ASSUME NEW r \in Requests, NEW s \in Sessions, NEW header \in Headers, NEW body \in Body,
             CreateSession(r, s, header, body) PROVE HInv'
  <2>1. \A x \in Sessions \ {s} : session'[x] = session[x]
    BY <1>4 DEF CreateSession, TInv, TypeOK
  <2>2. /\ session'[s].state = "Requested" /\ session'[s].protocol = MaxProtocol
        /\ session[s].state = "Invalid"
    BY <1>4 DEF CreateSession, Fresh, TInv, TypeOK
  <2>3. Forward /\ NewestAtFirst'
    BY <2>1, <2>2 DEF Forward, NewestAtFirst
  <2>4. /\ request'[r].phase = "admitted" /\ request'[r].session = s
        /\ request'[r].array = body.array /\ request'[r].calls = body.calls
        /\ request'[r].hides = Hides(body) /\ body.found \in Early
    BY <1>4 DEF CreateSession, Accept, Early, TInv, TypeOK
  <2>5. HReq(r)'
    BY <2>2, <2>4, FoundIsCalled DEF HReq
  <2>. QED
    BY <1>4, <2>3, <2>5, OtherRequests DEF CreateSession, Accept
<1>5. ASSUME NEW r \in Requests, NEW s \in Sessions, NEW header \in Headers, NEW body \in Body,
             FindSession(r, s, header, body) PROVE HInv'
  <2>1. SameSessions /\ session' = session
    BY <1>5 DEF FindSession, SameSessions
  <2>2. /\ request'[r].phase = "found" /\ request'[r].session = s
        /\ request'[r].array = body.array /\ request'[r].calls = body.calls
        /\ request'[r].hides = Hides(body)
        /\ session[s].state = "Requested" => body.found \in Early
        /\ session[s].state # "Invalid"
    BY <1>5 DEF FindSession, Accept, Early, TInv, TypeOK, CInv, Constructed
  <2>3. HReq(r)'
    BY <2>1, <2>2, FoundIsCalled DEF HReq
  <2>. QED
    BY <1>0, <1>5, <2>1, <2>3, OtherRequests DEF FindSession, Accept
<1>6. ASSUME NEW r \in Requests, CheckProtocol(r) PROVE HInv'
  <2>. DEFINE s == request[r].session
  <2>1. SameSessions /\ session' = session
    BY <1>6 DEF CheckProtocol, SameSessions
  <2>2. s \in Sessions /\ request[r] \in RequestType /\ request[r].phase = "found" /\ HReq(r)
    BY <1>6 DEF CheckProtocol, TInv, TypeOK, Served
  <2>3. CASE request[r].header = session[s].protocol
    <3>. DEFINE q == [request[r] EXCEPT !.phase = "admitted"]
    <3>1. request' = [request EXCEPT ![r] = q]
      BY <1>6, <2>3 DEF CheckProtocol
    <3>2. request'[r] = q
      BY <3>1 DEF TInv, TypeOK
    <3>3. /\ q.phase = "admitted" /\ q.session = s /\ q.array = request[r].array
          /\ q.calls = request[r].calls /\ q.hides = request[r].hides
      BY <2>2 DEF RequestType
    <3>. HIDE DEF q
    <3>4. HReq(r)'
      BY <2>1, <2>2, <3>2, <3>3 DEF HReq
    <3>. QED
      BY <1>0, <2>1, <3>1, <3>4, OtherRequests
  <2>4. CASE request[r].header # session[s].protocol
    <3>1. request' = [request EXCEPT ![r] = Idle(400)]
      BY <1>6, <2>4 DEF CheckProtocol
    <3>2. HReq(r)'
      BY <1>2, <3>1
    <3>. QED
      BY <1>0, <2>1, <3>1, <3>2, OtherRequests
  <2>. QED
    BY <2>3, <2>4
<1>7. ASSUME NEW r \in Requests, NEW t \in Threads, Join(r, t) PROVE HInv'
  <2>. DEFINE s == request[r].session
              c == IF request[r].array /\ ~SupportBatchRequest(s) THEN <<>> ELSE request[r].calls
              q == [request[r] EXCEPT !.phase = "running", !.thread = t, !.array = FALSE, !.calls = c]
  <2>1. s \in Sessions /\ request[r] \in RequestType /\ request[r].phase = "admitted" /\ HReq(r)
    BY <1>7 DEF Join, TInv, TypeOK, Served
  <2>2. SameSessions
    BY <1>7, <2>1, AddRemoveSame DEF Join, TInv
  <2>3. request' = [request EXCEPT ![r] = q]
    BY <1>7 DEF Join
  <2>4. MaxProtocol >= FirstWithoutBatch /\ session[s].state = "Requested" /\ request[r].array => AllEarly(c)
    BY <2>1, ProtocolAssumption DEF SupportBatchRequest, NewestAtFirst, AllEarly
  <2>5. ~request[r].array => c = request[r].calls
    OBVIOUS
  <2>6. /\ q.phase = "running" /\ q.session = s /\ q.calls = c /\ q.array = FALSE
        /\ q.hides = request[r].hides
    BY <2>1 DEF RequestType
  <2>7. request'[r] = q
    BY <2>3 DEF TInv, TypeOK
  <2>. HIDE DEF c, q
  <2>8. HReq(r)'
    BY <2>1, <2>2, <2>4, <2>5, <2>6, <2>7 DEF HReq, SameSessions
  <2>. QED
    BY <1>0, <2>2, <2>3, <2>8, OtherRequests
<1>8. ASSUME NEW r \in Requests, NEW t \in Threads, Resume(r, t) PROVE HInv'
  <2>. DEFINE q == [request[r] EXCEPT !.phase = "running", !.thread = t]
  <2>1. /\ request[r].session \in Sessions /\ request[r] \in RequestType
        /\ request[r].phase = "suspended" /\ HReq(r)
    BY <1>8 DEF Resume, TInv, TypeOK, Served
  <2>2. SameSessions
    BY <1>8, <2>1, AddRemoveSame DEF Resume, TInv
  <2>3. request' = [request EXCEPT ![r] = q]
    BY <1>8 DEF Resume
  <2>4. /\ q.phase = "running" /\ q.session = request[r].session /\ q.array = request[r].array
        /\ q.calls = request[r].calls /\ q.hides = request[r].hides
    BY <2>1 DEF RequestType
  <2>5. request'[r] = q
    BY <2>3 DEF TInv, TypeOK
  <2>. HIDE DEF q
  <2>6. HReq(r)'
    BY <2>1, <2>2, <2>4, <2>5 DEF HReq, SameSessions
  <2>. QED
    BY <1>0, <2>2, <2>3, <2>6, OtherRequests
<1>9. ASSUME NEW r \in Requests, Yield(r) PROVE HInv'
  <2>. DEFINE q == [request[r] EXCEPT !.phase = "suspended", !.thread = None]
  <2>1. /\ request[r].session \in Sessions /\ request[r].thread \in Threads
        /\ request[r] \in RequestType /\ request[r].phase = "running" /\ HReq(r)
    BY <1>9 DEF Yield, TInv, TypeOK, Served
  <2>2. SameSessions
    BY <1>9, <2>1, AddRemoveSame DEF Yield, TInv
  <2>3. request' = [request EXCEPT ![r] = q]
    BY <1>9 DEF Yield
  <2>4. /\ q.phase = "suspended" /\ q.session = request[r].session /\ q.array = request[r].array
        /\ q.calls = request[r].calls /\ q.hides = request[r].hides
    BY <2>1 DEF RequestType
  <2>5. request'[r] = q
    BY <2>3 DEF TInv, TypeOK
  <2>. HIDE DEF q
  <2>6. HReq(r)'
    BY <2>1, <2>2, <2>4, <2>5 DEF HReq, SameSessions
  <2>. QED
    BY <1>0, <2>2, <2>3, <2>6, OtherRequests
<1>10. ASSUME NEW r \in Requests, Finish(r) PROVE HInv'
  <2>1. request[r].session \in Sessions /\ request[r].thread \in Threads
    BY <1>10 DEF Finish, TInv, Served
  <2>2. SameSessions
    BY <1>10, <2>1, AddRemoveSame DEF Finish, TInv
  <2>3. request' = [request EXCEPT ![r] = Idle(200)]
    BY <1>10 DEF Finish
  <2>. QED
    BY <1>0, <1>2, <2>2, <2>3, OtherRequests
<1>11. ASSUME NEW r \in Requests, Ping(r) \/ Initialize(r) PROVE HInv'
  <2>1. SameSessions
    BY <1>11 DEF Ping, Initialize, SameSessions
  <2>2. HReq(r)'
    BY <1>0, <1>11, <2>1, ExecuteAllowed DEF Ping, Initialize
  <2>. QED
    BY <1>0, <1>11, <2>1, <2>2, OtherRequests DEF Ping, Initialize, Execute
<1>12. ASSUME NEW r \in Requests, NotificationsInitialized(r) PROVE HInv'
  <2>. DEFINE s == request[r].session
  <2>1. s \in Sessions
    BY <1>12, ExecuteType DEF NotificationsInitialized
  <2>2. \A x \in Sessions : session'[x] = session[x] \/ session'[x].state = "Confirmed"
    BY <1>12, <2>1 DEF NotificationsInitialized, TInv, TypeOK, SessionType
  <2>3. Forward /\ NewestAtFirst'
    BY <2>2 DEF Forward, NewestAtFirst
  <2>4. HReq(r)'
    BY <1>12, <2>3, ExecuteAllowed DEF NotificationsInitialized
  <2>. QED
    BY <1>12, <2>3, <2>4, OtherRequests DEF NotificationsInitialized, Execute
<1>13. ASSUME NEW r \in Requests, LoggingSetLevel(r) PROVE HInv'
  <2>1. request[r].session \in Sessions
    BY <1>13, ExecuteType DEF LoggingSetLevel
  <2>2. \A x \in Sessions : /\ session'[x].state = session[x].state
                            /\ session'[x].protocol = session[x].protocol
    BY <1>13, <2>1 DEF LoggingSetLevel, TInv, TypeOK, SessionType
  <2>3. Forward /\ NewestAtFirst'
    BY <2>2 DEF Forward, NewestAtFirst
  <2>4. HReq(r)'
    BY <1>13, <2>3, ExecuteAllowed DEF LoggingSetLevel
  <2>. QED
    BY <1>13, <2>3, <2>4, OtherRequests DEF LoggingSetLevel, Execute
<1>14. CASE (\E r \in Requests : Crash(r)) \/ (\E s \in Sessions : RemoveSession(s))
              \/ JanitorSweep \/ Tick \/ UNCHANGED vars
  BY <1>1, <1>14 DEF Crash, RemoveSession, JanitorSweep, Tick, vars
<1>. QED
  BY <1>3, <1>4, <1>5, <1>6, <1>7, <1>8, <1>9, <1>10, <1>11, <1>12, <1>13, <1>14, StepCases

\* At first nobody waits for a handshake.
LEMMA InitialHandshake == Init => HInv
  BY DEF Init, Idle, Fresh, HInv, HReq, NewestAtFirst

LEMMA HandshakeInvariant == Spec => []HInv
<1>1. Init => HInv
  BY InitialHandshake
<1>2. TInv /\ CInv /\ HInv /\ [Next]_vars => HInv'
  BY HandshakeStep
<1>. QED
  BY <1>1, <1>2, Typing, CallbackInvariant, PTL DEF Spec

LEMMA NextIsEarly ==
  ASSUME MaxProtocol >= FirstWithoutBatch, TInv, HInv
  PROVE  HandshakeComesFirst
<1>. SUFFICES ASSUME NEW r \in Requests, request[r].phase = "running", ~request[r].hides,
                     request[r].calls # <<>>, session[request[r].session].state = "Requested"
              PROVE  Head(request[r].calls).method \in Early
  BY DEF HandshakeComesFirst
<1>1. AllEarly(request[r].calls)
  BY DEF HInv, HReq
<1>2. request[r].calls \in Seq(Call)
  BY DEF TInv, TypeOK, RequestType
<1>. QED
  BY <1>1, <1>2, TailCalls DEF AllEarly

\* Where the server's newest version has no batches, no call that needs the handshake runs
\* before it, unless the text of its body hides it, for any sessions, requests and bodies:
\* neither behind other calls nor because the session changed since it was looked up.
THEOREM HandshakeFirst ==
  ASSUME MaxProtocol >= FirstWithoutBatch
  PROVE  Spec => []HandshakeComesFirst
<1>1. TInv /\ HInv => HandshakeComesFirst
  BY NextIsEarly
<1>. QED
  BY <1>1, Typing, HandshakeInvariant, PTL

----------------------------------------------------------------------------
(* MCPServer implements SessionLifecycle: every step is one lifecycle step *)
(* or none, whatever is in the texts and bodies.                           *)

stages == [s \in Sessions |-> Stage(s)]
listening == callbacks \cap sessionMap

LEMMA StageValue ==
  ASSUME TInv, NEW s \in Sessions
  PROVE  /\ session[s].state = "Invalid" => Stage(s) = "none"
         /\ session[s].state # "Invalid" /\ s \notin sessionMap => Stage(s) = "gone"
         /\ session[s].state = "Requested" /\ s \in sessionMap => Stage(s) = "requested"
         /\ session[s].state = "Confirmed" /\ s \in sessionMap => Stage(s) = "confirmed"
         /\ session[s].state \in {"Invalid", "Requested", "Confirmed"}
  BY DEF TInv, TypeOK, SessionType, Stage

\* The same of the next state.
LEMMA NextStageValue ==
  ASSUME TInv', NEW s \in Sessions
  PROVE  /\ session'[s].state = "Invalid" => Stage(s)' = "none"
         /\ session'[s].state # "Invalid" /\ s \notin sessionMap' => Stage(s)' = "gone"
         /\ session'[s].state = "Requested" /\ s \in sessionMap' => Stage(s)' = "requested"
         /\ session'[s].state = "Confirmed" /\ s \in sessionMap' => Stage(s)' = "confirmed"
         /\ session'[s].state \in {"Invalid", "Requested", "Confirmed"}
  BY DEF TInv, TypeOK, SessionType, Stage

\* A step of the lifecycle, or none.
LStep == [Lifecycle!Next]_<<stages, listening>>

LEMMA NoLifecycleStep ==
  ASSUME \A s \in Sessions : session'[s].state = session[s].state,
         UNCHANGED <<sessionMap, listening>>
  PROVE  LStep
<1>1. \A s \in Sessions : Stage(s)' = Stage(s)
  BY DEF Stage
<1>. QED
  BY <1>1 DEF LStep, stages

\* One session moves on to another stage.
LEMMA OneStage ==
  ASSUME NEW s \in Sessions,
         \A x \in Sessions : x # s => Stage(x)' = Stage(x)
  PROVE  stages' = [stages EXCEPT ![s] = Stage(s)']
  BY DEF stages

LEMMA EndStep ==
  ASSUME TInv, TInv', CInv, NEW gone \in SUBSET Sessions, Destroy(gone), UNCHANGED session
  PROVE  LStep
<1>. DEFINE ended == gone \cap sessionMap
<1>1. \A s \in Sessions : Stage(s)' = IF s \in ended THEN "gone" ELSE Stage(s)
  BY StageValue, NextStageValue DEF Destroy, CInv, Constructed
<1>2. stages' = [s \in Sessions |-> IF s \in ended THEN "gone" ELSE stages[s]]
  BY <1>1 DEF stages
<1>3. listening' = listening \ ended
  BY DEF Destroy, listening
<1>4. ended \in SUBSET Lifecycle!Live
  BY StageValue DEF Lifecycle!Live, CInv, Constructed
<1>5. Lifecycle!End(ended)
  BY <1>2, <1>3 DEF Lifecycle!End, stages, listening
<1>. QED
  BY <1>4, <1>5 DEF LStep, Lifecycle!Next

\* What the two executors that change a session find, and what they leave alone.
LEMMA ConfirmedStep ==
  ASSUME TInv, HInv, NEW r \in Requests, NotificationsInitialized(r)
  PROVE  LET s == request[r].session IN
         /\ s \in Sessions /\ session[s].state # "Invalid"
         /\ UNCHANGED <<sessionMap, callbacks>>
         /\ \/ session' = session
            \/ \A x \in Sessions : session'[x].state = IF x = s THEN "Confirmed" ELSE session[x].state
<1>. DEFINE s == request[r].session
<1>1. s \in Sessions /\ UNCHANGED <<sessionMap, callbacks>>
  BY ExecuteType DEF NotificationsInitialized, Execute
<1>2. \/ session' = session
      \/ \A x \in Sessions : session'[x].state = IF x = s THEN "Confirmed" ELSE session[x].state
  BY <1>1 DEF NotificationsInitialized, TInv, TypeOK, SessionType
<1>3. session[s].state # "Invalid"
  BY DEF NotificationsInitialized, Execute, HInv, HReq
<1>. QED
  BY <1>1, <1>2, <1>3

LEMMA Listening ==
  ASSUME TInv, HInv, NEW r \in Requests, LoggingSetLevel(r)
  PROVE  LET s == request[r].session IN
         /\ s \in Sessions /\ session[s].state # "Invalid"
         /\ sessionMap' = sessionMap
         /\ callbacks' \ {s} = callbacks \ {s}
         /\ \A x \in Sessions : session'[x].state = session[x].state
<1>. DEFINE s == request[r].session
<1>1. s \in Sessions /\ sessionMap' = sessionMap
  BY ExecuteType DEF LoggingSetLevel, Execute
<1>2. \A x \in Sessions : session'[x].state = session[x].state
  BY <1>1 DEF LoggingSetLevel, TInv, TypeOK, SessionType
<1>3. session[s].state # "Invalid"
  BY <1>2, ExecuteAllowed DEF LoggingSetLevel, Forward
<1>4. callbacks' \ {s} = callbacks \ {s}
  BY DEF LoggingSetLevel
<1>. QED
  BY <1>1, <1>2, <1>3, <1>4

\* A session that is not constructed yet has no callback, used or not.
Heard == \A s \in callbacks : session[s].state # "Invalid"

LEMMA HeardKept ==
  ASSUME TInv, HInv, Heard, [Next]_vars
  PROVE  Heard'
<1>. USE DEF Heard
<1>1. ASSUME NEW r \in Requests, NEW s \in Sessions, NEW header \in Headers, NEW body \in Body,
             CreateSession(r, s, header, body) PROVE Heard'
  BY <1>1 DEF CreateSession, Fresh, TInv, TypeOK
<1>2. ASSUME NEW r \in Requests, NotificationsInitialized(r) PROVE Heard'
  BY <1>2, ConfirmedStep DEF TInv, TypeOK
<1>3. ASSUME NEW r \in Requests, LoggingSetLevel(r) PROVE Heard'
  <2>1. \A s \in callbacks' : s \in callbacks \/ s = request[r].session
    BY <1>3, Listening
  <2>. QED
    BY <1>3, <2>1, Listening DEF TInv, TypeOK
<1>4. ASSUME callbacks' \subseteq callbacks, SameSessions PROVE Heard'
  BY <1>4 DEF SameSessions, TInv, TypeOK
<1>5. CASE (\E s \in Sessions : RemoveSession(s)) \/ JanitorSweep \/ Tick \/ UNCHANGED vars
  BY <1>4, <1>5 DEF RemoveSession, JanitorSweep, Destroy, Tick, vars, SameSessions
<1>. QED
  BY <1>1, <1>2, <1>3, <1>4, <1>5, StepCases, QuietSteps

LEMMA HeardInvariant == Spec => []Heard
<1>1. Init => Heard
  BY DEF Init, Heard
<1>2. TInv /\ HInv /\ Heard /\ [Next]_vars => Heard'
  BY HeardKept
<1>. QED
  BY <1>1, <1>2, Typing, HandshakeInvariant, PTL DEF Spec

LEMMA LifecycleStep ==
  ASSUME TInv, TInv', CInv, HInv, Heard, [Next]_vars
  PROVE  LStep
<1>1. ASSUME NEW r \in Requests, NEW s \in Sessions, NEW header \in Headers, NEW body \in Body,
             CreateSession(r, s, header, body) PROVE LStep
  <2>1. /\ session' = [session EXCEPT ![s] = [Fresh EXCEPT !.state = "Requested", !.protocol = MaxProtocol]]
        /\ session[s].state = "Invalid"
        /\ sessionMap' = sessionMap \cup {s} /\ callbacks' = callbacks
    BY <1>1 DEF CreateSession
  <2>2. session'[s].state = "Requested" /\ \A x \in Sessions : x # s => session'[x] = session[x]
    BY <2>1 DEF Fresh, TInv, TypeOK
  <2>3. Stage(s) = "none" /\ Stage(s)' = "requested"
    BY <2>1, <2>2, StageValue, NextStageValue
  <2>4. \A x \in Sessions : x # s => Stage(x)' = Stage(x)
    BY <2>1, <2>2 DEF Stage
  <2>5. stages' = [stages EXCEPT ![s] = "requested"] /\ stages[s] = "none"
    BY <2>3, <2>4, OneStage DEF stages
  <2>6. s \notin callbacks
    BY <2>1 DEF Heard
  <2>7. listening' = listening
    BY <2>1, <2>6 DEF listening
  <2>. QED
    BY <2>5, <2>7 DEF LStep, Lifecycle!Next, Lifecycle!Request, stages, listening
<1>2. ASSUME NEW r \in Requests, NotificationsInitialized(r) PROVE LStep
  <2>1. PICK s \in Sessions :
          /\ session[s].state # "Invalid" /\ UNCHANGED <<sessionMap, callbacks>>
          /\ \/ session' = session
             \/ \A x \in Sessions : session'[x].state = IF x = s THEN "Confirmed" ELSE session[x].state
    BY <1>2, ConfirmedStep
  <2>2. CASE session' = session
    BY <2>1, <2>2, NoLifecycleStep DEF listening
  <2>3. CASE session' # session
    <3>1. \A x \in Sessions : session'[x].state = IF x = s THEN "Confirmed" ELSE session[x].state
      BY <2>1, <2>3
    <3>2. CASE s \in sessionMap /\ session[s].state = "Requested"
      <4>1. Stage(s) = "requested" /\ Stage(s)' = "confirmed"
        BY <2>1, <3>1, <3>2, StageValue, NextStageValue
      <4>2. \A x \in Sessions : x # s => Stage(x)' = Stage(x)
        BY <2>1, <3>1 DEF Stage
      <4>3. stages' = [stages EXCEPT ![s] = "confirmed"] /\ stages[s] = "requested"
        BY <2>1, <4>1, <4>2, OneStage DEF stages
      <4>. QED
        BY <2>1, <4>3 DEF LStep, Lifecycle!Next, Lifecycle!Confirm, stages, listening
    <3>3. CASE ~(s \in sessionMap /\ session[s].state = "Requested")
      <4>1. \A x \in Sessions : Stage(x)' = Stage(x)
        BY <2>1, <3>1, <3>3, StageValue, NextStageValue
      <4>. QED
        BY <2>1, <4>1 DEF LStep, stages, listening
    <3>. QED
      BY <3>2, <3>3
  <2>. QED
    BY <2>2, <2>3
<1>3. ASSUME NEW r \in Requests, LoggingSetLevel(r) PROVE LStep
  <2>. DEFINE s == request[r].session
  <2>1. s \in Sessions /\ session[s].state # "Invalid" /\ sessionMap' = sessionMap
    BY <1>3, Listening
  <2>2. \A x \in Sessions : Stage(x)' = Stage(x)
    BY <1>3, <2>1, Listening DEF Stage
  <2>3. stages' = stages
    BY <2>2 DEF stages
  <2>4. callbacks' \ {s} = callbacks \ {s}
    BY <1>3, Listening
  <2>5. listening' \in {listening, listening \ {s}, listening \cup {s}}
    <3>1. CASE s \in callbacks'
      BY <2>1, <2>4, <3>1 DEF listening
    <3>2. CASE s \notin callbacks'
      BY <2>1, <2>4, <3>2 DEF listening
    <3>. QED
      BY <3>1, <3>2
  <2>6. s \notin sessionMap => listening' = listening
    BY <2>1, <2>4 DEF listening
  <2>7. s \in sessionMap => s \in Lifecycle!Live
    BY <2>1, StageValue DEF Lifecycle!Live
  <2>. QED
    BY <2>1, <2>3, <2>5, <2>6, <2>7
       DEF LStep, Lifecycle!Next, Lifecycle!Listen, Lifecycle!Mute, stages, listening
<1>4. ASSUME NEW s \in Sessions, RemoveSession(s) PROVE LStep
  BY <1>4, EndStep DEF RemoveSession
<1>5. CASE JanitorSweep
  BY <1>5, EndStep DEF JanitorSweep, TInv, TypeOK
<1>6. ASSUME SameSessions, UNCHANGED <<sessionMap, callbacks>> PROVE LStep
  BY <1>6, NoLifecycleStep DEF SameSessions, listening
<1>7. CASE Tick \/ UNCHANGED vars
  BY <1>7, NoLifecycleStep DEF Tick, vars, listening
<1>. QED
  BY <1>1, <1>2, <1>3, <1>4, <1>5, <1>6, <1>7, StepCases, QuietSteps

LEMMA LifecycleBegins == Init => Lifecycle!Init
  BY DEF Init, Lifecycle!Init, Stage, Fresh

\* Sessions live as SessionLifecycle says: each is requested, confirmed and ended at most
\* once and in that order, and its log is forwarded only while it lives, with any texts,
\* calls and versions, even while destroyed sessions are used.
THEOREM LifecycleImplemented == Spec => ImplementsLifecycle
<1>1. Init => Lifecycle!Init
  BY LifecycleBegins
<1>2. TInv /\ TInv' /\ CInv /\ HInv /\ Heard /\ [Next]_vars => [Lifecycle!Next]_<<stages, listening>>
  BY LifecycleStep DEF LStep
<1>. QED
  BY <1>1, <1>2, Typing, CallbackInvariant, HandshakeInvariant, HeardInvariant, PTL
     DEF Spec, ImplementsLifecycle, Lifecycle!Spec, stages, listening
=============================================================================
