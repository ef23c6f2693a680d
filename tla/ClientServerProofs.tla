------------------------- MODULE ClientServerProofs -------------------------
(***************************************************************************)
(* A ClientMCP and its MCPServer: what the client relies on is what the    *)
(* server does, and what the parts promise holds of the whole.  The facts *)
(* about each part come from MCPServerProofs, MCPLogProofs and             *)
(* ClientMCPProofs.                                                        *)
(***************************************************************************)
EXTENDS ClientServer, MCPLogProofs

\* What the client depends on of the server.
View ==
  [first |-> MinProtocol, last |-> MaxProtocol,
   state |-> IF mine = None THEN "Invalid" ELSE session[mine].state,
   alive |-> mine \in sessionMap]

CP == INSTANCE ClientMCPProofs WITH server <- View

----------------------------------------------------------------------------
(* The client of ClientMCPProofs is the client of ClientServer.            *)

LEMMA ClientConstants == CP!VersionsAssumption /\ CP!BoundsAssumption
  BY ClientBoundsAssumption, NoneAssumption, ProtocolAssumption
     DEF CP!VersionsAssumption, CP!BoundsAssumption, CP!Protocol, Protocol

LEMMA SameInit == Client!Init => CP!Init
  BY DEF Client!Init, CP!Init, Client!PoolInit, CP!PoolInit, View

LEMMA SameVars == CP!vars = Client!vars
  BY DEF Client!vars, CP!vars, View

LEMMA SamePool ==
  /\ Client!Open <=> CP!Open
  /\ Client!Close <=> CP!Close
  BY DEF Client!Open, CP!Open, Client!Close, CP!Close, Client!Top, CP!Top, Client!Below, CP!Below,
     Client!GetConnection, CP!GetConnection, Client!ReturnConnection, CP!ReturnConnection,
     Client!poolVars, CP!poolVars

LEMMA SamePosts ==
  /\ Client!Construct <=> CP!Construct
  /\ Client!SendRequest <=> CP!SendRequest
  /\ Client!RequestReturns <=> CP!RequestReturns
  /\ Client!RequestThrows <=> CP!RequestThrows
  BY SamePool DEF Client!Construct, CP!Construct, Client!SendRequest, CP!SendRequest,
     Client!RequestReturns, CP!RequestReturns, Client!RequestThrows, CP!RequestThrows,
     Client!Top, CP!Top, View

LEMMA SameHandshake ==
  /\ Client!InitializeAnswered <=> CP!InitializeAnswered
  /\ Client!InitializeFailed <=> CP!InitializeFailed
  /\ Client!InitializedAccepted <=> CP!InitializedAccepted
  /\ Client!InitializedRefused <=> CP!InitializedRefused
  BY SamePool DEF Client!InitializeAnswered, CP!InitializeAnswered,
     Client!InitializeAnswer, CP!InitializeAnswer, Client!Negotiated, CP!Negotiated,
     Client!Asked, CP!Asked, Client!InitializeFailed, CP!InitializeFailed,
     Client!InitializedAccepted, CP!InitializedAccepted,
     Client!InitializedRefused, CP!InitializedRefused,
     Client!InitializedAnswer, CP!InitializedAnswer, View

LEMMA SameSession ==
  /\ Client!SessionCreated <=> CP!SessionCreated
  /\ Client!SessionConfirmed <=> CP!SessionConfirmed
  /\ Client!SessionEnds <=> CP!SessionEnds
  BY DEF Client!SessionCreated, CP!SessionCreated, Client!SessionConfirmed, CP!SessionConfirmed,
     Client!SessionEnds, CP!SessionEnds, Client!ServerMoves, CP!ServerMoves, View

LEMMA SameReading ==
  /\ \A response : Client!Answered(response) <=> CP!Answered(response)
  /\ Client!Response = CP!Response
  /\ Client!HandleResponse <=> CP!HandleResponse
  /\ Client!CallbackReturns <=> CP!CallbackReturns
  BY DEF Client!Answered, CP!Answered, Client!Response, CP!Response,
     Client!EventType, CP!EventType, Client!HandleResponse, CP!HandleResponse,
     Client!CallbackReturns, CP!CallbackReturns, Client!ReplaceTop, CP!ReplaceTop,
     Client!Callback, CP!Callback, Client!ReadsOn, CP!ReadsOn,
     Client!Top, CP!Top, Client!Below, CP!Below, View

LEMMA SameNext == [CP!Next]_(CP!vars) => [Client!Next]_(Client!vars)
<1>1. UNCHANGED CP!vars => UNCHANGED Client!vars
  BY DEF Client!vars, CP!vars, View
<1>2. CP!Next => Client!Next
  BY <1>1, SamePosts, SameHandshake, SameSession, SameReading DEF Client!Next, CP!Next, Client!Rest, CP!Rest
<1>. QED
  BY <1>1, <1>2

----------------------------------------------------------------------------
(* The client has one connection, the first.                               *)

Alone == pool <= 1 /\ Len(stack) + Len(spare) = pool

LEMMA OneConnection ==
  CP!CInv /\ Alone /\ stack # <<>> =>
    Len(stack) = 1 /\ Connection = 1 /\ CP!Top = stack[1] /\ Client!Top = stack[1]
<1>. SUFFICES ASSUME CP!CInv, Alone, stack # <<>>
              PROVE  Len(stack) = 1 /\ Connection = 1 /\ CP!Top = stack[1] /\ Client!Top = stack[1]
  OBVIOUS
<1>1. /\ pool \in Nat /\ stack \in Seq(CP!OpenPost) /\ spare \in Seq(1..pool)
      /\ Len(stack) \in Nat /\ DOMAIN stack = 1..Len(stack)
  BY CP!StackTyped, ClientConstants DEF CP!CInv
<1>2. Len(spare) \in Nat /\ Len(stack) # 0
  BY <1>1, LenProperties, EmptySeq
<1>. DEFINE n == Len(stack)
            m == Len(spare)
<1>3. n \in Nat /\ m \in Nat /\ n # 0 /\ n + m = pool /\ pool <= 1 /\ pool \in Nat
  BY <1>1, <1>2 DEF Alone
<1>. HIDE DEF n, m
<1>4. n = 1 /\ pool = 1
  BY <1>3
<1>5. stack[1].connection \in 1..pool
  BY <1>1, <1>4 DEF CP!CInv, CP!Held, n
<1>. QED
  BY <1>4, <1>5 DEF n, Connection, CP!Top, Client!Top

\* It sends one request after the other.
LEMMA AloneStep ==
  ASSUME CP!CInv, Alone, [CP!Next]_(CP!vars), requests' # requests => stack = <<>>
  PROVE  Alone'
<1>1. /\ pool \in Nat /\ stack \in Seq(CP!OpenPost) /\ spare \in Seq(1..pool)
      /\ Len(stack) \in Nat /\ DOMAIN stack = 1..Len(stack)
  BY CP!StackTyped, ClientConstants DEF CP!CInv
<1>2. CP!CInv'
  BY CP!CStep, ClientConstants
<1>3. pool' \in Nat /\ stack' \in Seq(CP!OpenPost) /\ spare' \in Seq(1..pool')
  BY <1>2 DEF CP!CInv, CP!TypeOK, CP!OpenPost, CP!EventType
<1>. DEFINE n == Len(stack)
            m == Len(spare)
            k == Len(stack')
            l == Len(spare')
<1>4. n \in Nat /\ m \in Nat /\ k \in Nat /\ l \in Nat
  BY <1>1, <1>3, LenProperties
<1>5. n + m = pool /\ pool <= 1
  BY DEF Alone
<1>6. ASSUME stack = <<>>, NEW c \in Nat, CP!Opened(c) PROVE Alone'
  <2>1. n = 0 /\ k = n + 1
    BY <1>6 DEF CP!Opened, CP!OneLonger
  <2>2. spare = <<>> => m = 0
    OBVIOUS
  <2>3. \/ m = l + 1 /\ pool' = pool
        \/ m = 0 /\ l = m /\ pool' = pool + 1
    BY <1>6, <2>2 DEF CP!Opened, CP!OneLonger
  <2>. HIDE DEF n, m, k, l
  <2>4. k + l = pool' /\ pool' <= 1
    BY <1>1, <1>4, <1>5, <2>1, <2>3
  <2>. QED
    BY <2>4 DEF Alone, k, l
<1>7. ASSUME CP!Closed PROVE Alone'
  <2>1. n = k + 1 /\ l = m + 1 /\ pool' = pool
    BY <1>7 DEF CP!Closed, CP!OneLonger
  <2>. HIDE DEF n, m, k, l
  <2>2. k + l = pool' /\ pool' <= 1
    BY <1>1, <1>4, <1>5, <2>1
  <2>. QED
    BY <2>2 DEF Alone, k, l
<1>8. ASSUME NEW q \in CP!OpenPost, CP!Replaced(q) PROVE Alone'
  BY <1>8 DEF CP!Replaced, Alone
<1>9. ASSUME CP!Rests \/ UNCHANGED CP!vars PROVE Alone'
  BY <1>9 DEF CP!Rests, CP!vars, Alone
<1>10. phase = "new" => stack = <<>>
  BY DEF CP!CInv, CP!Phases
<1>11. requests \in Nat
  BY ClientConstants DEF CP!CInv, CP!TypeOK, CP!BoundsAssumption
<1>. QED
  BY <1>6, <1>7, <1>8, <1>9, <1>10, <1>11, CP!Moves, ClientConstants

LEMMA NextConnection ==
  ASSUME CP!CInv', Alone', stack' # <<>>
  PROVE  Len(stack') = 1 /\ Connection' = 1 /\ Client!Top' = stack'[1]
<1>1. (CP!CInv /\ Alone /\ stack # <<>> =>
         Len(stack) = 1 /\ Connection = 1 /\ CP!Top = stack[1] /\ Client!Top = stack[1])'
  BY OneConnection, PTL
<1>. QED
  BY <1>1

----------------------------------------------------------------------------
(* What the server does.                                                   *)

\* Its steps but for what only initialize does, and crashes.
Serving ==
  \/ JanitorSweep \/ Tick
  \/ \E s \in Sessions : RemoveSession(s)
  \/ \E r \in Requests :
       \/ \E status \in {400, 403, 404} : Refuse(r, status)
       \/ \E s \in Sessions, version \in Headers, body \in Body : FindSession(r, s, version, body)
       \/ CheckProtocol(r) \/ Yield(r) \/ Finish(r)
       \/ \E t \in Threads : Join(r, t) \/ Resume(r, t)
       \/ Ping(r) \/ Initialize(r) \/ NotificationsInitialized(r) \/ LoggingSetLevel(r)

LEMMA ServingIsNext == Serving /\ memory = "sound" => Next
  BY DEF Serving, Next, Receive, RefuseHeaders, RefuseSessionId, Progress, RunCall, Start

\* What such a step does to a session.
Rested(s) == session'[s].state = session[s].state /\ (s \in sessionMap' <=> s \in sessionMap)
Confirms(s) ==
  /\ session[s].state = "Requested" /\ session'[s].state = "Confirmed"
  /\ s \in sessionMap' <=> s \in sessionMap
Ends(s) == session'[s].state = session[s].state /\ s \in sessionMap /\ s \notin sessionMap'

LEMMA SessionMoves ==
  ASSUME TInv, HInv, Serving
  PROVE  \A s \in Sessions : Rested(s) \/ Confirms(s) \/ Ends(s)
<1>. USE DEF Rested, Confirms, Ends
<1>1. CASE JanitorSweep
  BY <1>1 DEF JanitorSweep, Destroy
<1>2. CASE Tick
  BY <1>2 DEF Tick
<1>3. ASSUME NEW s \in Sessions, RemoveSession(s)
      PROVE  \A x \in Sessions : Rested(x) \/ Confirms(x) \/ Ends(x)
  BY <1>3 DEF RemoveSession, Destroy
<1>4. ASSUME SameSessions, UNCHANGED sessionMap
      PROVE  \A x \in Sessions : Rested(x) \/ Confirms(x) \/ Ends(x)
  BY <1>4 DEF SameSessions
<1>5. ASSUME NEW r \in Requests, NotificationsInitialized(r)
      PROVE  \A x \in Sessions : Rested(x) \/ Confirms(x) \/ Ends(x)
  <2>1. request[r].session \in Sessions /\ request[r].phase = "running"
    BY <1>5, ExecuteType DEF NotificationsInitialized, Execute
  <2>2. session[request[r].session].state # "Invalid"
    BY <2>1 DEF HInv, HReq
  <2>3. \A x \in Sessions : session[x].state \in {"Invalid", "Requested", "Confirmed"}
    BY DEF TInv, TypeOK, SessionType
  <2>4. \A x \in Sessions : \/ session'[x].state = session[x].state
                            \/ x = request[r].session /\ session'[x].state = "Confirmed"
    BY <1>5, <2>1 DEF NotificationsInitialized, TInv, TypeOK, SessionType
  <2>5. sessionMap' = sessionMap
    BY <1>5 DEF NotificationsInitialized, Execute
  <2>. QED
    BY <2>2, <2>3, <2>4, <2>5
<1>6. ASSUME NEW r \in Requests, LoggingSetLevel(r)
      PROVE  \A x \in Sessions : Rested(x) \/ Confirms(x) \/ Ends(x)
  <2>1. \A x \in Sessions : session'[x].state = session[x].state
    BY <1>6 DEF LoggingSetLevel, TInv, TypeOK, SessionType
  <2>2. sessionMap' = sessionMap
    BY <1>6 DEF LoggingSetLevel, Execute
  <2>. QED
    BY <2>1, <2>2
<1>. QED
  BY <1>1, <1>2, <1>3, <1>4, <1>5, <1>6, QuietSteps DEF Serving

\* What the server's progress is for a request, with what it leaves in its record.
Kept(p, q) == q.session = p.session /\ q.header = p.header

Proceeds(p, q) ==
  \/ /\ p.phase = "found" /\ p.header = session[p.session].protocol
     /\ q.phase = "admitted" /\ q.array = p.array /\ q.calls = p.calls /\ Kept(p, q)
  \/ /\ p.phase = "found" /\ p.header # session[p.session].protocol
     /\ q.phase = "idle" /\ q.status = 400
  \/ /\ p.phase = "admitted" /\ q.phase = "running" /\ ~q.array /\ Kept(p, q)
     /\ q.calls = p.calls \/ (p.array /\ q.calls = <<>>)
  \/ /\ p.phase \in {"running", "suspended"} /\ q.phase \in {"running", "suspended"}
     /\ q.array = p.array /\ q.calls = p.calls /\ Kept(p, q)
  \/ /\ p.phase = "running" /\ p.calls # <<>>
     /\ q.phase = "running" /\ q.array = p.array /\ q.calls = Tail(p.calls) /\ Kept(p, q)
     /\ Head(p.calls).method = "notifications/initialized" /\ p.header # None
          => session'[p.session].state = "Confirmed"
  \/ p.phase = "running" /\ p.calls = <<>> /\ q.phase = "idle" /\ q.status = 200

LEMMA RequestProceeds ==
  ASSUME TInv, NEW r \in Requests, Progress(r) \/ Start(r) \/ Yield(r)
  PROVE  Proceeds(request[r], request'[r]) /\ Serving
<1>. DEFINE p == request[r]
<1>1. p \in RequestType /\ request \in [Requests -> RequestType]
  BY DEF TInv, TypeOK
<1>2. CASE CheckProtocol(r)
  <2>1. \/ /\ p.phase = "found" /\ p.header = session[p.session].protocol
           /\ request'[r] = Admitted(p)
        \/ /\ p.phase = "found" /\ p.header # session[p.session].protocol
           /\ request'[r] = Idle(400)
    BY <1>1, <1>2 DEF CheckProtocol, Admitted
  <2>2. /\ Admitted(p).phase = "admitted" /\ Admitted(p).array = p.array /\ Admitted(p).calls = p.calls
        /\ Kept(p, Admitted(p))
    BY <1>1 DEF Admitted, RequestType, Kept
  <2>3. Idle(400).phase = "idle" /\ Idle(400).status = 400
    BY DEF Idle
  <2>. QED
    BY <1>2, <2>1, <2>2, <2>3 DEF Proceeds, Serving
<1>3. ASSUME NEW t \in Threads, Join(r, t) PROVE Proceeds(p, request'[r])
  <2>. DEFINE c == IF p.array /\ ~SupportBatchRequest(p.session) THEN <<>> ELSE p.calls
              q == Started(p, t, c)
  <2>1. p.phase = "admitted" /\ request'[r] = q
    BY <1>1, <1>3 DEF Join, Started
  <2>2. c = p.calls \/ (p.array /\ c = <<>>)
    OBVIOUS
  <2>. HIDE DEF c
  <2>3. q.phase = "running" /\ q.array = FALSE /\ q.calls = c /\ Kept(p, q)
    BY <1>1 DEF Started, RequestType, Kept
  <2>. QED
    BY <2>1, <2>2, <2>3 DEF Proceeds
<1>4. ASSUME NEW t \in Threads, Resume(r, t) PROVE Proceeds(p, request'[r])
  <2>1. p.phase = "suspended" /\ request'[r] = Placed(p, t)
    BY <1>1, <1>4 DEF Resume, Placed
  <2>2. /\ Placed(p, t).phase = "running" /\ Placed(p, t).array = p.array
        /\ Placed(p, t).calls = p.calls /\ Kept(p, Placed(p, t))
    BY <1>1 DEF Placed, RequestType, Kept
  <2>. QED
    BY <2>1, <2>2 DEF Proceeds
<1>5. CASE Yield(r)
  <2>1. p.phase = "running" /\ request'[r] = Suspended(p)
    BY <1>1, <1>5 DEF Yield, Suspended
  <2>2. /\ Suspended(p).phase = "suspended" /\ Suspended(p).array = p.array
        /\ Suspended(p).calls = p.calls /\ Kept(p, Suspended(p))
    BY <1>1 DEF Suspended, RequestType, Kept
  <2>. QED
    BY <1>5, <2>1, <2>2 DEF Proceeds, Serving
<1>6. CASE Finish(r)
  <2>1. p.phase = "running" /\ p.calls = <<>> /\ request'[r] = Idle(200)
    BY <1>1, <1>6 DEF Finish
  <2>2. Idle(200).phase = "idle" /\ Idle(200).status = 200
    BY DEF Idle
  <2>. QED
    BY <1>6, <2>1, <2>2 DEF Proceeds, Serving
<1>7. ASSUME NEW method, Execute(r, method),
             method = "notifications/initialized" /\ p.header # None
               => session'[p.session].state = "Confirmed"
      PROVE  Proceeds(p, request'[r])
  <2>. DEFINE c == Tail(p.calls)
              q == WithCalls(p, c)
  <2>1. p.phase = "running" /\ p.calls # <<>> /\ Head(p.calls).method = method /\ request'[r] = q
    BY <1>1, <1>7 DEF Execute, WithCalls
  <2>. HIDE DEF c
  <2>2. q.phase = p.phase /\ q.array = p.array /\ q.calls = c /\ Kept(p, q)
    BY <1>1 DEF WithCalls, RequestType, Kept
  <2>. HIDE DEF q
  <2>. QED
    BY <1>7, <2>1, <2>2 DEF Proceeds, c
<1>8. CASE Ping(r) \/ Initialize(r) \/ LoggingSetLevel(r)
  BY <1>7, <1>8 DEF Ping, Initialize, LoggingSetLevel, Serving
<1>9. CASE NotificationsInitialized(r)
  <2>0. Execute(r, "notifications/initialized")
    BY <1>9 DEF NotificationsInitialized
  <2>1. p.session \in Sessions
    BY <1>9, ExecuteType DEF NotificationsInitialized
  <2>2. p.header # None => session'[p.session].state = "Confirmed"
    BY <1>9, <2>1 DEF NotificationsInitialized, TInv, TypeOK, SessionType
  <2>3. Proceeds(p, request'[r])
    BY <1>7, <2>0, <2>2
  <2>. QED
    BY <1>9, <2>3 DEF Serving
<1>. HIDE DEF p
<1>10. CASE Start(r)
  BY <1>3, <1>4, <1>10 DEF Start, Serving, p
<1>. QED
  BY <1>2, <1>5, <1>6, <1>8, <1>9, <1>10 DEF Progress, RunCall, p

----------------------------------------------------------------------------
(* The version of the sessions: nobody but the client makes one, with a    *)
(* call that does not confirm it, and every other request is compared.     *)

ToConfirm(calls) == \E i \in DOMAIN calls : calls[i].method = "notifications/initialized"

\* A request that may confirm its session sends the version that it was created with.
Compared(q) ==
  q.phase \in {"admitted", "running", "suspended"} => q.header = MaxProtocol \/ ~ToConfirm(q.calls)

VInv == ProtocolIsFixed /\ \A r \in Requests : Compared(request[r])

LEMMA OneCompared ==
  ASSUME TInv, VInv, ProtocolIsFixed', NEW r \in Requests, NEW q,
         request' = [request EXCEPT ![r] = q], Compared(q)
  PROVE  VInv'
<1>1. \A p \in Requests : request'[p] = IF p = r THEN q ELSE request[p]
  BY DEF TInv, TypeOK
<1>. QED
  BY <1>1 DEF VInv, Compared

LEMMA ProceedsCompared ==
  ASSUME TInv, HInv, VInv, NEW r \in Requests, NEW q, Proceeds(request[r], q)
  PROVE  Compared(q)
<1>. DEFINE p == request[r]
<1>1. Compared(p) /\ p.calls \in Seq(Call)
  BY DEF VInv, TInv, TypeOK, RequestType
<1>2. CASE p.phase = "found" /\ q.phase # "idle"
  <2>1. q.header = p.header /\ p.header = session[p.session].protocol
    BY <1>2 DEF Proceeds, Kept
  <2>2. p.session \in Sessions /\ session[p.session].state # "Invalid"
    BY <1>2 DEF TInv, Served, HInv, HReq
  <2>. QED
    BY <2>1, <2>2 DEF VInv, ProtocolIsFixed, Compared
<1>3. CASE p.phase \in {"admitted", "running", "suspended"} /\ q.phase # "idle"
  <2>1. q.header = p.header
    BY <1>3 DEF Proceeds, Kept
  <2>2. \/ q.calls = p.calls
        \/ q.calls = <<>>
        \/ p.calls # <<>> /\ q.calls = Tail(p.calls)
    BY <1>3 DEF Proceeds
  <2>3. ToConfirm(q.calls) => ToConfirm(p.calls)
    <3>. DEFINE c == p.calls
    <3>1. c # <<>> /\ ToConfirm(Tail(c)) => ToConfirm(c)
      BY <1>1, TailCalls DEF ToConfirm
    <3>2. ~ToConfirm(<<>>)
      BY DEF ToConfirm
    <3>. QED
      BY <2>2, <3>1, <3>2
  <2>. QED
    BY <1>1, <1>3, <2>1, <2>3 DEF Compared
<1>4. CASE q.phase = "idle"
  BY <1>4 DEF Compared
<1>. QED
  BY <1>2, <1>3, <1>4 DEF Proceeds

\* One request steps at a time.
LEMMA OneRequest ==
  ASSUME NEW r, Progress(r) \/ Start(r) \/ Yield(r)
  PROVE  \E q : request' = [request EXCEPT ![r] = q]
<1>1. CASE CheckProtocol(r)
  BY <1>1 DEF CheckProtocol
<1>2. CASE RunCall(r)
  BY <1>2 DEF RunCall, Ping, Initialize, NotificationsInitialized, LoggingSetLevel, Execute
<1>3. CASE Finish(r) \/ Yield(r)
  BY <1>3 DEF Finish, Yield
<1>4. CASE Start(r)
  BY <1>4 DEF Start, Join, Resume
<1>. QED
  BY <1>1, <1>2, <1>3, <1>4 DEF Progress

\* notifications/initialized stores what the session has.
LEMMA ConfirmedVersion ==
  ASSUME TInv, VInv, NEW r \in Requests, NotificationsInitialized(r)
  PROVE  ProtocolIsFixed'
<1>. DEFINE s == request[r].session
            c == request[r].calls
<1>1. s \in Sessions /\ request[r].phase = "running"
  BY ExecuteType DEF NotificationsInitialized, Execute
<1>2. c \in Seq(Call) /\ c # <<>> /\ Head(c).method = "notifications/initialized"
  BY DEF NotificationsInitialized, Execute, TInv, TypeOK, RequestType
<1>3. ToConfirm(c)
  BY <1>2, TailCalls DEF ToConfirm
<1>4. request[r].header = MaxProtocol
  BY <1>1, <1>3 DEF VInv, Compared
<1>5. \A x \in Sessions : \/ session'[x] = session[x]
                          \/ session'[x].protocol = MaxProtocol
  BY <1>1, <1>4 DEF NotificationsInitialized, TInv, TypeOK, SessionType
<1>. QED
  BY <1>5 DEF VInv, ProtocolIsFixed

LEMMA VersionStep ==
  ASSUME TInv, HInv, VInv, Serving
  PROVE  VInv'
<1>1. ASSUME SameSessions PROVE ProtocolIsFixed'
  BY <1>1 DEF SameSessions, VInv, ProtocolIsFixed
<1>2. ASSUME UNCHANGED <<session, request>> PROVE VInv'
  BY <1>2 DEF VInv, ProtocolIsFixed, Compared
<1>3. CASE JanitorSweep \/ Tick \/ \E s \in Sessions : RemoveSession(s)
  BY <1>2, <1>3 DEF JanitorSweep, Tick, RemoveSession
<1>4. ASSUME NEW r \in Requests, NEW status \in {400, 403, 404}, Refuse(r, status) PROVE VInv'
  <2>1. request' = [request EXCEPT ![r] = Idle(status)] /\ session' = session
    BY <1>4 DEF Refuse
  <2>2. Compared(Idle(status))
    BY DEF Compared, Idle
  <2>3. ProtocolIsFixed'
    BY <1>1, <2>1 DEF SameSessions
  <2>. QED
    BY <2>1, <2>2, <2>3, OneCompared
<1>5. ASSUME NEW r \in Requests, NEW s \in Sessions, NEW version \in Headers, NEW body \in Body,
             FindSession(r, s, version, body)
      PROVE  VInv'
  <2>. DEFINE q == [phase |-> "found", status |-> 0, session |-> s, header |-> version,
                    array |-> body.array, hides |-> Hides(body), calls |-> body.calls, thread |-> None]
  <2>1. request' = [request EXCEPT ![r] = q] /\ session' = session
    BY <1>5 DEF FindSession, Accept
  <2>2. Compared(q)
    BY DEF Compared
  <2>. HIDE DEF q
  <2>3. ProtocolIsFixed'
    BY <1>1, <2>1 DEF SameSessions
  <2>. QED
    BY <2>1, <2>2, <2>3, OneCompared
<1>6. ASSUME NEW r \in Requests, Progress(r) \/ Start(r) \/ Yield(r) PROVE VInv'
  <2>1. PICK q : request' = [request EXCEPT ![r] = q]
    BY <1>6, OneRequest
  <2>2. request'[r] = q
    BY <2>1 DEF TInv, TypeOK
  <2>3. Compared(q)
    BY <1>6, <2>2, RequestProceeds, ProceedsCompared
  <2>4. CASE LoggingSetLevel(r)
    <3>1. \A s \in Sessions : /\ session'[s].state = session[s].state
                              /\ session'[s].protocol = session[s].protocol
      BY <2>4, ExecuteType DEF LoggingSetLevel, TInv, TypeOK, SessionType
    <3>2. ProtocolIsFixed'
      BY <3>1 DEF VInv, ProtocolIsFixed
    <3>. QED
      BY <2>1, <2>3, <3>2, OneCompared
  <2>5. CASE NotificationsInitialized(r)
    BY <2>1, <2>3, <2>5, ConfirmedVersion, OneCompared
  <2>6. CASE ~LoggingSetLevel(r) /\ ~NotificationsInitialized(r)
    <3>1. SameSessions
      BY <1>6, <2>6, QuietSteps DEF Progress, RunCall, Start
    <3>. QED
      BY <1>1, <2>1, <2>3, <3>1, OneCompared
  <2>. QED
    BY <2>4, <2>5, <2>6
<1>7. ASSUME NEW r \in Requests,
             \/ CheckProtocol(r) \/ Yield(r) \/ Finish(r)
             \/ \E t \in Threads : Join(r, t) \/ Resume(r, t)
             \/ Ping(r) \/ Initialize(r) \/ NotificationsInitialized(r) \/ LoggingSetLevel(r)
      PROVE  VInv'
  BY <1>6, <1>7 DEF Progress, RunCall, Start
<1>. QED
  BY <1>3, <1>4, <1>5, <1>7 DEF Serving

\* The client's own session is new.
LEMMA VersionBegins ==
  ASSUME TInv, VInv, NEW r \in Requests, NEW s \in Sessions, CreateSession(r, s, None, InitializeRequest)
  PROVE  VInv'
<1>. DEFINE q == [phase |-> "admitted", status |-> 0, session |-> s, header |-> None,
                  array |-> InitializeRequest.array, hides |-> Hides(InitializeRequest),
                  calls |-> InitializeRequest.calls, thread |-> None]
<1>1. request' = [request EXCEPT ![r] = q]
  BY DEF CreateSession, Accept
<1>2. ~ToConfirm(InitializeRequest.calls)
  <2>1. InitializeRequest.calls = <<[method |-> "initialize", arg |-> Client!Asked]>>
    BY DEF InitializeRequest, Single
  <2>2. \A i \in DOMAIN InitializeRequest.calls : InitializeRequest.calls[i].method = "initialize"
    BY <2>1
  <2>. QED
    BY <2>2 DEF ToConfirm
<1>3. Compared(q)
  BY <1>2 DEF Compared
<1>. HIDE DEF q
<1>4. \A x \in Sessions : session'[x] = session[x] \/ session'[x].protocol = MaxProtocol
  BY DEF CreateSession, Fresh, TInv, TypeOK
<1>5. ProtocolIsFixed'
  BY <1>4 DEF VInv, ProtocolIsFixed
<1>. QED
  BY <1>1, <1>3, <1>5, OneCompared

----------------------------------------------------------------------------
(* How far client and server are with each other.                          *)

Own == request[1]

\* The first post of the handshake: the session is made before its request is answered.
Initializing ==
  \/ Own.phase = "idle" /\ Own.status \in {0, 403} /\ mine = None
  \/ Own.phase = "idle" /\ Own.status = 200 /\ mine # None
  \/ Own.phase \in {"admitted", "running", "suspended"} /\ mine # None

\* The second: it is answered with 200 only if it has confirmed the session, with the
\* version of the server, and refused for its version or because the session has ended.
Confirming ==
  \/ /\ Own.phase = "idle"
     /\ \/ Own.status = 0
        \/ Own.status = 200 /\ session[mine].state = "Confirmed" /\ header = MaxProtocol
        \/ Own.status = 400 /\ header # MaxProtocol
        \/ Own.status = 404 /\ mine \notin sessionMap
  \/ /\ Own.phase \in {"found", "admitted", "running", "suspended"}
     /\ Own.session = mine /\ Own.header = header
     /\ Own.phase # "found" => header = MaxProtocol
     /\ \/ ~Own.array /\ Own.calls = Notification_Initialized.calls
        \/ /\ Own.phase \in {"running", "suspended"} /\ Own.calls = <<>>
           /\ session[mine].state = "Confirmed"

\* Later requests: they are refused only when the session has ended.
Asking ==
  \/ Own.phase = "idle" /\ Own.status \in {0, 200}
  \/ Own.phase = "idle" /\ Own.status = 404 /\ mine \notin sessionMap
  \/ /\ Own.phase \in {"found", "admitted", "running", "suspended"}
     /\ Own.session = mine /\ Own.header = header

Exchange ==
  /\ mine \in Sessions \cup {None}
  /\ mine # None => session[mine].state # "Invalid"
  /\ phase = "new" => mine = None
  /\ phase \in {"initialized", "ready"} => mine # None
  /\ phase = "initialize" => Initializing
  /\ phase = "initialized" => Confirming
  /\ phase = "ready" =>
       session[mine].state = "Confirmed" /\ header = MaxProtocol /\ (Waiting => Asking)

SInv == TInv /\ CInv /\ HInv /\ VInv /\ CP!CInv /\ Alone /\ Exchange

LEMMA MineIs ==
  ASSUME Exchange, mine # None
  PROVE  mine \in Sessions
  BY DEF Exchange

\* A step of the server that is not for the client's post.
LEMMA ExchangeElsewhere ==
  ASSUME TInv, Exchange, UNCHANGED <<clientVars, mine>>, request'[1] = request[1],
         \A s \in Sessions : Rested(s) \/ Confirms(s) \/ Ends(s)
  PROVE  Exchange'
<1>1. /\ mine' = mine /\ header' = header /\ phase' = phase
      /\ Waiting' <=> Waiting
  BY DEF clientVars, Waiting, Client!Top
<1>2. mine # None =>
        /\ mine \in Sessions
        /\ session[mine].state # "Invalid" => session'[mine].state # "Invalid"
        /\ session[mine].state = "Confirmed" => session'[mine].state = "Confirmed"
        /\ mine \notin sessionMap => mine \notin sessionMap'
  BY MineIs DEF Rested, Confirms, Ends
<1>3. Own' = Own
  BY DEF Own
<1>4. phase = "initialize" => Initializing'
  BY <1>1, <1>3 DEF Exchange, Initializing
<1>5. phase = "initialized" => Confirming'
  BY <1>1, <1>2, <1>3 DEF Exchange, Confirming
<1>6. phase = "ready" /\ Waiting => Asking'
  BY <1>1, <1>2, <1>3 DEF Exchange, Asking
<1>. QED
  BY <1>1, <1>2, <1>4, <1>5, <1>6 DEF Exchange

\* One that goes on with the client's post.
LEMMA ExchangeProceeds ==
  ASSUME TInv, VInv, Exchange, UNCHANGED <<clientVars, mine>>, Proceeds(Own, Own'),
         \A s \in Sessions : Rested(s) \/ Confirms(s) \/ Ends(s)
  PROVE  Exchange'
<1>1. /\ mine' = mine /\ header' = header /\ phase' = phase
      /\ Waiting' <=> Waiting
  BY DEF clientVars, Waiting, Client!Top
<1>2. mine # None =>
        /\ mine \in Sessions
        /\ session[mine].state # "Invalid" => session'[mine].state # "Invalid"
        /\ session[mine].state = "Confirmed" => session'[mine].state = "Confirmed"
        /\ mine \notin sessionMap => mine \notin sessionMap'
  BY MineIs DEF Rested, Confirms, Ends
<1>3. mine # None => session[mine].protocol = MaxProtocol
  BY <1>2 DEF Exchange, VInv, ProtocolIsFixed
<1>4. phase = "initialize" => Initializing'
  BY <1>1 DEF Exchange, Initializing, Proceeds
<1>5. ASSUME phase = "initialized" PROVE Confirming'
  <2>1. mine # None /\ Confirming
    BY <1>5 DEF Exchange
  <2>. DEFINE c == Notification_Initialized.calls
  <2>2. c # <<>> /\ Tail(c) = <<>> /\ Head(c).method = "notifications/initialized"
    BY DEF Notification_Initialized, Single
  <2>3. MaxProtocol # None
    BY ProtocolAssumption, NoneAssumption
  <2>. HIDE DEF c
  <2>4. CASE Own.phase = "found"
    <3>1. Own.session = mine /\ Own.header = header /\ ~Own.array /\ Own.calls = c
      BY <2>1, <2>4 DEF Confirming, c
    <3>2. \/ header = MaxProtocol /\ Own'.phase = "admitted" /\ ~Own'.array /\ Own'.calls = c /\ Kept(Own, Own')
          \/ header # MaxProtocol /\ Own'.phase = "idle" /\ Own'.status = 400
      BY <1>3, <2>1, <2>4, <3>1 DEF Proceeds
    <3>. QED
      BY <1>1, <3>1, <3>2 DEF Confirming, Kept, c
  <2>5. CASE Own.phase = "admitted"
    <3>1. /\ Own.session = mine /\ Own.header = header /\ ~Own.array /\ Own.calls = c
          /\ header = MaxProtocol
      BY <2>1, <2>5 DEF Confirming, c
    <3>2. Own'.phase = "running" /\ ~Own'.array /\ Own'.calls = c /\ Kept(Own, Own')
      BY <2>5, <3>1 DEF Proceeds
    <3>. QED
      BY <1>1, <3>1, <3>2 DEF Confirming, Kept, c
  <2>6. CASE Own.phase \in {"running", "suspended"}
    <3>1. /\ Own.session = mine /\ Own.header = header /\ header = MaxProtocol
          /\ \/ ~Own.array /\ Own.calls = c
             \/ Own.calls = <<>> /\ session[mine].state = "Confirmed"
      BY <2>1, <2>6 DEF Confirming, c
    <3>2. CASE Own'.phase = "idle"
      <4>1. Own.calls = <<>> /\ Own'.status = 200
        BY <2>6, <3>2 DEF Proceeds
      <4>. QED
        BY <1>1, <1>2, <2>1, <2>2, <3>1, <3>2, <4>1 DEF Confirming
    <3>3. CASE Own'.phase # "idle"
      <4>1. /\ Own'.phase \in {"running", "suspended"} /\ Own'.array = Own.array /\ Kept(Own, Own')
            /\ \/ Own'.calls = Own.calls
               \/ /\ Own.calls # <<>> /\ Own'.calls = Tail(Own.calls)
                  /\ Head(Own.calls).method = "notifications/initialized" /\ Own.header # None
                       => session'[Own.session].state = "Confirmed"
        BY <2>6, <3>3 DEF Proceeds
      <4>2. CASE Own'.calls = Own.calls
        BY <1>1, <1>2, <2>1, <3>1, <4>1, <4>2 DEF Confirming, Kept, c
      <4>3. CASE Own'.calls # Own.calls
        <5>1. Own'.calls = <<>> /\ session'[mine].state = "Confirmed"
          BY <2>2, <2>3, <3>1, <4>1, <4>3
        <5>. QED
          BY <1>1, <3>1, <4>1, <5>1 DEF Confirming, Kept
      <4>. QED
        BY <4>2, <4>3
    <3>. QED
      BY <3>2, <3>3
  <2>. QED
    BY <2>1, <2>4, <2>5, <2>6 DEF Proceeds
<1>6. ASSUME phase = "ready", Waiting PROVE Asking'
  <2>1. mine # None /\ Asking /\ header = MaxProtocol
    BY <1>6 DEF Exchange
  <2>2. Own.phase # "idle" => Own.session = mine /\ Own.header = header
    BY <2>1 DEF Asking
  <2>. QED
    BY <1>1, <1>3, <2>1, <2>2 DEF Asking, Proceeds, Kept
<1>. QED
  BY <1>1, <1>2, <1>4, <1>5, <1>6 DEF Exchange

----------------------------------------------------------------------------
(* The client's steps.                                                     *)

\* A message is on its way over the client's connection.
Reposted ==
  /\ request' = [request EXCEPT ![1] = Idle(0)]
  /\ UNCHANGED <<sessionMap, session, age, callbacks, sweepIn, memory>>

LEMMA RepostStep ==
  ASSUME TInv, CInv, HInv, VInv, Reposted
  PROVE  TInv' /\ CInv' /\ HInv' /\ VInv' /\ Own'.phase = "idle" /\ Own'.status = 0
<1>1. 1 \in Requests /\ request \in [Requests -> RequestType]
  BY ConnectionAssumption DEF TInv, TypeOK
<1>2. /\ Own' = Idle(0) /\ Idle(0).phase = "idle" /\ Idle(0).status = 0 /\ Idle(0) \in RequestType
      /\ Idle(0).array = FALSE
  BY <1>1, IdleType DEF Reposted, Own, Idle
<1>3. TInv'
  <2>1. request' \in [Requests -> RequestType] /\ Served'
    BY <1>1, <1>2, RequestStep DEF Reposted
  <2>. QED
    BY <2>1 DEF TInv, TypeOK, Reposted
<1>4. CInv'
  BY DEF Reposted, CInv, Constructed, CallbacksMatchSessions
<1>5. HInv'
  <2>1. Forward /\ NewestAtFirst'
    BY DEF Reposted, Forward, HInv, NewestAtFirst
  <2>2. HReq(1)'
    BY <1>2 DEF HReq, Own
  <2>3. \A p \in Requests : HReq(p)'
    BY <1>1, <2>1, <2>2, OtherRequests DEF Reposted
  <2>. QED
    BY <2>1, <2>3 DEF HInv
<1>6. VInv'
  <2>1. ProtocolIsFixed'
    BY DEF Reposted, VInv, ProtocolIsFixed
  <2>2. Compared(Idle(0))
    BY <1>2 DEF Compared
  <2>. QED
    BY <1>1, <2>1, <2>2, OneCompared DEF Reposted
<1>. QED
  BY <1>2, <1>3, <1>4, <1>5, <1>6

LEMMA StillView ==
  ASSUME ServerStill
  PROVE  View' = View
  BY DEF ServerStill, View

\* What the client is after one of its steps.
LEMMA ClientKept ==
  ASSUME SInv, [CP!Next]_(CP!vars), requests' # requests => stack = <<>>
  PROVE  CP!CInv' /\ Alone'
  BY AloneStep, CP!CStep, ClientConstants DEF SInv

LEMMA OpensFirst ==
  ASSUME SInv, CP!Open, CP!CInv', Alone'
  PROVE  Connection' = 1
<1>1. PICK c \in Nat : CP!Opened(c)
  BY CP!OpenStep, ClientConstants DEF SInv, CP!CInv
<1>2. Len(stack') = Len(stack) + 1 /\ Len(stack) \in Nat
  BY <1>1, CP!StackTyped, ClientConstants DEF CP!Opened, CP!OneLonger, SInv, CP!CInv
<1>3. stack' # <<>>
  <2>. SUFFICES ASSUME stack' = <<>> PROVE FALSE
    OBVIOUS
  <2>1. Len(stack') = 0
    OBVIOUS
  <2>. HIDE DEF SInv
  <2>. QED
    BY <1>2, <2>1
<1>. QED
  BY <1>3, NextConnection

LEMMA ClosesAll ==
  ASSUME SInv, CP!Close, stack # <<>>
  PROVE  ~Waiting'
<1>1. CP!Closed
  BY CP!CloseStep, ClientConstants DEF SInv, CP!CInv
<1>2. Len(stack) = Len(stack') + 1 /\ stack' \in Seq(CP!OpenPost)
  BY <1>1 DEF CP!Closed, CP!OneLonger
<1>3. Len(stack) = 1
  BY OneConnection DEF SInv
<1>. DEFINE n == Len(stack')
<1>4. n \in Nat /\ 1 = n + 1
  BY <1>2, <1>3, LenProperties
<1>. HIDE DEF n
<1>5. n = 0
  BY <1>4
<1>6. stack' = <<>>
  BY <1>2, <1>5, EmptySeq DEF n
<1>. QED
  BY <1>6 DEF Waiting

\* While a post is answered it is the client's only one, and for its handshake until that
\* is done.
LEMMA WaitingFor ==
  ASSUME SInv, Waiting
  PROVE  /\ Connection = 1 /\ stack # <<>> /\ CP!Top.step = "sent" /\ Client!Top = CP!Top
         /\ phase \in {"initialize", "initialized", "ready"}
<1>1. stack # <<>> /\ Client!Top.step = "sent"
  BY DEF Waiting
<1>2. Connection = 1 /\ Client!Top = CP!Top
  BY <1>1, OneConnection DEF SInv
<1>3. phase \in {"initialize", "initialized", "ready"}
  BY <1>1 DEF SInv, CP!CInv, CP!Phases, CP!TypeOK
<1>. QED
  BY <1>1, <1>2, <1>3

\* A step of the client: what it is for ClientMCP and for the server, and the exchange.
ClientDoes ==
  /\ [CP!Next]_(CP!vars)
  /\ requests' # requests => stack = <<>>
  /\ UNCHANGED vars \/ Reposted
  /\ Exchange'

LEMMA ConstructDoes == SInv /\ Construct => ClientDoes
<1>. SUFFICES ASSUME SInv, Construct PROVE ClientDoes
  OBVIOUS
<1>1. /\ phase = "new" /\ CP!Open /\ phase' = "initialize" /\ UNCHANGED <<config, header, requests>>
      /\ CP!Construct /\ ServerStill /\ Post(Connection')
  BY SamePosts DEF Construct, CP!Construct
<1>2. [CP!Next]_(CP!vars)
  BY <1>1 DEF CP!Next
<1>3. Connection' = 1
  BY <1>1, <1>2, ClientKept, OpensFirst
<1>4. Reposted
  BY <1>1, <1>3 DEF Post, ServerStill, Reposted
<1>5. Own'.phase = "idle" /\ Own'.status = 0
  BY <1>4, RepostStep DEF SInv
<1>6. mine = None /\ mine' = None
  BY <1>1 DEF ServerStill, SInv, Exchange
<1>7. Exchange'
  BY <1>1, <1>5, <1>6 DEF Exchange, Initializing
<1>. QED
  BY <1>1, <1>2, <1>4, <1>7 DEF ClientDoes

LEMMA InitializeAnsweredDoes == SInv /\ InitializeAnswered => ClientDoes
<1>. SUFFICES ASSUME SInv, InitializeAnswered PROVE ClientDoes
  OBVIOUS
<1>1. /\ Answered(200) /\ ServerStill /\ Client!InitializeAnswer(Negotiate(Client!Asked))
      /\ Post(Connection)
  BY DEF InitializeAnswered
<1>2. Waiting /\ Connection = 1 /\ stack # <<>> /\ phase = "initialize"
      /\ Own.phase = "idle" /\ Own.status = 200
  BY <1>1, WaitingFor DEF Answered, Own, Client!InitializeAnswer
<1>3. mine # None /\ mine \in Sessions /\ session[mine].state # "Invalid"
  BY <1>2, MineIs DEF SInv, Exchange, Initializing
<1>4. Negotiate(Client!Asked) = Client!Negotiated
  BY DEF Negotiate, Client!Negotiated
<1>5. UNCHANGED View /\ View.state # "Invalid"
  BY <1>1, <1>3, StillView DEF View
<1>6. Client!InitializeAnswered
  BY <1>1, <1>4, <1>5 DEF Client!InitializeAnswered, View
<1>7. [CP!Next]_(CP!vars)
  BY <1>6, SameHandshake DEF CP!Next
<1>8. Reposted
  BY <1>1, <1>2 DEF Post, ServerStill, Reposted
<1>9. Own'.phase = "idle" /\ Own'.status = 0
  BY <1>8, RepostStep DEF SInv
<1>10. phase' \in {"initialized", "failed"} /\ requests' = requests
  BY <1>1 DEF Client!InitializeAnswer
<1>11. Exchange'
  BY <1>1, <1>3, <1>9, <1>10 DEF Exchange, Confirming, ServerStill
<1>. QED
  BY <1>7, <1>8, <1>10, <1>11 DEF ClientDoes

LEMMA InitializeFailedDoes == SInv /\ InitializeFailed => ClientDoes
<1>. SUFFICES ASSUME SInv, InitializeFailed PROVE ClientDoes
  OBVIOUS
<1>1. /\ ServerStill /\ request' = request /\ CP!InitializeFailed
      /\ phase' = "failed" /\ requests' = requests
  BY SameHandshake DEF InitializeFailed, CP!InitializeFailed
<1>2. [CP!Next]_(CP!vars)
  BY <1>1 DEF CP!Next
<1>3. UNCHANGED vars
  BY <1>1 DEF ServerStill, vars
<1>4. Exchange'
  BY <1>1 DEF SInv, Exchange, ServerStill
<1>. QED
  BY <1>1, <1>2, <1>3, <1>4 DEF ClientDoes

LEMMA InitializedAnsweredDoes == SInv /\ InitializedAnswered => ClientDoes
<1>. SUFFICES ASSUME SInv, InitializedAnswered PROVE ClientDoes
  OBVIOUS
<1>1. PICK status \in {200, 400, 404} :
        /\ Answered(status) /\ Client!InitializedAnswer(status) /\ ServerStill /\ request' = request
  BY DEF InitializedAnswered
<1>2. /\ phase = "initialized" /\ Client!Close /\ UNCHANGED <<config, requests, header>>
      /\ phase' = IF status = 200 THEN "ready" ELSE "failed"
  BY <1>1 DEF Client!InitializedAnswer
<1>3. Waiting /\ stack # <<>> /\ Own.phase = "idle" /\ Own.status = status
  BY <1>1, WaitingFor DEF Answered, Own
<1>4. mine # None /\ mine \in Sessions /\ Confirming
  BY <1>2, MineIs DEF SInv, Exchange
<1>5. \/ status = 200 /\ session[mine].state = "Confirmed" /\ header = MaxProtocol
      \/ status = 400 /\ header # MaxProtocol
      \/ status = 404 /\ mine \notin sessionMap
  BY <1>1, <1>3, <1>4 DEF Confirming
<1>6. UNCHANGED View
  BY <1>1, StillView
<1>7. CASE status = 200
  <2>1. Client!InitializedAccepted
    BY <1>1, <1>4, <1>5, <1>6, <1>7 DEF Client!InitializedAccepted, View
  <2>. QED
    <3>1. [CP!Next]_(CP!vars)
      BY <2>1, SameHandshake DEF CP!Next
    <3>2. ~Waiting'
      BY <1>2, <1>3, SamePool, ClosesAll
    <3>3. Exchange'
      BY <1>1, <1>2, <1>4, <1>5, <1>7, <3>2 DEF SInv, Exchange, ServerStill
    <3>. QED
      BY <1>1, <1>2, <3>1, <3>3 DEF ClientDoes, ServerStill, vars
<1>8. CASE status # 200
  <2>1. header # MaxProtocol \/ mine \notin sessionMap
    BY <1>5, <1>8
  <2>2. Client!InitializedAnswer(status) /\ status \in {400, 404}
    BY <1>1, <1>8
  <2>3. Client!InitializedRefused
    <3>1. header # View.last \/ ~View.alive
      BY <2>1 DEF View
    <3>2. \E x \in {400, 404} : Client!InitializedAnswer(x)
      BY <2>2
    <3>. QED
      BY <1>6, <3>1, <3>2 DEF Client!InitializedRefused, View
  <2>4. [CP!Next]_(CP!vars)
    BY <2>3, SameHandshake DEF CP!Next
  <2>5. Exchange'
    BY <1>1, <1>2, <1>8 DEF SInv, Exchange, ServerStill
  <2>. QED
    BY <1>1, <1>2, <2>4, <2>5 DEF ClientDoes, ServerStill, vars
<1>. QED
  BY <1>7, <1>8

LEMMA SendRequestDoes == SInv /\ SendRequest => ClientDoes
<1>. SUFFICES ASSUME SInv, SendRequest PROVE ClientDoes
  OBVIOUS
<1>1. /\ stack = <<>> /\ CP!SendRequest /\ ServerStill /\ Post(Connection')
  BY SamePosts DEF SendRequest
<1>2. CP!Open /\ phase = "ready" /\ phase' = phase /\ header' = header
  BY <1>1 DEF CP!SendRequest
<1>3. [CP!Next]_(CP!vars)
  BY <1>1 DEF CP!Next
<1>4. Connection' = 1
  BY <1>1, <1>2, <1>3, ClientKept, OpensFirst
<1>5. Reposted
  BY <1>1, <1>4 DEF Post, ServerStill, Reposted
<1>6. Own'.phase = "idle" /\ Own'.status = 0
  BY <1>5, RepostStep DEF SInv
<1>7. Exchange'
  BY <1>1, <1>2, <1>6 DEF SInv, Exchange, Asking, ServerStill
<1>. QED
  BY <1>1, <1>3, <1>5, <1>7 DEF ClientDoes

\* In phase ready, where the server rests, the exchange asks only whether a post is waited
\* for.
LEMMA ReadyStays ==
  ASSUME SInv, ServerStill, request' = request, phase = "ready", phase' = phase, header' = header,
         Waiting' => Waiting
  PROVE  Exchange'
<1>1. Own' = Own /\ mine' = mine /\ sessionMap' = sessionMap /\ session' = session
  BY DEF Own, ServerStill
<1>. QED
  BY <1>1 DEF SInv, Exchange, Asking

LEMMA RequestAnsweredDoes == SInv /\ RequestAnswered => ClientDoes
<1>. SUFFICES ASSUME SInv, RequestAnswered PROVE ClientDoes
  OBVIOUS
<1>1. PICK response \in Client!Response :
        Client!Answered(response) /\ Waiting /\ ServerStill /\ request' = request
  <2>1. /\ [kind |-> "object", events |-> <<"result">>] \in Client!Response
        /\ [kind |-> "refused", events |-> <<"junk">>] \in Client!Response
    <3>1. "result" \in Client!EventType \ {"other"}
      BY DEF Client!EventType
    <3>. QED
      BY <3>1 DEF Client!Response
  <2>. QED
    BY <2>1 DEF RequestAnswered, Answered
<1>2. /\ phase = "ready" /\ phase' = phase /\ header' = header /\ requests' = requests
  BY <1>1 DEF Client!Answered, Client!ReplaceTop
<1>3. [CP!Next]_(CP!vars)
  BY <1>1, SameReading DEF CP!Next
<1>4. Exchange'
  BY <1>1, <1>2, ReadyStays
<1>. QED
  BY <1>1, <1>2, <1>3, <1>4 DEF ClientDoes, ServerStill, vars

\* What is read or called back is sent no more.
LEMMA ProgressNotSent ==
  ASSUME NEW q \in CP!OpenPost, NEW w, CP!Progress(q, w)
  PROVE  w.step # "sent"
<1>1. CASE \E response \in CP!Response : w = CP!Reading(q, response)
  BY <1>1, CP!ReadingType, ClientConstants
<1>2. CASE q.events # <<>> /\ w = CP!Handled(q)
  BY <1>2, CP!HandledType, ClientConstants
<1>3. CASE w = CP!Returned(q)
  BY <1>3, CP!ReturnedType, ClientConstants
<1>. QED
  BY <1>1, <1>2, <1>3 DEF CP!Progress

LEMMA RequestHandledDoes == SInv /\ RequestHandled => ClientDoes
<1>. SUFFICES ASSUME SInv, RequestHandled PROVE ClientDoes
  OBVIOUS
<1>1. ServerStill /\ request' = request
  BY DEF RequestHandled
<1>2. /\ CP!HandleResponse \/ CP!CallbackReturns \/ CP!RequestReturns \/ (~Waiting /\ CP!RequestThrows)
  BY SameReading, SamePosts DEF RequestHandled
<1>3. stack # <<>> /\ UNCHANGED <<phase, header, requests>>
  BY <1>2 DEF CP!HandleResponse, CP!CallbackReturns, CP!RequestReturns, CP!RequestThrows, CP!ReplaceTop
<1>4. Client!Top = CP!Top
  BY <1>3, OneConnection DEF SInv
<1>5. ~Waiting
  BY <1>2, <1>4 DEF Waiting, CP!HandleResponse, CP!CallbackReturns, CP!RequestReturns
<1>6. phase = "ready"
  BY <1>3, <1>4, <1>5 DEF Waiting, SInv, CP!CInv, CP!Phases, CP!TypeOK
<1>7. [CP!Next]_(CP!vars)
  BY <1>2 DEF CP!Next
<1>8. CP!CInv' /\ Alone'
  BY <1>3, <1>7, ClientKept
<1>9. ~Waiting'
  <2>1. CASE CP!RequestReturns \/ CP!RequestThrows
    BY <1>3, <2>1, ClosesAll DEF CP!RequestReturns, CP!RequestThrows
  <2>2. CASE CP!HandleResponse \/ CP!CallbackReturns
    <3>1. CP!Top \in CP!OpenPost
      BY <1>3, CP!TopTyped, ClientConstants DEF SInv, CP!CInv
    <3>2. PICK q : CP!Progress(CP!Top, q) /\ CP!ReplaceTop(q)
      <4>1. CASE CP!HandleResponse
        BY <4>1 DEF CP!HandleResponse, CP!Progress, CP!Handled, CP!Calling
      <4>2. CASE CP!CallbackReturns
        BY <4>2 DEF CP!CallbackReturns, CP!Progress, CP!Returned
      <4>. QED
        BY <2>2, <4>1, <4>2
    <3>3. q \in CP!OpenPost /\ q.connection = CP!Top.connection /\ q.step # "sent"
      BY <3>1, <3>2, CP!ProgressType, ProgressNotSent, ClientConstants
    <3>4. CP!Replaced(q)
      BY <1>3, <3>2, <3>3, CP!ReplaceStep, ClientConstants DEF SInv, CP!CInv
    <3>5. Len(stack) = 1
      BY <1>3, OneConnection DEF SInv
    <3>6. Len(stack') = 1 /\ stack'[1] = q
      BY <3>4, <3>5 DEF CP!Replaced
    <3>7. Client!Top' = q
      BY <3>6 DEF Client!Top
    <3>. QED
      BY <3>3, <3>7 DEF Waiting
  <2>. QED
    BY <1>2, <2>1, <2>2
<1>10. Exchange'
  BY <1>1, <1>3, <1>6, <1>9, ReadyStays
<1>. QED
  BY <1>1, <1>3, <1>7, <1>10 DEF ClientDoes, ServerStill, vars

----------------------------------------------------------------------------
(* The server's steps.                                                     *)

Seen(state, alive) == [first |-> MinProtocol, last |-> MaxProtocol, state |-> state, alive |-> alive]

LEMMA SeenParts ==
  ASSUME NEW state, NEW alive, NEW x, NEW y
  PROVE  /\ Seen(state, alive).state = state /\ Seen(state, alive).alive = alive
         /\ Seen(state, y) = [Seen(state, alive) EXCEPT !.alive = y]
         /\ Seen(x, y) = [Seen(state, alive) EXCEPT !.state = x, !.alive = y]
<1>1. [Seen(state, alive) EXCEPT !.state = x, !.alive = y]
        = [[Seen(state, alive) EXCEPT !.state = x] EXCEPT !.alive = y]
  OBVIOUS
<1>2. [Seen(state, alive) EXCEPT !.state = x] = Seen(x, alive)
  BY DEF Seen
<1>3. [Seen(x, alive) EXCEPT !.alive = y] = Seen(x, y)
  BY DEF Seen
<1>4. /\ Seen(state, alive).state = state /\ Seen(state, alive).alive = alive
      /\ Seen(state, y) = [Seen(state, alive) EXCEPT !.alive = y]
  BY DEF Seen
<1>. QED
  BY <1>1, <1>2, <1>3, <1>4

\* Truth values are values like others there; the solvers need them named.
LEMMA SeenEnd ==
  ASSUME NEW state
  PROVE  /\ Seen(state, TRUE).state = state /\ Seen(state, TRUE).alive = TRUE
         /\ Seen(state, FALSE).state = state
         /\ Seen(state, FALSE) = [Seen(state, TRUE) EXCEPT !.alive = FALSE]
<1>. DEFINE yes == TRUE
            no == FALSE
<1>. HIDE DEF yes, no
<1>1. Seen(state, yes).state = state /\ Seen(state, no).state = state
  BY DEF Seen
<1>2. Seen(state, yes).alive = yes
  BY DEF Seen
<1>3. [Seen(state, yes) EXCEPT !.alive = no] = Seen(state, no)
  BY DEF Seen
<1>4. Seen(state, TRUE).state = state /\ Seen(state, FALSE).state = state
  BY <1>1 DEF yes, no
<1>5. Seen(state, TRUE).alive = TRUE
  BY <1>2 DEF yes
<1>6. [Seen(state, TRUE) EXCEPT !.alive = FALSE] = Seen(state, FALSE)
  BY <1>3 DEF yes, no
<1>. QED
  BY Zenon, <1>4, <1>5, <1>6

LEMMA SeenNew ==
  ASSUME NEW alive
  PROVE  /\ Seen("Invalid", alive).state = "Invalid"
         /\ Seen("Requested", TRUE) = [Seen("Invalid", alive) EXCEPT !.state = "Requested", !.alive = TRUE]
<1>. DEFINE yes == TRUE
            old == "Invalid"
            new == "Requested"
<1>. HIDE DEF yes, old, new
<1>1. Seen("Invalid", alive).state = "Invalid"
  BY DEF Seen
<1>2. Seen(new, yes) = [Seen(old, alive) EXCEPT !.state = new, !.alive = yes]
  <2>1. [Seen(old, alive) EXCEPT !.state = new, !.alive = yes]
          = [[Seen(old, alive) EXCEPT !.state = new] EXCEPT !.alive = yes]
    OBVIOUS
  <2>2. [Seen(old, alive) EXCEPT !.state = new] = Seen(new, alive)
    BY DEF Seen
  <2>3. [Seen(new, alive) EXCEPT !.alive = yes] = Seen(new, yes)
    BY DEF Seen
  <2>. QED
    BY <2>1, <2>2, <2>3
<1>3. Seen("Requested", TRUE) = [Seen("Invalid", alive) EXCEPT !.state = "Requested", !.alive = TRUE]
  BY <1>2 DEF yes, old, new
<1>. QED
  BY Zenon, <1>1, <1>3

\* What the client sees of a server's step.
LEMMA ViewMoves ==
  ASSUME TInv, TInv', Exchange, UNCHANGED <<clientVars, mine>>,
         \A s \in Sessions : Rested(s) \/ Confirms(s) \/ Ends(s)
  PROVE  [CP!Next]_(CP!vars)
<1>1. UNCHANGED <<pool, spare, config, phase, header, requests, stack, deepest>> /\ mine' = mine
  BY DEF clientVars
<1>2. CASE mine = None
  <2>1. None \notin sessionMap /\ None \notin sessionMap'
    BY NoneAssumption DEF TInv, TypeOK
  <2>2. View' = View
    BY <1>1, <1>2, <2>1 DEF View
  <2>. QED
    BY <1>1, <2>2 DEF CP!vars
<1>3. CASE mine # None
  <2>1. mine \in Sessions
    BY <1>3, MineIs
  <2>2. CASE Rested(mine)
    <3>1. View' = View
      BY <1>1, <1>3, <2>2 DEF View, Rested
    <3>. QED
      BY <1>1, <3>1 DEF CP!vars
  <2>3. CASE Confirms(mine)
    <3>1. View.state = "Requested" /\ View' = [View EXCEPT !.state = "Confirmed"]
      BY <1>1, <1>3, <2>3 DEF View, Confirms
    <3>2. CP!SessionConfirmed
      BY <1>1, <3>1 DEF CP!SessionConfirmed, CP!ServerMoves, View
    <3>. QED
      BY <3>2 DEF CP!Next
  <2>4. CASE Ends(mine)
    <3>0. /\ session'[mine].state = session[mine].state /\ mine' = mine
          /\ (mine \in sessionMap) = TRUE /\ (mine' \in sessionMap') = FALSE
      BY <1>1, <2>4 DEF Ends
    <3>1. View = Seen(session[mine].state, TRUE) /\ View' = Seen(session[mine].state, FALSE)
      BY <1>3, <3>0 DEF View, Seen
    <3>2. View.alive = TRUE /\ View' = [View EXCEPT !.alive = FALSE]
      BY <3>1, SeenEnd
    <3>3. View.state = View'.state
      BY <3>1, SeenEnd
    <3>4. CP!SessionEnds
      BY <1>1, <3>2 DEF CP!SessionEnds, CP!ServerMoves, View
    <3>. QED
      BY <3>4 DEF CP!Next
  <2>. QED
    BY <2>1, <2>2, <2>3, <2>4
<1>. QED
  BY <1>2, <1>3

ServerDoes ==
  /\ [CP!Next]_(CP!vars)
  /\ UNCHANGED requests
  /\ [Next]_vars
  /\ Exchange' /\ VInv'

\* A step is what the client and the exchange need of it.
LEMMA ServingDoes ==
  ASSUME SInv, Serving, memory = "sound", UNCHANGED <<clientVars, mine>>,
         request'[1] = request[1] \/ Proceeds(Own, Own')
  PROVE  ServerDoes
<1>1. Next
  BY ServingIsNext
<1>2. TInv'
  BY <1>1, TypingStep DEF SInv
<1>3. \A s \in Sessions : Rested(s) \/ Confirms(s) \/ Ends(s)
  BY SessionMoves DEF SInv
<1>4. [CP!Next]_(CP!vars)
  BY <1>2, <1>3, ViewMoves DEF SInv
<1>5. Exchange'
  BY <1>3, ExchangeElsewhere, ExchangeProceeds DEF SInv
<1>6. VInv'
  BY VersionStep DEF SInv
<1>. QED
  BY <1>1, <1>4, <1>5, <1>6 DEF ServerDoes, clientVars

\* A step of another request leaves the client's alone.
LEMMA OtherRequest ==
  ASSUME TInv, NEW r \in Others,
         \/ Progress(r) \/ Start(r) \/ Yield(r) \/ \E status : Refuse(r, status)
         \/ \E s, version, body : FindSession(r, s, version, body)
  PROVE  request'[1] = request[1]
<1>1. r \in Requests /\ 1 \in Requests /\ r # 1 /\ request \in [Requests -> RequestType]
  BY ConnectionAssumption DEF Others, TInv, TypeOK
<1>2. \E q : request' = [request EXCEPT ![r] = q]
  <2>1. CASE Progress(r) \/ Start(r) \/ Yield(r)
    BY <2>1, OneRequest
  <2>2. CASE \E status : Refuse(r, status)
    BY <2>2 DEF Refuse
  <2>3. CASE \E s, version, body : FindSession(r, s, version, body)
    BY <2>3 DEF FindSession, Accept
  <2>. QED
    BY <2>1, <2>2, <2>3
<1>. QED
  BY <1>1, <1>2

LEMMA ServerStepDoes == SInv /\ memory = "sound" /\ ServerStep => ServerDoes
<1>. SUFFICES ASSUME SInv, memory = "sound", ServerStep PROVE ServerDoes
  OBVIOUS
<1>1. UNCHANGED <<clientVars, mine>>
  BY DEF ServerStep
<1>2. ASSUME NEW r \in Others, NEW s \in Sessions, NEW version \in Headers, NEW body \in OtherBodies,
             Validate(r, s, version, body)
      PROVE  ServerDoes
  <2>1. r \in Requests /\ body \in Body
    BY <1>2, OtherBodiesAssumption DEF Others
  <2>2. Refuse(r, 404) \/ FindSession(r, s, version, body)
    BY <1>2 DEF Validate, RefuseUnknownSession, RefuseUnconfirmed
  <2>3. Serving
    BY <2>1, <2>2 DEF Serving
  <2>4. request'[1] = request[1]
    BY <2>2, OtherRequest DEF SInv
  <2>. QED
    BY <1>1, <2>3, <2>4, ServingDoes
<1>3. ASSUME NEW r \in Requests, Progress(r) \/ Start(r) \/ Yield(r)
      PROVE  ServerDoes
  <2>1. Serving /\ Proceeds(request[r], request'[r])
    BY <1>3, RequestProceeds DEF SInv
  <2>2. r # 1 => request'[1] = request[1]
    BY <1>3, OtherRequest DEF SInv, Others
  <2>3. request'[1] = request[1] \/ Proceeds(Own, Own')
    BY <2>1, <2>2 DEF Own
  <2>. QED
    BY <1>1, <2>1, <2>3, ServingDoes
<1>4. ASSUME JanitorSweep \/ Tick \/ \E s \in Sessions : RemoveSession(s)
      PROVE  ServerDoes
  <2>1. Serving /\ request' = request
    BY <1>4 DEF Serving, JanitorSweep, Tick, RemoveSession
  <2>. QED
    BY <1>1, <2>1, ServingDoes
<1>. QED
  BY <1>2, <1>3, <1>4 DEF ServerStep

LEMMA PostedType ==
  /\ InitializeRequest \in Body
  /\ Notification_Initialized \in Body
  /\ PingRequest \in Body
  /\ \A level \in Levels : SetLevelRequest(level) \in Body
<1>1. ASSUME NEW call \in Call, NEW found \in Found
      PROVE  [array |-> FALSE, calls |-> <<call>>, found |-> found] \in Body
  <2>. DEFINE C == Call
              F == Found
              Arrays == [array : {TRUE}, calls : UNION {[1..n -> C] : n \in 1..MaxBatch}, found : F]
  <2>1. Body = [array : {FALSE}, calls : [1..1 -> C], found : F] \cup Arrays
    BY DEF Body
  <2>. HIDE DEF C, F, Arrays
  <2>2. <<call>> \in [1..1 -> C] /\ found \in F
    BY DEF C, F
  <2>. QED
    BY <2>1, <2>2
<1>2. [method |-> "initialize", arg |-> Client!Asked] \in Call
  BY ServerVersionsAssumption DEF Call
<1>3. /\ [method |-> "notifications/initialized", arg |-> 0] \in Call
      /\ [method |-> "ping", arg |-> 0] \in Call
  BY DEF Call
<1>4. \A level \in Levels : [method |-> "logging/setLevel", arg |-> level] \in Call
  BY DEF Call
<1>5. ASSUME NEW method, NEW arg, [method |-> method, arg |-> arg] \in Call
      PROVE  Single(method, arg) \in Body
  BY <1>1, <1>5 DEF Single, Found
<1>. QED
  BY <1>2, <1>3, <1>4, <1>5
     DEF InitializeRequest, Notification_Initialized, PingRequest, SetLevelRequest

LEMMA DeliverDoes == SInv /\ memory = "sound" /\ Deliver => ServerDoes
<1>. SUFFICES ASSUME SInv, memory = "sound", Deliver PROVE ServerDoes
  OBVIOUS
<1>1. /\ Waiting /\ Own.phase = "idle" /\ Own.status = 0 /\ Connection = 1
      /\ phase \in {"initialize", "initialized", "ready"} /\ UNCHANGED clientVars
  BY WaitingFor DEF Deliver, Answered, Own
<1>2. 1 \in Requests /\ request \in [Requests -> RequestType]
  BY ConnectionAssumption DEF SInv, TInv, TypeOK
<1>3. CASE phase = "initialize"
  <2>1. mine = None
    BY <1>1, <1>3 DEF SInv, Exchange, Initializing
  <2>2. CASE Refuse(1, 403) /\ mine' = mine
    <3>1. Serving
      BY <1>2, <2>2 DEF Serving
    <3>2. TInv' /\ Next
      BY <3>1, ServingIsNext, TypingStep DEF SInv
    <3>3. \A s \in Sessions : Rested(s) \/ Confirms(s) \/ Ends(s)
      BY <3>1, SessionMoves DEF SInv
    <3>4. [CP!Next]_(CP!vars)
      BY <1>1, <2>2, <3>2, <3>3, ViewMoves DEF SInv
    <3>5. Own'.phase = "idle" /\ Own'.status = 403
      BY <1>2, <2>2 DEF Refuse, Own, Idle
    <3>6. Exchange'
      BY <1>1, <1>3, <2>1, <2>2, <3>5 DEF Exchange, Initializing, clientVars
    <3>7. VInv'
      BY <3>1, VersionStep DEF SInv
    <3>. QED
      BY <1>1, <3>2, <3>4, <3>6, <3>7 DEF ServerDoes, clientVars
  <2>3. ASSUME NEW s \in Sessions, CreateSession(1, s, None, InitializeRequest), mine' = s
        PROVE  ServerDoes
    <3>1. /\ Own'.phase = "admitted" /\ s \in sessionMap'
          /\ session'[s].state = "Requested"
      BY <1>2, <2>3 DEF CreateSession, Accept, Own, Fresh, SInv, TInv, TypeOK
    <3>2. mine' # None
      BY <2>3, NoneAssumption
    <3>3. Exchange'
      BY <1>1, <1>3, <2>3, <3>1, <3>2 DEF Exchange, Initializing, clientVars
    <3>4. None \notin sessionMap
      BY NoneAssumption DEF SInv, TInv, TypeOK
    <3>5. /\ View.state = "Invalid"
          /\ View' = [View EXCEPT !.state = "Requested", !.alive = TRUE]
      <4>1. (mine' \in sessionMap') = TRUE /\ session'[mine'].state = "Requested"
        BY <2>3, <3>1
      <4>2. View' = Seen("Requested", TRUE)
        BY <3>2, <4>1 DEF View, Seen
      <4>3. View = Seen("Invalid", mine \in sessionMap)
        BY <2>1 DEF View, Seen
      <4>. QED
        BY <4>2, <4>3, SeenNew
    <3>6. CP!SessionCreated
      BY <1>1, <1>3, <3>5 DEF CP!SessionCreated, CP!ServerMoves, clientVars, View
    <3>7. Next
      BY <1>2, <2>3, PostedType DEF Next, Receive, Headers
    <3>8. VInv'
      BY <1>2, <2>3, VersionBegins DEF SInv
    <3>. QED
      BY <1>1, <3>3, <3>6, <3>7, <3>8 DEF ServerDoes, CP!Next, clientVars
  <2>. QED
    BY <1>1, <1>3, <2>2, <2>3 DEF Deliver
<1>4. CASE phase # "initialize"
  <2>1. mine # None /\ mine \in Sessions /\ mine' = mine /\ UNCHANGED <<clientVars, mine>>
    BY <1>1, <1>4, MineIs DEF Deliver, SInv, Exchange
  <2>2. header \in Headers
    BY ClientConstants DEF SInv, CP!CInv, CP!TypeOK, Headers
  <2>3. PICK body \in PostedBodies : Validate(1, mine, header, body)
    BY <1>1, <1>4 DEF Deliver
  <2>4. body \in Body
    BY PostedType DEF PostedBodies
  <2>5. \/ phase = "initialized" /\ body = Notification_Initialized
        \/ phase = "ready" /\ session[mine].state = "Confirmed"
    BY <1>1, <1>4 DEF PostedBodies, SInv, Exchange
  <2>6. Notification_Initialized.found \in Handshake
    BY DEF Notification_Initialized, Single, Early, Handshake
  <2>7. \/ mine \notin sessionMap /\ Refuse(1, 404)
        \/ FindSession(1, mine, header, body)
    BY <2>3, <2>5, <2>6 DEF Validate, RefuseUnknownSession, RefuseUnconfirmed
  <2>8. Serving
    BY <1>2, <2>1, <2>2, <2>4, <2>7 DEF Serving
  <2>9. TInv' /\ Next
    BY <2>8, ServingIsNext, TypingStep DEF SInv
  <2>10. \A s \in Sessions : Rested(s) \/ Confirms(s) \/ Ends(s)
    BY <2>8, SessionMoves DEF SInv
  <2>11. [CP!Next]_(CP!vars)
    BY <2>1, <2>9, <2>10, ViewMoves DEF SInv
  <2>12. session' = session /\ sessionMap' = sessionMap
    BY <2>7 DEF Refuse, FindSession
  <2>13. \/ mine \notin sessionMap /\ Own'.phase = "idle" /\ Own'.status = 404
         \/ /\ Own'.phase = "found" /\ Own'.session = mine /\ Own'.header = header
            /\ Own'.array = body.array /\ Own'.calls = body.calls
    BY <1>2, <2>7 DEF Refuse, FindSession, Accept, Own, Idle
  <2>14. phase = "initialized" => Confirming'
    <3>1. /\ Notification_Initialized.array = FALSE
          /\ Notification_Initialized.calls = <<[method |-> "notifications/initialized", arg |-> 0]>>
      BY DEF Notification_Initialized, Single
    <3>. QED
      BY <1>1, <2>1, <2>5, <2>12, <2>13, <3>1 DEF Confirming, clientVars, PostedBodies
  <2>15. phase = "ready" => Asking'
    BY <1>1, <2>1, <2>12, <2>13 DEF Asking, clientVars
  <2>16. Exchange'
    BY <1>1, <1>4, <2>1, <2>12, <2>14, <2>15 DEF SInv, Exchange, clientVars
  <2>17. VInv'
    BY <2>8, VersionStep DEF SInv
  <2>. QED
    BY <1>1, <2>9, <2>11, <2>16, <2>17 DEF ServerDoes, clientVars
<1>. QED
  BY <1>3, <1>4

----------------------------------------------------------------------------
(* The system.                                                             *)

LEMMA SystemMoves ==
  ASSUME SInv, [SystemNext]_systemVars
  PROVE  \/ UNCHANGED systemVars
         \/ ClientDoes
         \/ ServerDoes
<1>1. ASSUME Construct \/ InitializeAnswered \/ InitializeFailed \/ InitializedAnswered PROVE ClientDoes
  BY <1>1, ConstructDoes, InitializeAnsweredDoes, InitializeFailedDoes, InitializedAnsweredDoes
<1>2. ASSUME SendRequest \/ RequestAnswered \/ RequestHandled PROVE ClientDoes
  BY <1>2, SendRequestDoes, RequestAnsweredDoes, RequestHandledDoes
<1>3. ASSUME memory = "sound", Deliver \/ ServerStep PROVE ServerDoes
  BY <1>3, DeliverDoes, ServerStepDoes
<1>. QED
  BY <1>1, <1>2, <1>3 DEF SystemNext, Handshaking, Requesting, Lost

\* Every state of the system is one in which the exchange is in order.
LEMMA SystemInvariant == SystemSpec => []SInv
<1>1. SystemInit => SInv
  <2>. SUFFICES ASSUME SystemInit PROVE SInv
    OBVIOUS
  <2>1. TInv /\ CInv /\ HInv /\ VInv
    BY InitialTypes, InitialCallbacks, InitialHandshake
       DEF SystemInit, Init, Idle, Fresh, VInv, ProtocolIsFixed, Compared
  <2>2. CP!Init
    BY SameInit DEF SystemInit
  <2>3. CP!CInv
    BY <2>2, CP!CInitial, ClientConstants
  <2>4. pool = 0 /\ stack = <<>> /\ spare = <<>> /\ phase = "new" /\ mine = None
    BY <2>2 DEF CP!Init, CP!PoolInit, SystemInit
  <2>. QED
    BY <2>1, <2>3, <2>4 DEF SInv, Alone, Exchange
<1>2. SInv /\ [SystemNext]_systemVars => SInv'
  <2>. SUFFICES ASSUME SInv, [SystemNext]_systemVars PROVE SInv'
    OBVIOUS
  <2>1. CASE ClientDoes
    <3>1. CP!CInv' /\ Alone'
      BY <2>1, ClientKept DEF ClientDoes
    <3>2. TInv' /\ CInv' /\ HInv' /\ VInv'
      <4>1. CASE Reposted
        BY <4>1, RepostStep DEF SInv
      <4>2. CASE UNCHANGED vars
        BY <4>2, TypingStep, CallbackStep, HandshakeStep DEF SInv, vars, VInv, ProtocolIsFixed, Compared
      <4>. QED
        BY <2>1, <4>1, <4>2 DEF ClientDoes
    <3>. QED
      BY <2>1, <3>1, <3>2 DEF ClientDoes, SInv
  <2>2. CASE ServerDoes
    <3>1. CP!CInv' /\ Alone'
      BY <2>2, ClientKept DEF ServerDoes
    <3>2. TInv' /\ CInv' /\ HInv'
      BY <2>2, TypingStep, CallbackStep, HandshakeStep DEF ServerDoes, SInv
    <3>. QED
      BY <2>2, <3>1, <3>2 DEF ServerDoes, SInv
  <2>3. CASE UNCHANGED systemVars
    <3>1. UNCHANGED vars /\ UNCHANGED <<clientVars, mine, request>> /\ UNCHANGED CP!vars
      BY <2>3 DEF systemVars, vars, clientVars, CP!vars, View
    <3>2. CP!CInv' /\ Alone'
      BY <3>1, ClientKept DEF clientVars
    <3>3. TInv' /\ CInv' /\ HInv' /\ VInv'
      BY <3>1, TypingStep, CallbackStep, HandshakeStep DEF SInv, vars, VInv, ProtocolIsFixed, Compared
    <3>4. \A s \in Sessions : Rested(s)
      BY <3>1 DEF vars, Rested
    <3>5. Exchange'
      BY <3>1, <3>4, ExchangeElsewhere DEF SInv
    <3>. QED
      BY <3>2, <3>3, <3>5 DEF SInv
  <2>. QED
    BY <2>1, <2>2, <2>3, SystemMoves
<1>. QED
  BY <1>1, <1>2, PTL DEF SystemSpec

\* The server does with the client's session, and answers to its handshake, only what
\* ClientMCP relies on: whoever else knows the session, and whatever they send for it,
\* batches and texts that hide a method included, neither resets its state nor changes its
\* version between the two posts of the handshake or later.
THEOREM ClientImplemented == SystemSpec => ImplementsClient
<1>1. SystemInit => Client!Init
  BY DEF SystemInit
<1>2. SInv /\ [SystemNext]_systemVars => [Client!Next]_(Client!vars)
  <2>1. UNCHANGED systemVars => UNCHANGED CP!vars
    BY DEF systemVars, clientVars, CP!vars, View
  <2>. QED
    BY <2>1, SystemMoves, SameNext DEF ClientDoes, ServerDoes
<1>. QED
  BY <1>1, <1>2, SystemInvariant, PTL DEF SystemSpec, ImplementsClient, Client!Spec

\* A client whose constructor has returned is refused only when its session has ended
\* (validateRequest finds the state and the version that the handshake has left).
THEOREM ReadyServed == SystemSpec => []ReadyIsServed
<1>1. SInv => ReadyIsServed
  <2>. SUFFICES ASSUME SInv, phase = "ready", NEW status \in {400, 403, 404}, Answered(status)
                PROVE  mine \notin sessionMap
    BY DEF ReadyIsServed
  <2>1. Waiting /\ Own.phase = "idle" /\ Own.status = status
    BY WaitingFor DEF Answered, Own
  <2>. QED
    BY <2>1 DEF SInv, Exchange, Asking
<1>. QED
  BY <1>1, SystemInvariant, PTL

\* The logging library's callbacks are those of the live sessions here too; and where the
\* newest version has no batches, no call runs before the handshake it needs, unless the text
\* of its body hides it: the client's posts open no other way.
THEOREM ServerKeeps ==
  /\ SystemSpec => []CallbacksMatchSessions
  /\ MaxProtocol >= FirstWithoutBatch => (SystemSpec => []HandshakeComesFirst)
<1>1. SystemSpec => []CallbacksMatchSessions
  BY SystemInvariant, PTL DEF SInv, CInv
<1>2. ASSUME MaxProtocol >= FirstWithoutBatch PROVE SInv => HandshakeComesFirst
  BY <1>2, NextIsEarly DEF SInv
<1>3. ASSUME MaxProtocol >= FirstWithoutBatch PROVE SystemSpec => []HandshakeComesFirst
  BY <1>2, <1>3, SystemInvariant, PTL
<1>. QED
  BY <1>1, <1>3

\* A session keeps the version it was created with, however often anybody confirms it and
\* in whatever texts: who shares the client's session was compared with that version, and
\* the client made it with a call that stores none.
THEOREM VersionFixed == SystemSpec => []ProtocolIsFixed
  BY SystemInvariant, PTL DEF SInv, VInv

\* And what holds of the client against any such server holds of it with this one: when the
\* constructor returns the server has confirmed the session, with the version the client
\* goes on to send.
THEOREM ReadyIsConfirmedHere == SystemSpec => []Client!ReadyIsConfirmed
<1>1. SInv => Client!ReadyIsConfirmed
  <2>. SUFFICES ASSUME SInv, phase = "ready" PROVE Client!ReadyIsConfirmed
    BY DEF Client!ReadyIsConfirmed
  <2>. QED
    BY DEF SInv, Exchange, CP!CInv, CP!Phases, Client!ReadyIsConfirmed
<1>. QED
  BY <1>1, SystemInvariant, PTL

\* What the client promises its callers for every server that keeps to ClientMCP it promises
\* them with this one: no connection is shared or lost, and a request that returns has had
\* exactly one callback called (handleRespFromServer).
THEOREM ClientKeeps == SystemSpec => []Client!ConnectionsApart /\ Client!OneOutcome
<1>1. SystemInit => CP!Init
  BY SameInit DEF SystemInit
<1>2. SInv /\ [SystemNext]_systemVars => [CP!Next]_(CP!vars)
  <2>1. UNCHANGED systemVars => UNCHANGED CP!vars
    BY DEF systemVars, clientVars, CP!vars, View
  <2>. QED
    BY <2>1, SystemMoves DEF ClientDoes, ServerDoes
<1>3. SystemSpec => CP!Spec
  BY <1>1, <1>2, SystemInvariant, PTL DEF SystemSpec, CP!Spec
<1>4. CP!Spec => []CP!ConnectionsApart
  BY CP!ConnectionsKept, ClientConstants
<1>5. CP!ConnectionsApart => Client!ConnectionsApart
  BY DEF CP!ConnectionsApart, CP!Lent, CP!Spare, Client!ConnectionsApart, Client!Lent, Client!Spare
<1>6. CP!Spec => CP!OneOutcome
  BY CP!OutcomeIsOne, ClientConstants
<1>. DEFINE Told(top) == phase = "ready" /\ Len(stack') < Len(stack) /\ top.step = "reading" =>
                           IF top.kind = "stream" THEN top.actions <= 1 ELSE top.actions + top.errors = 1
<1>7. [Told(CP!Top)]_(CP!vars) => [Told(Client!Top)]_(Client!vars)
  BY SameVars DEF CP!Top, Client!Top, Client!vars, CP!vars, View
<1>8. CP!OneOutcome => Client!OneOutcome
  BY <1>7, PTL DEF CP!OneOutcome, Client!OneOutcome
<1>. QED
  BY <1>3, <1>4, <1>5, <1>6, <1>8, PTL

----------------------------------------------------------------------------
(* What holds of the server's steps holds here too: the client adds only   *)
(* that a message comes over a connection that is idle.                    *)

\* While nothing is waited for, no request runs on the client's connection.
Quiet == ~Waiting => Own.phase = "idle"

LEMMA ClientIsIdle ==
  ASSUME SInv, Quiet, Handshaking \/ SendRequest \/ Requesting
  PROVE  Own.phase = "idle"
<1>1. ASSUME NEW status, Answered(status) PROVE Own.phase = "idle"
  BY <1>1, WaitingFor DEF Answered, Own
<1>2. ASSUME ~Waiting PROVE Own.phase = "idle"
  BY <1>2 DEF Quiet
<1>3. CASE Construct
  <2>1. stack = <<>>
    BY <1>3 DEF Construct, Client!Construct, SInv, CP!CInv, CP!Phases
  <2>. QED
    BY <1>2, <2>1 DEF Waiting
<1>4. CASE SendRequest
  BY <1>2, <1>4 DEF SendRequest, Waiting
<1>5. CASE InitializeAnswered
  BY <1>1, <1>5 DEF InitializeAnswered
<1>6. CASE InitializeFailed
  BY <1>1, <1>6 DEF InitializeFailed
<1>7. CASE InitializedAnswered
  BY <1>1, <1>7 DEF InitializedAnswered
<1>8. CASE RequestAnswered
  BY <1>1, <1>8 DEF RequestAnswered
<1>9. CASE RequestHandled
  <2>1. ~Waiting
    BY <1>9 DEF RequestHandled, Waiting, Client!HandleResponse, Client!CallbackReturns, Client!RequestReturns
  <2>. QED
    BY <1>2, <2>1
<1>. QED
  BY <1>3, <1>4, <1>5, <1>6, <1>7, <1>8, <1>9 DEF Handshaking, Requesting

\* A request that steps is not idle.
LEMMA BusySteps ==
  ASSUME NEW r \in Requests, Progress(r) \/ Start(r) \/ Yield(r)
  PROVE  request[r].phase # "idle"
  BY DEF Progress, RunCall, Start, CheckProtocol, Finish, Ping, Initialize, NotificationsInitialized,
     LoggingSetLevel, Execute, Join, Resume, Yield

LEMMA ServerStepQuiet ==
  ASSUME SInv, Quiet, ServerStep
  PROVE  Quiet'
<1>1. Waiting' <=> Waiting
  BY DEF ServerStep, clientVars, Waiting, Client!Top
<1>2. ASSUME request'[1] = request[1] PROVE Quiet'
  BY <1>1, <1>2 DEF Quiet, Own
<1>3. ASSUME NEW r \in Others, NEW s \in Sessions, NEW version \in Headers, NEW body \in OtherBodies,
             Validate(r, s, version, body)
      PROVE  Quiet'
  <2>1. Refuse(r, 404) \/ FindSession(r, s, version, body)
    BY <1>3 DEF Validate, RefuseUnknownSession, RefuseUnconfirmed
  <2>. QED
    BY <1>2, <2>1, OtherRequest DEF SInv
<1>4. ASSUME NEW r \in Requests, Progress(r) \/ Start(r) \/ Yield(r) PROVE Quiet'
  <2>1. CASE r = 1
    BY <1>1, <1>4, <2>1, BusySteps DEF Quiet, Own
  <2>2. CASE r # 1
    BY <1>2, <1>4, <2>2, OtherRequest DEF SInv, Others
  <2>. QED
    BY <2>1, <2>2
<1>5. ASSUME JanitorSweep \/ Tick \/ \E s \in Sessions : RemoveSession(s) PROVE Quiet'
  BY <1>2, <1>5 DEF JanitorSweep, Tick, RemoveSession
<1>. QED
  BY <1>3, <1>4, <1>5 DEF ServerStep

\* A step is one of the server by itself, or posts a message over the idle connection.
LEMMA ServerMoves ==
  ASSUME SInv, Quiet, [SystemNext]_systemVars
  PROVE  Quiet' /\ ([Next]_vars \/ (Own.phase = "idle" /\ Reposted))
<1>1. CASE Handshaking \/ SendRequest \/ Requesting
  <2>1. Own.phase = "idle"
    BY <1>1, ClientIsIdle
  <2>2. UNCHANGED vars \/ Reposted
    BY <1>1, ConstructDoes, InitializeAnsweredDoes, InitializeFailedDoes, InitializedAnsweredDoes,
       SendRequestDoes, RequestAnsweredDoes, RequestHandledDoes
       DEF ClientDoes, Handshaking, Requesting
  <2>3. Own'.phase = "idle"
    BY <2>1, <2>2, RepostStep DEF SInv, vars, Own
  <2>. QED
    BY <2>1, <2>2, <2>3 DEF Quiet
<1>2. CASE memory = "sound" /\ ServerStep
  BY <1>2, ServerStepDoes, ServerStepQuiet DEF ServerDoes
<1>3. CASE memory = "sound" /\ Deliver
  <2>1. Waiting /\ UNCHANGED clientVars
    BY <1>3 DEF Deliver, Answered
  <2>2. Waiting'
    BY <2>1 DEF clientVars, Waiting, Client!Top
  <2>. QED
    BY <1>3, <2>2, DeliverDoes DEF ServerDoes, Quiet
<1>4. CASE UNCHANGED systemVars
  BY <1>4 DEF systemVars, clientVars, vars, Quiet, Waiting, Client!Top, Own
<1>. QED
  BY <1>1, <1>2, <1>3, <1>4 DEF SystemNext, Lost

LEMMA QuietInvariant == SystemSpec => []Quiet
<1>1. SystemInit => Quiet
  BY ConnectionAssumption DEF SystemInit, Init, Idle, Quiet, Own
<1>2. SInv /\ Quiet /\ [SystemNext]_systemVars => Quiet'
  BY ServerMoves
<1>. QED
  BY <1>1, <1>2, SystemInvariant, PTL DEF SystemSpec

\* A message over an idle connection: what is idle stays idle.
LEMMA RepostLogs ==
  ASSUME TInv, Own.phase = "idle", Reposted
  PROVE  (KInv => KInv') /\ (OInv => OInv')
<1>1. /\ 1 \in Requests /\ request' = [request EXCEPT ![1] = Idle(0)]
      /\ session' = session /\ request[1].phase = "idle" /\ Idle(0).phase = "idle"
  BY ConnectionAssumption DEF Reposted, Own, Idle
<1>2. KInv => KInv'
  BY <1>1, NotRunning, ThreadsKept
<1>3. OInv => OInv'
  BY <1>1, OneRequestSteps
<1>. QED
  BY <1>2, <1>3

\* However the client's requests share the server's threads with those of others: without
\* the level emergency, what a thread logs for the client's session goes to no other session,
\* and what it logs for others does not go to the client's.
THEOREM LogsStayApartHere ==
  ASSUME Emergency \notin Levels
  PROVE  SystemSpec => []NoForeignLog
<1>1. SystemInit => KInv
  BY DEF SystemInit, Init, Idle, Fresh, KInv, Apart, KnownRun, KnownSet, OnThread
<1>2. SInv /\ Quiet /\ KInv /\ [SystemNext]_systemVars => KInv'
  BY ServerMoves, ThreadStep, RepostLogs DEF SInv
<1>3. SInv /\ KInv => NoForeignLog
  BY KnownApart DEF SInv
<1>. QED
  BY <1>1, <1>2, <1>3, SystemInvariant, QuietInvariant, PTL DEF SystemSpec

\* And for all levels: a client's request that is heard is heard until it yields or logging
\* is turned off, for a post of another request never takes its thread.
THEOREM OwnLogHeardHere == SystemSpec => OwnLogIsHeard
<1>1. SystemInit => OInv
  BY DEF SystemInit, Init, Idle, OInv, Apart, Begun, OnThread
<1>2. SInv /\ Quiet /\ OInv /\ [SystemNext]_systemVars => OInv'
  BY ServerMoves, ApartStep, RepostLogs DEF SInv
<1>3. SInv /\ Quiet /\ OInv /\ [SystemNext]_systemVars =>
        \A r \in Requests :
          LET s == request[r].session
              heard == session[s].hasBeenSet /\ Logs(s, request[r].thread) IN
          request[r].phase = "running" /\ request'[r].phase = "running" /\ heard
            => heard' \/ ~session'[s].hasBeenSet
  <2>. SUFFICES ASSUME SInv, Quiet, OInv, [SystemNext]_systemVars, NEW r \in Requests,
                       request[r].phase = "running", request'[r].phase = "running",
                       Logs(request[r].session, request[r].thread)
                PROVE  /\ request'[r].session = request[r].session /\ request'[r].thread = request[r].thread
                       /\ request[r].thread \in session'[request[r].session].knownThreads
    BY DEF Logs
  <2>1. CASE [Next]_vars
    BY <2>1, HeardStep DEF SInv
  <2>2. CASE Own.phase = "idle" /\ Reposted
    <3>1. r # 1 /\ session' = session /\ request' = [request EXCEPT ![1] = Idle(0)]
      BY <2>2 DEF Reposted, Own
    <3>2. request'[r] = request[r]
      BY <3>1 DEF SInv, TInv, TypeOK
    <3>. QED
      BY <3>1, <3>2 DEF Logs
  <2>. QED
    BY <2>1, <2>2, ServerMoves
<1>. QED
  BY <1>1, <1>2, <1>3, SystemInvariant, QuietInvariant, PTL DEF SystemSpec, OwnLogIsHeard, systemVars, vars

\* The client's session, and every other, is requested, confirmed and ended in that order
\* and is listened to only while it lives: its posts change nothing of that by themselves.
THEOREM LifecycleImplementedHere == SystemSpec => ImplementsLifecycle
<1>1. SystemInit => Lifecycle!Init /\ Heard
  BY LifecycleBegins DEF SystemInit, Init, Heard
<1>2. SInv /\ Quiet /\ Heard /\ [SystemNext]_systemVars => Heard'
  <2>1. Reposted /\ Heard => Heard'
    BY DEF Reposted, Heard
  <2>. QED
    BY <2>1, ServerMoves, HeardKept DEF SInv
<1>3. SInv /\ SInv' /\ Quiet /\ Heard /\ [SystemNext]_systemVars => [Lifecycle!Next]_<<stages, listening>>
  <2>1. Reposted => LStep
    BY NoLifecycleStep DEF Reposted, listening
  <2>. QED
    BY <2>1, ServerMoves, LifecycleStep DEF SInv, LStep
<1>. QED
  BY <1>1, <1>2, <1>3, SystemInvariant, QuietInvariant, PTL
     DEF SystemSpec, ImplementsLifecycle, Lifecycle!Spec, stages, listening
=============================================================================
