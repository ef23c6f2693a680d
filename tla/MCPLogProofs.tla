---------------------------- MODULE MCPLogProofs ----------------------------
(***************************************************************************)
(* Where the log of a request goes, when no client asks for the level      *)
(* emergency: setLogging with it forgets that logging was set, and then    *)
(* requestRemove does nothing (the run StaleThreads shows what follows).   *)
(* And, for all levels, that a request which is heard stays heard.         *)
(***************************************************************************)
EXTENDS MCPServerProofs

OnThread(r, t) == request[r].phase = "running" /\ request[r].thread = t

\* A thread runs one request.
Apart ==
  \A p, q \in Requests : \A t \in Threads : OnThread(p, t) /\ OnThread(q, t) => p = q

\* The threads a session knows run its requests at this moment.
KnownRun ==
  \A s \in Sessions : \A t \in session[s].knownThreads :
    \E r \in Requests : OnThread(r, t) /\ request[r].session = s

KnownSet == \A s \in Sessions : session[s].knownThreads # {} => session[s].hasBeenSet

KInv == Apart /\ KnownRun /\ KnownSet

\* No request gets or gives away a thread, no session learns of a thread.
KeepsThreads ==
  /\ \A p \in Requests : /\ request'[p].phase = "running" <=> request[p].phase = "running"
                         /\ request[p].phase = "running" => /\ request'[p].thread = request[p].thread
                                                            /\ request'[p].session = request[p].session
  /\ \A s \in Sessions : /\ session'[s].knownThreads \subseteq session[s].knownThreads
                         /\ session'[s].knownThreads # {} /\ session[s].hasBeenSet => session'[s].hasBeenSet

LEMMA ThreadsKept ==
  ASSUME KInv, KeepsThreads PROVE KInv'
<1>1. Apart'
  BY DEF KInv, Apart, KeepsThreads, OnThread
<1>2. KnownRun'
  <2>. SUFFICES ASSUME NEW s \in Sessions, NEW t \in session'[s].knownThreads
                PROVE  \E r \in Requests : OnThread(r, t)' /\ request'[r].session = s
    BY DEF KnownRun
  <2>1. PICK r \in Requests : OnThread(r, t) /\ request[r].session = s
    BY DEF KInv, KnownRun, KeepsThreads
  <2>. QED
    BY <2>1 DEF KeepsThreads, OnThread
<1>3. KnownSet'
  BY DEF KInv, KnownSet, KeepsThreads
<1>. QED
  BY <1>1, <1>2, <1>3 DEF KInv

\* One request steps and runs neither before nor after.
LEMMA NotRunning ==
  ASSUME TInv, NEW r \in Requests, NEW q, request' = [request EXCEPT ![r] = q],
         request[r].phase # "running", q.phase # "running",
         \A s \in Sessions : /\ session'[s].knownThreads \subseteq session[s].knownThreads
                             /\ session'[s].knownThreads # {} => session'[s].hasBeenSet = session[s].hasBeenSet
  PROVE  KeepsThreads
  BY DEF TInv, TypeOK, KeepsThreads

\* A request gets a free thread; its session learns of it.
LEMMA ThreadGiven ==
  ASSUME TInv, KInv, NEW r \in Requests, NEW t \in Threads, NEW q,
         FreeThread(t), RequestAdd(request[r].session, t), request' = [request EXCEPT ![r] = q],
         request[r].phase \notin {"idle", "running"},
         q.phase = "running", q.thread = t, q.session = request[r].session
  PROVE  KInv'
<1>. DEFINE s == request[r].session
<1>1. s \in Sessions
  BY DEF TInv, Served
<1>2. /\ request'[r] = q
      /\ \A p \in Requests : p # r => request'[p] = request[p]
  BY DEF TInv, TypeOK
<1>3. \A x \in Sessions :
        /\ session'[x].hasBeenSet = session[x].hasBeenSet
        /\ x # s => session'[x].knownThreads = session[x].knownThreads
        /\ session'[x].knownThreads \subseteq session[x].knownThreads \cup {t}
        /\ ~session[x].hasBeenSet => session'[x].knownThreads = session[x].knownThreads
  BY <1>1 DEF TInv, TypeOK, SessionType, RequestAdd
<1>4. Apart'
  BY <1>2 DEF KInv, Apart, OnThread, FreeThread
<1>5. KnownRun'
  <2>. SUFFICES ASSUME NEW x \in Sessions, NEW u \in session'[x].knownThreads
                PROVE  \E p \in Requests : OnThread(p, u)' /\ request'[p].session = x
    BY DEF KnownRun
  <2>1. CASE x = s /\ u = t
    BY <1>2, <2>1 DEF OnThread
  <2>2. CASE ~(x = s /\ u = t)
    <3>1. u \in session[x].knownThreads
      BY <1>3, <2>2
    <3>2. PICK p \in Requests : OnThread(p, u) /\ request[p].session = x
      BY <3>1 DEF KInv, KnownRun
    <3>3. p # r
      BY <3>2 DEF OnThread
    <3>. QED
      BY <1>2, <3>2, <3>3 DEF OnThread
  <2>. QED
    BY <2>1, <2>2
<1>6. KnownSet'
  BY <1>3 DEF KInv, KnownSet
<1>. QED
  BY <1>4, <1>5, <1>6 DEF KInv

\* A running request gives its thread away; its session forgets it.
LEMMA ThreadTaken ==
  ASSUME TInv, KInv, NEW r \in Requests, NEW q,
         RequestRemove(request[r].session, request[r].thread), request' = [request EXCEPT ![r] = q],
         request[r].phase = "running", q.phase # "running"
  PROVE  KInv'
<1>. DEFINE s == request[r].session
            t == request[r].thread
<1>1. s \in Sessions /\ t \in Threads
  BY DEF TInv, Served
<1>2. /\ request'[r] = q
      /\ \A p \in Requests : p # r => request'[p] = request[p]
  BY DEF TInv, TypeOK
<1>3. \A x \in Sessions :
        /\ session'[x].hasBeenSet = session[x].hasBeenSet
        /\ session'[x].knownThreads \subseteq session[x].knownThreads
  BY <1>1 DEF TInv, TypeOK, SessionType, RequestRemove
<1>4. t \notin session'[s].knownThreads
  <2>1. CASE session[s].hasBeenSet
    BY <1>1, <2>1 DEF TInv, TypeOK, SessionType, RequestRemove
  <2>2. CASE ~session[s].hasBeenSet
    BY <1>1, <1>3, <2>2 DEF KInv, KnownSet
  <2>. QED
    BY <2>1, <2>2
<1>5. Apart'
  BY <1>2 DEF KInv, Apart, OnThread
<1>6. KnownRun'
  <2>. SUFFICES ASSUME NEW x \in Sessions, NEW u \in session'[x].knownThreads
                PROVE  \E p \in Requests : OnThread(p, u)' /\ request'[p].session = x
    BY DEF KnownRun
  <2>1. PICK p \in Requests : OnThread(p, u) /\ request[p].session = x
    BY <1>3 DEF KInv, KnownRun
  <2>2. p # r
    BY <1>4, <2>1 DEF OnThread
  <2>. QED
    BY <1>2, <2>1, <2>2 DEF OnThread
<1>7. KnownSet'
  BY <1>3 DEF KInv, KnownSet
<1>. QED
  BY <1>5, <1>6, <1>7 DEF KInv

LEMMA ThreadStep ==
  ASSUME Emergency \notin Levels, TInv, KInv, [Next]_vars
  PROVE  KInv'
<1>1. ASSUME UNCHANGED <<session, request>> PROVE KInv'
  BY <1>1, ThreadsKept DEF KeepsThreads
<1>2. ASSUME NEW r \in Requests, NEW status, Refuse(r, status) PROVE KInv'
  <2>1. request' = [request EXCEPT ![r] = Idle(status)] /\ Idle(status).phase = "idle"
    BY <1>2 DEF Refuse, Idle
  <2>. QED
    BY <1>2, <2>1, NotRunning, ThreadsKept DEF Refuse
<1>3. ASSUME NEW r \in Requests, NEW s \in Sessions, NEW header \in Headers, NEW body \in Body,
             CreateSession(r, s, header, body) PROVE KInv'
  <2>. DEFINE q == [phase |-> "admitted", status |-> 0, session |-> s, header |-> header,
                    array |-> body.array, hides |-> Hides(body), calls |-> body.calls, thread |-> None]
  <2>1. request' = [request EXCEPT ![r] = q] /\ request[r].phase # "running" /\ q.phase # "running"
    BY <1>3 DEF CreateSession, Accept
  <2>2. session' = [session EXCEPT ![s] = [Fresh EXCEPT !.state = "Requested", !.protocol = MaxProtocol]]
    BY <1>3 DEF CreateSession
  <2>3. \A x \in Sessions : x # s => session'[x] = session[x]
    BY <2>2 DEF TInv, TypeOK
  <2>4. session'[s].knownThreads = {}
    BY <2>2 DEF Fresh, TInv, TypeOK
  <2>5. \A x \in Sessions : /\ session'[x].knownThreads \subseteq session[x].knownThreads
                            /\ session'[x].knownThreads # {} => session'[x].hasBeenSet = session[x].hasBeenSet
    BY <2>3, <2>4
  <2>. HIDE DEF q
  <2>6. KeepsThreads
    BY <2>1, <2>5, NotRunning
  <2>. QED
    BY <2>6, ThreadsKept
<1>4. ASSUME NEW r \in Requests, NEW s \in Sessions, NEW header \in Headers, NEW body \in Body,
             FindSession(r, s, header, body) PROVE KInv'
  <2>. DEFINE q == [phase |-> "found", status |-> 0, session |-> s, header |-> header,
                    array |-> body.array, hides |-> Hides(body), calls |-> body.calls, thread |-> None]
  <2>1. request' = [request EXCEPT ![r] = q] /\ request[r].phase # "running" /\ q.phase # "running"
    BY <1>4 DEF FindSession, Accept
  <2>2. session' = session
    BY <1>4 DEF FindSession
  <2>. HIDE DEF q
  <2>. QED
    BY <2>1, <2>2, NotRunning, ThreadsKept
<1>5. ASSUME NEW r \in Requests, CheckProtocol(r) PROVE KInv'
  <2>. DEFINE q == IF request[r].header = session[request[r].session].protocol
                   THEN [request[r] EXCEPT !.phase = "admitted"] ELSE Idle(400)
  <2>1. request' = [request EXCEPT ![r] = q] /\ request[r] \in RequestType
    BY <1>5 DEF CheckProtocol, TInv, TypeOK
  <2>2. q.phase # "running"
    BY <2>1 DEF RequestType, Idle
  <2>. HIDE DEF q
  <2>3. request[r].phase # "running" /\ session' = session
    BY <1>5 DEF CheckProtocol
  <2>4. KeepsThreads
    BY <2>1, <2>2, <2>3, NotRunning
  <2>. QED
    BY <2>4, ThreadsKept
<1>6. ASSUME NEW r \in Requests, NEW t \in Threads, Join(r, t) PROVE KInv'
  <2>. DEFINE c == IF request[r].array /\ ~SupportBatchRequest(request[r].session)
                   THEN <<>> ELSE request[r].calls
              q == [request[r] EXCEPT !.phase = "running", !.thread = t, !.array = FALSE, !.calls = c]
  <2>1. request' = [request EXCEPT ![r] = q] /\ request[r] \in RequestType
    BY <1>6 DEF Join, TInv, TypeOK
  <2>2. q.phase = "running" /\ q.thread = t /\ q.session = request[r].session
    BY <2>1 DEF RequestType
  <2>. HIDE DEF q
  <2>. QED
    BY <1>6, <2>1, <2>2, ThreadGiven DEF Join
<1>7. ASSUME NEW r \in Requests, NEW t \in Threads, Resume(r, t) PROVE KInv'
  <2>. DEFINE q == [request[r] EXCEPT !.phase = "running", !.thread = t]
  <2>1. request' = [request EXCEPT ![r] = q] /\ request[r] \in RequestType
    BY <1>7 DEF Resume, TInv, TypeOK
  <2>2. q.phase = "running" /\ q.thread = t /\ q.session = request[r].session
    BY <2>1 DEF RequestType
  <2>. HIDE DEF q
  <2>. QED
    BY <1>7, <2>1, <2>2, ThreadGiven DEF Resume
<1>8. ASSUME NEW r \in Requests, Yield(r) PROVE KInv'
  <2>. DEFINE q == [request[r] EXCEPT !.phase = "suspended", !.thread = None]
  <2>1. request' = [request EXCEPT ![r] = q] /\ request[r] \in RequestType
    BY <1>8 DEF Yield, TInv, TypeOK
  <2>2. q.phase # "running"
    BY <2>1 DEF RequestType
  <2>. HIDE DEF q
  <2>. QED
    BY <1>8, <2>1, <2>2, ThreadTaken DEF Yield
<1>9. ASSUME NEW r \in Requests, Finish(r) PROVE KInv'
  <2>1. request' = [request EXCEPT ![r] = Idle(200)] /\ Idle(200).phase = "idle"
    BY <1>9 DEF Finish, Idle
  <2>. QED
    BY <1>9, <2>1, ThreadTaken DEF Finish
<1>10. ASSUME NEW r \in Requests,
              Ping(r) \/ Initialize(r) \/ NotificationsInitialized(r) \/ LoggingSetLevel(r)
       PROVE  KInv'
  <2>1. PICK method : Execute(r, method) /\ Head(request[r].calls).method = method
    BY <1>10 DEF Ping, Initialize, NotificationsInitialized, LoggingSetLevel, Execute
  <2>2. /\ request' = [request EXCEPT ![r] = [request[r] EXCEPT !.calls = Tail(request[r].calls)]]
        /\ request[r] \in RequestType /\ request[r].session \in Sessions
        /\ Head(request[r].calls) \in Call
    BY <2>1, ExecuteType DEF Execute, TInv, TypeOK
  <2>3. \A p \in Requests : /\ request'[p].phase = request[p].phase
                            /\ request'[p].thread = request[p].thread
                            /\ request'[p].session = request[p].session
    BY <2>2 DEF RequestType, TInv, TypeOK
  <2>4. \A s \in Sessions : /\ session'[s].knownThreads = session[s].knownThreads
                            /\ session[s].hasBeenSet => session'[s].hasBeenSet
    <3>1. CASE Ping(r) \/ Initialize(r)
      BY <3>1 DEF Ping, Initialize
    <3>2. CASE NotificationsInitialized(r)
      BY <3>2, <2>2 DEF NotificationsInitialized, TInv, TypeOK, SessionType
    <3>3. CASE LoggingSetLevel(r)
      <4>1. Head(request[r].calls).arg # Emergency
        BY <3>3, <2>2 DEF LoggingSetLevel, Execute, Call
      <4>2. session' = [session EXCEPT ![request[r].session].hasBeenSet = TRUE]
        BY <3>3, <4>1 DEF LoggingSetLevel
      <4>. QED
        BY <4>2, <2>2 DEF TInv, TypeOK, SessionType
    <3>. QED
      BY <1>10, <3>1, <3>2, <3>3
  <2>. QED
    BY <2>3, <2>4, ThreadsKept DEF KeepsThreads
<1>11. CASE (\E r \in Requests : Crash(r)) \/ (\E s \in Sessions : RemoveSession(s))
              \/ JanitorSweep \/ Tick \/ UNCHANGED vars
  BY <1>1, <1>11 DEF Crash, RemoveSession, JanitorSweep, Tick, vars
<1>. QED
  BY <1>2, <1>3, <1>4, <1>5, <1>6, <1>7, <1>8, <1>9, <1>10, <1>11, StepCases

LEMMA ThreadInvariant ==
  ASSUME Emergency \notin Levels
  PROVE  Spec => []KInv
<1>1. Init => KInv
  BY DEF Init, Idle, Fresh, KInv, Apart, KnownRun, KnownSet, OnThread
<1>2. TInv /\ KInv /\ [Next]_vars => KInv'
  BY ThreadStep
<1>. QED
  BY <1>1, <1>2, Typing, PTL DEF Spec

\* A callback of a session is called for that session's requests only.
LEMMA KnownApart == TInv /\ KInv /\ CInv => NoForeignLog
<1>. SUFFICES ASSUME TInv, KInv, CInv, memory = "sound", NEW r \in Requests, NEW s \in callbacks,
                     request[r].phase = "running", request[r].thread \in session[s].knownThreads
              PROVE  request[r].session = s
  BY DEF NoForeignLog, Logs
<1>1. s \in Sessions /\ request[r].thread \in Threads
  BY DEF TInv, TypeOK, Served
<1>2. PICK p \in Requests : OnThread(p, request[r].thread) /\ request[p].session = s
  BY <1>1 DEF KInv, KnownRun
<1>3. p = r
  BY <1>1, <1>2 DEF KInv, Apart, OnThread
<1>. QED
  BY <1>2, <1>3

\* Without the level emergency, a session with logging set hears nothing of what a thread
\* logs for another session's request, however requests move between threads.
THEOREM LogsStayApart ==
  ASSUME Emergency \notin Levels
  PROVE  Spec => []NoForeignLog
<1>1. TInv /\ KInv /\ CInv => NoForeignLog
  BY KnownApart
<1>. QED
  BY <1>1, ThreadInvariant, Typing, CallbackInvariant, PTL

----------------------------------------------------------------------------
(* A request that is heard.                                                *)

\* Requests in service refer to sessions that were constructed.
Begun == \A r \in Requests : request[r].phase # "idle" => session[request[r].session].state # "Invalid"

OInv == Apart /\ Begun

\* Request r steps: it stays on its thread, or on none, or is given a free one.
LEMMA OneRequestSteps ==
  ASSUME TInv, OInv, NEW r \in Requests, NEW q, request' = [request EXCEPT ![r] = q],
         \A s \in Sessions : session[s].state # "Invalid" => session'[s].state # "Invalid",
         q.phase = "running" => \/ request[r].phase = "running" /\ q.thread = request[r].thread
                                \/ FreeThread(q.thread),
         q.phase # "idle" => q.session \in Sessions /\ session'[q.session].state # "Invalid"
  PROVE  OInv'
<1>1. /\ request'[r] = q
      /\ \A p \in Requests : p # r => request'[p] = request[p]
  BY DEF TInv, TypeOK
<1>2. Apart'
  BY <1>1 DEF OInv, Apart, OnThread, FreeThread
<1>3. Begun'
  BY <1>1 DEF OInv, Begun, TInv, Served
<1>. QED
  BY <1>2, <1>3 DEF OInv

\* A request that takes a call stays where it is, and its session keeps its threads.
LEMMA CallsKeep ==
  ASSUME TInv, NEW r \in Requests,
         Ping(r) \/ Initialize(r) \/ NotificationsInitialized(r) \/ LoggingSetLevel(r)
  PROVE  /\ \A p \in Requests : /\ request'[p].phase = request[p].phase
                                /\ request'[p].thread = request[p].thread
                                /\ request'[p].session = request[p].session
         /\ \A s \in Sessions : /\ session'[s].knownThreads = session[s].knownThreads
                                /\ session[s].state # "Invalid" => session'[s].state # "Invalid"
<1>1. PICK method : Execute(r, method)
  BY DEF Ping, Initialize, NotificationsInitialized, LoggingSetLevel
<1>2. /\ request' = [request EXCEPT ![r] = [request[r] EXCEPT !.calls = Tail(request[r].calls)]]
      /\ request[r] \in RequestType /\ request[r].session \in Sessions
  BY <1>1, ExecuteType DEF Execute, TInv, TypeOK
<1>3. \A p \in Requests : /\ request'[p].phase = request[p].phase
                          /\ request'[p].thread = request[p].thread
                          /\ request'[p].session = request[p].session
  BY <1>2 DEF RequestType, TInv, TypeOK
<1>4. CASE Ping(r) \/ Initialize(r)
  BY <1>3, <1>4 DEF Ping, Initialize
<1>5. CASE NotificationsInitialized(r)
  BY <1>2, <1>3, <1>5 DEF NotificationsInitialized, TInv, TypeOK, SessionType
<1>6. CASE LoggingSetLevel(r)
  BY <1>2, <1>3, <1>6 DEF LoggingSetLevel, TInv, TypeOK, SessionType
<1>. QED
  BY <1>4, <1>5, <1>6

LEMMA ApartStep ==
  ASSUME TInv, CInv, OInv, [Next]_vars
  PROVE  OInv'
<1>1. ASSUME UNCHANGED <<session, request>> PROVE OInv'
  BY <1>1 DEF OInv, Apart, Begun, OnThread
<1>2. ASSUME NEW r \in Requests, NEW status, Refuse(r, status) PROVE OInv'
  <2>1. request' = [request EXCEPT ![r] = Idle(status)] /\ Idle(status).phase = "idle"
    BY <1>2 DEF Refuse, Idle
  <2>. QED
    BY <1>2, <2>1, OneRequestSteps DEF Refuse
<1>3. ASSUME NEW r \in Requests, NEW s \in Sessions, NEW header \in Headers, NEW body \in Body,
             CreateSession(r, s, header, body) \/ FindSession(r, s, header, body) PROVE OInv'
  <2>. DEFINE phase == IF CreateSession(r, s, header, body) THEN "admitted" ELSE "found"
              q == [phase |-> phase, status |-> 0, session |-> s, header |-> header,
                    array |-> body.array, hides |-> Hides(body), calls |-> body.calls, thread |-> None]
  <2>1. request' = [request EXCEPT ![r] = q] /\ q.phase # "running" /\ q.session = s
    BY <1>3 DEF CreateSession, FindSession, Accept
  <2>2. \A x \in Sessions : session[x].state # "Invalid" => session'[x].state # "Invalid"
    BY <1>3 DEF CreateSession, FindSession, Fresh, TInv, TypeOK
  <2>3. session'[s].state # "Invalid"
    BY <1>3 DEF CreateSession, FindSession, Fresh, TInv, TypeOK, CInv, Constructed
  <2>. HIDE DEF q
  <2>. QED
    BY <2>1, <2>2, <2>3, OneRequestSteps
<1>4. ASSUME NEW r \in Requests, CheckProtocol(r) PROVE OInv'
  <2>. DEFINE q == IF request[r].header = session[request[r].session].protocol
                   THEN [request[r] EXCEPT !.phase = "admitted"] ELSE Idle(400)
  <2>1. request' = [request EXCEPT ![r] = q] /\ session' = session
    BY <1>4 DEF CheckProtocol
  <2>2. request[r] \in RequestType /\ request[r].session \in Sessions /\ request[r].phase = "found"
    BY <1>4 DEF CheckProtocol, TInv, TypeOK, Served
  <2>3. q.phase # "running" /\ (q.phase # "idle" => q.session = request[r].session)
    BY <2>2 DEF RequestType, Idle
  <2>. HIDE DEF q
  <2>. QED
    BY <2>1, <2>2, <2>3, OneRequestSteps DEF OInv, Begun
<1>5. ASSUME NEW r \in Requests, NEW t \in Threads, Join(r, t) \/ Resume(r, t) PROVE OInv'
  <2>. DEFINE c == IF request[r].array /\ ~SupportBatchRequest(request[r].session)
                   THEN <<>> ELSE request[r].calls
              q == IF request[r].phase = "admitted"
                   THEN [request[r] EXCEPT !.phase = "running", !.thread = t, !.array = FALSE, !.calls = c]
                   ELSE [request[r] EXCEPT !.phase = "running", !.thread = t]
  <2>1. /\ request' = [request EXCEPT ![r] = q] /\ FreeThread(t)
        /\ request[r] \in RequestType /\ request[r].session \in Sessions /\ request[r].phase # "idle"
    BY <1>5 DEF Join, Resume, TInv, TypeOK, Served
  <2>2. q.phase = "running" /\ q.thread = t /\ q.session = request[r].session
    BY <2>1 DEF RequestType
  <2>3. SameSessions
    BY <1>5, <2>1, AddRemoveSame DEF Join, Resume, TInv
  <2>4. \A x \in Sessions : session[x].state # "Invalid" => session'[x].state # "Invalid"
    BY <2>3 DEF SameSessions
  <2>5. session'[q.session].state # "Invalid"
    BY <2>1, <2>2, <2>4 DEF OInv, Begun
  <2>. HIDE DEF q
  <2>. QED
    BY <2>1, <2>2, <2>4, <2>5, OneRequestSteps
<1>6. ASSUME NEW r \in Requests, Yield(r) \/ Finish(r) PROVE OInv'
  <2>. DEFINE q == IF Yield(r) THEN [request[r] EXCEPT !.phase = "suspended", !.thread = None] ELSE Idle(200)
  <2>1. /\ request' = [request EXCEPT ![r] = q]
        /\ request[r] \in RequestType /\ request[r].session \in Sessions
        /\ request[r].thread \in Threads /\ request[r].phase # "idle"
    BY <1>6 DEF Yield, Finish, TInv, TypeOK, Served
  <2>2. q.phase # "running" /\ (q.phase # "idle" => q.session = request[r].session)
    BY <2>1 DEF RequestType, Idle
  <2>3. SameSessions
    BY <1>6, <2>1, AddRemoveSame DEF Yield, Finish, TInv
  <2>4. \A x \in Sessions : session[x].state # "Invalid" => session'[x].state # "Invalid"
    BY <2>3 DEF SameSessions
  <2>5. session'[request[r].session].state # "Invalid"
    BY <2>1, <2>4 DEF OInv, Begun
  <2>. HIDE DEF q
  <2>6. q.phase # "idle" => q.session \in Sessions /\ session'[q.session].state # "Invalid"
    BY <2>1, <2>2, <2>5
  <2>. QED
    BY <2>1, <2>2, <2>4, <2>6, OneRequestSteps
<1>7. ASSUME NEW r \in Requests,
             Ping(r) \/ Initialize(r) \/ NotificationsInitialized(r) \/ LoggingSetLevel(r)
      PROVE  OInv'
  BY <1>7, CallsKeep DEF OInv, Apart, Begun, OnThread, TInv, Served
<1>8. CASE (\E r \in Requests : Crash(r)) \/ (\E s \in Sessions : RemoveSession(s))
             \/ JanitorSweep \/ Tick \/ UNCHANGED vars
  BY <1>1, <1>8 DEF Crash, RemoveSession, JanitorSweep, Tick, vars
<1>. QED
  BY <1>2, <1>3, <1>4, <1>5, <1>6, <1>7, <1>8, StepCases

LEMMA RunningApart == Spec => []OInv
<1>1. Init => OInv
  BY DEF Init, Idle, OInv, Apart, Begun, OnThread
<1>2. TInv /\ CInv /\ OInv /\ [Next]_vars => OInv'
  BY ApartStep
<1>. QED
  BY <1>1, <1>2, Typing, CallbackInvariant, PTL DEF Spec

\* One step, for request r: whoever else yields, joins or sets the level, r stays where it
\* is, and its session, if logging is set before and after, goes on knowing its thread.
LEMMA HeardStep ==
  ASSUME TInv, OInv, [Next]_vars, NEW r \in Requests,
         request[r].phase = "running", request'[r].phase = "running",
         Logs(request[r].session, request[r].thread)
  PROVE  /\ request'[r].session = request[r].session /\ request'[r].thread = request[r].thread
         /\ request[r].thread \in session'[request[r].session].knownThreads
<1>. DEFINE s == request[r].session
            t == request[r].thread
            Goal == request'[r].session = s /\ request'[r].thread = t /\ t \in session'[s].knownThreads
<1>1. s \in Sessions /\ t \in Threads /\ t \in session[s].knownThreads /\ session[s].state # "Invalid"
  BY DEF TInv, Served, OInv, Begun, Logs
<1>2. ASSUME UNCHANGED <<session, request>> PROVE Goal
  BY <1>1, <1>2
<1>3. ASSUME NEW p \in Requests, NEW q, request' = [request EXCEPT ![p] = q], p # r,
             t \in session'[s].knownThreads
      PROVE  Goal
  BY <1>3 DEF TInv, TypeOK
<1>4. ASSUME NEW p \in Requests, NEW status, Refuse(p, status) PROVE Goal
  BY <1>1, <1>3, <1>4 DEF Refuse
<1>5. ASSUME NEW p \in Requests, NEW x \in Sessions, NEW header \in Headers, NEW body \in Body,
             CreateSession(p, x, header, body) \/ FindSession(p, x, header, body) PROVE Goal
  <2>1. p # r /\ session'[s] = session[s]
    BY <1>1, <1>5 DEF CreateSession, FindSession, TInv, TypeOK
  <2>. QED
    BY <1>1, <1>3, <1>5, <2>1 DEF CreateSession, FindSession, Accept
<1>6. ASSUME NEW p \in Requests, CheckProtocol(p) PROVE Goal
  <2>1. p # r /\ session' = session
    BY <1>6 DEF CheckProtocol
  <2>. QED
    BY <1>1, <1>3, <1>6, <2>1 DEF CheckProtocol
<1>7. ASSUME NEW p \in Requests, NEW u \in Threads, Join(p, u) \/ Resume(p, u) PROVE Goal
  <2>1. p # r /\ request[p].session \in Sessions /\ RequestAdd(request[p].session, u)
    BY <1>7 DEF Join, Resume, TInv, Served
  <2>2. t \in session'[s].knownThreads
    BY <1>1, <2>1 DEF RequestAdd, TInv, TypeOK, SessionType
  <2>. QED
    BY <1>3, <1>7, <2>1, <2>2 DEF Join, Resume
<1>8. ASSUME NEW p \in Requests, Yield(p) \/ Finish(p) PROVE Goal
  <2>. DEFINE q == IF Yield(p) THEN [request[p] EXCEPT !.phase = "suspended", !.thread = None] ELSE Idle(200)
  <2>0. /\ request' = [request EXCEPT ![p] = q] /\ request[p] \in RequestType
        /\ request[p].phase = "running" /\ request[p].session \in Sessions
        /\ RequestRemove(request[p].session, request[p].thread)
    BY <1>8 DEF Yield, Finish, TInv, TypeOK, Served
  <2>1. request'[p].phase # "running"
    <3>1. q.phase # "running"
      BY <2>0 DEF RequestType, Idle
    <3>. QED
      BY <2>0, <3>1 DEF TInv, TypeOK
  <2>2. p # r /\ request[p].thread # t
    <3>1. p # r
      BY <2>1
    <3>. QED
      BY <1>1, <2>0, <3>1 DEF OInv, Apart, OnThread
  <2>3. t \in session'[s].knownThreads
    BY <1>1, <2>0, <2>2 DEF RequestRemove, TInv, TypeOK, SessionType
  <2>. HIDE DEF q
  <2>. QED
    BY <1>3, <2>0, <2>2, <2>3
<1>9. ASSUME NEW p \in Requests,
             Ping(p) \/ Initialize(p) \/ NotificationsInitialized(p) \/ LoggingSetLevel(p)
      PROVE  Goal
  BY <1>1, <1>9, CallsKeep
<1>10. CASE (\E p \in Requests : Crash(p)) \/ (\E x \in Sessions : RemoveSession(x))
              \/ JanitorSweep \/ Tick \/ UNCHANGED vars
  BY <1>2, <1>10 DEF Crash, RemoveSession, JanitorSweep, Tick, vars
<1>. QED
  BY <1>4, <1>5, <1>6, <1>7, <1>8, <1>9, <1>10, StepCases

\* Whatever levels clients ask for: a request that is heard is heard until it yields, or
\* logging is turned off, though threads of other requests come and go.
THEOREM OwnLogHeard == Spec => OwnLogIsHeard
<1>1. TInv /\ OInv /\ [Next]_vars =>
        \A r \in Requests :
          LET s == request[r].session
              heard == session[s].hasBeenSet /\ Logs(s, request[r].thread) IN
          request[r].phase = "running" /\ request'[r].phase = "running" /\ heard
            => heard' \/ ~session'[s].hasBeenSet
  BY HeardStep DEF Logs
<1>. QED
  BY <1>1, Typing, RunningApart, PTL DEF Spec, OwnLogIsHeard
=============================================================================
