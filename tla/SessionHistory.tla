--------------------------- MODULE SessionHistory ---------------------------
(***************************************************************************)
(* MCPServer with two history variables: how long ago each session last    *)
(* served a request, and which version initialize answered for it.         *)
(***************************************************************************)
EXTENDS MCPServer

VARIABLES
  idle,       \* time since a request of the session was last let in or worked on
  agreed      \* the version in the last InitializeResult, or None

hvars == <<vars, idle, agreed>>

HInit ==
  /\ Init
  /\ idle = [s \in Sessions |-> 0]
  /\ agreed = [s \in Sessions |-> None]

\* In this step r executes the next call of its body.
Calls(r) ==
  /\ request[r].phase = "running" /\ request[r].calls # <<>>
  /\ request'[r].calls = Tail(request[r].calls)

Active(s) ==
  \E r \in Requests : request'[r] # request[r] /\ s \in {request[r].session, request'[r].session}

HNext ==
  /\ Next
  /\ idle' = [s \in Sessions |-> IF Active(s) THEN 0 ELSE IF age'[s] > age[s] THEN idle[s] + 1 ELSE idle[s]]
  /\ agreed' = [s \in Sessions |->
       IF \E r \in Requests : Calls(r) /\ request[r].session = s /\ Head(request[r].calls).method = "initialize"
       THEN LET r == CHOOSE r \in Requests : Calls(r) IN Negotiate(Head(request[r].calls).arg)
       ELSE agreed[s]]

HSpec == HInit /\ [][HNext]_hvars

\* MCPServer.h:27, "Session time out after 30 minutes of no activity": the janitor ends
\* a confirmed session only when it served no request for that long.
ActiveSessionsStay ==
  [][\A s \in sessionMap :
       sweepIn = 0 /\ sweepIn' = JanitorCheckTime /\ session[s].state = "Confirmed"
         /\ s \notin sessionMap'
       => idle[s] > SessionTimeout]_hvars

\* SessionTest.cpp:172 and 177: a request that names the session and, as its version,
\* the one the server agreed to is not refused for its version.
AgreedVersionServes ==
  [][\A r \in Requests :
       /\ request[r].phase = "found"
       /\ request[r].session \in sessionMap
       /\ request[r].header = agreed[request[r].session]
       /\ request'[r] # request[r]
       => request'[r].status # 400]_hvars
=============================================================================
