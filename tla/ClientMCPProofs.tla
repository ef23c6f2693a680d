-------------------------- MODULE ClientMCPProofs --------------------------
(***************************************************************************)
(* Theorems about ClientMCP and the ConnectionPool it uses, for any number *)
(* of requests and however deeply they nest.                               *)
(***************************************************************************)
EXTENDS ClientMCP, SequenceTheorems, TLAPS

----------------------------------------------------------------------------
(* Sequences that differ in their last element, as pushing and popping     *)
(* leave them.                                                             *)

OneLonger(f, g, c) ==
  /\ Len(g) = Len(f) + 1
  /\ \A i \in 1..Len(f) : g[i] = f[i]
  /\ g[Len(f) + 1] = c

LEMMA Push ==
  ASSUME NEW S, NEW s \in Seq(S), NEW c \in S
  PROVE  Append(s, c) \in Seq(S) /\ OneLonger(s, Append(s, c), c)
  BY AppendProperties DEF OneLonger

LEMMA Pop ==
  ASSUME NEW S, NEW s \in Seq(S), s # <<>>
  PROVE  /\ SubSeq(s, 1, Len(s) - 1) \in Seq(S)
         /\ OneLonger(SubSeq(s, 1, Len(s) - 1), s, s[Len(s)])
         /\ Len(s) \in Nat /\ Len(s) > 0 /\ s[Len(s)] \in S
<1>. DEFINE n == Len(s)
            p == SubSeq(s, 1, n - 1)
<1>1. n \in Nat /\ n > 0 /\ \A i \in 1..n : s[i] \in S
  BY EmptySeq, ElementOfSeq, LenProperties
<1>2. 1 \in Int /\ n - 1 \in Int /\ \A i \in 1..n - 1 : s[i] \in S
  BY <1>1
<1>3. /\ p \in Seq(S) /\ Len(p) = (IF 1 <= n - 1 THEN (n - 1) - 1 + 1 ELSE 0)
      /\ \A i \in 1..(n - 1) - 1 + 1 : p[i] = s[1 + i - 1]
  BY <1>2, SubSeqProperties
<1>. HIDE DEF p, n
<1>4. Len(p) = n - 1 /\ \A i \in 1..n - 1 : p[i] = s[i]
  <2>1. (n - 1) - 1 + 1 = n - 1 /\ \A i \in 1..n - 1 : 1 + i - 1 = i
    BY <1>1
  <2>2. Len(p) = n - 1
    BY <1>1, <1>3
  <2>. QED
    BY <1>3, <2>1, <2>2
<1>5. OneLonger(p, s, s[n])
  <2>1. Len(s) = Len(p) + 1 /\ Len(p) + 1 = n
    BY <1>1, <1>4 DEF n
  <2>. QED
    BY <1>4, <2>1 DEF OneLonger
<1>. QED
  BY <1>1, <1>3, <1>5 DEF p, n

\* What such sequences contain, and whether twice.
LEMMA OneMoreElement ==
  ASSUME NEW S, NEW f \in Seq(S), NEW g \in Seq(S), NEW c, OneLonger(f, g, c)
  PROVE  /\ Range(g) = Range(f) \cup {c}
         /\ IsInjective(g) <=> IsInjective(f) /\ c \notin Range(f)
<1>. DEFINE n == Len(f)
<1>1. n \in Nat /\ DOMAIN f = 1..n /\ DOMAIN g = 1..n + 1
  BY LenProperties DEF OneLonger
<1>2. (\A i \in 1..n : g[i] = f[i]) /\ g[n + 1] = c
  BY DEF OneLonger
<1>. HIDE DEF n
<1>3. \A i \in 1..n + 1 : i \in 1..n \/ i = n + 1
  BY <1>1
<1>4. 1..n \subseteq 1..n + 1 /\ n + 1 \in 1..n + 1 /\ n + 1 \notin 1..n
  BY <1>1
<1>5. Range(g) = Range(f) \cup {c}
  BY <1>1, <1>2, <1>3, <1>4 DEF Range
<1>6. ASSUME IsInjective(g) PROVE IsInjective(f) /\ c \notin Range(f)
  BY <1>1, <1>2, <1>4, <1>6 DEF Range, IsInjective
<1>7. ASSUME IsInjective(f), c \notin Range(f) PROVE IsInjective(g)
  BY <1>1, <1>2, <1>3, <1>7 DEF Range, IsInjective
<1>. QED
  BY <1>5, <1>6, <1>7

----------------------------------------------------------------------------
(* Types.                                                                  *)

\* What is lent is in the pool; how many posts are open while the client is constructed.
Held == \A i \in DOMAIN stack : stack[i].connection \in 1..pool

Phases ==
  /\ phase \in {"new", "failed"} => stack = <<>>
  /\ phase \in {"initialize", "initialized"} => Len(stack) = 1 /\ Top.step = "sent"
  /\ phase \in {"initialized", "ready"} => header = config

CInv == TypeOK /\ Held /\ Phases

LEMMA StackTyped ==
  ASSUME TypeOK
  PROVE  /\ pool \in Nat /\ spare \in Seq(1..pool) /\ stack \in Seq(OpenPost)
         /\ Len(stack) \in Nat /\ DOMAIN stack = 1..Len(stack)
<1>1. pool \in Nat /\ spare \in Seq(1..pool) /\ stack \in Seq(OpenPost)
  BY DEF TypeOK
<1>. QED
  BY <1>1, LenProperties

NewPost(c) ==
  [connection |-> c, step |-> "sent", kind |-> None, events |-> <<>>, actions |-> 0, errors |-> 0, core |-> 0]

\* A connection is lent to a new post.
Opened(c) ==
  /\ NewPost(c) \in OpenPost
  /\ stack' \in Seq(OpenPost) /\ OneLonger(stack, stack', NewPost(c))
  /\ pool' \in Nat /\ c \in 1..pool' /\ spare' \in Seq(1..pool')
  /\ \/ spare # <<>> /\ pool' = pool /\ OneLonger(spare', spare, c)
     \/ spare = <<>> /\ spare' = spare /\ pool' = pool + 1 /\ c = pool + 1
  /\ deepest' = IF Len(stack) = deepest THEN deepest + 1 ELSE deepest

LEMMA NewPostType ==
  ASSUME NEW c \in Nat
  PROVE  /\ NewPost(c) \in OpenPost /\ NewPost(c).connection = c
         /\ NewPost(c).step = "sent" /\ NewPost(c).actions = 0 /\ NewPost(c).errors = 0
<1>. DEFINE Events == Seq(EventType)
<1>1. <<>> \in Events
  BY EmptySeq
<1>2. OpenPost = [connection : Nat, step : {"sent", "reading", "callback"},
                  kind : {None, "refused", "untyped", "object", "stream"}, events : Events,
                  actions : Nat, errors : Nat, core : Nat]
  BY DEF OpenPost
<1>. HIDE DEF Events
<1>. QED
  BY <1>1, <1>2 DEF NewPost

LEMMA OpenStep ==
  ASSUME TypeOK, Open
  PROVE  \E c \in Nat : Opened(c)
<1>1. /\ pool \in Nat /\ spare \in Seq(1..pool) /\ stack \in Seq(OpenPost)
      /\ Len(stack) \in Nat
  BY StackTyped
<1>2. PICK c \in 1..pool + 1 :
        /\ GetConnection(c) /\ stack' = Append(stack, NewPost(c))
        /\ deepest' = IF Len(stack) = deepest THEN deepest + 1 ELSE deepest
  BY DEF Open, NewPost
<1>3. c \in Nat
  BY <1>1
<1>4. NewPost(c) \in OpenPost
  BY <1>3, NewPostType
<1>5. stack' \in Seq(OpenPost) /\ OneLonger(stack, stack', NewPost(c))
  BY <1>1, <1>2, <1>4, Push
<1>6. CASE spare # <<>>
  <2>1. c = spare[Len(spare)] /\ spare' = SubSeq(spare, 1, Len(spare) - 1) /\ pool' = pool
    BY <1>2, <1>6 DEF GetConnection
  <2>2. spare' \in Seq(1..pool) /\ OneLonger(spare', spare, c) /\ c \in 1..pool
    BY <1>1, <1>6, <2>1, Pop
  <2>. QED
    BY <1>1, <1>2, <1>3, <1>4, <1>5, <1>6, <2>1, <2>2 DEF Opened
<1>7. CASE spare = <<>>
  <2>1. c = pool + 1 /\ pool' = pool + 1 /\ spare' = spare
    BY <1>2, <1>7 DEF GetConnection
  <2>2. spare' \in Seq(1..pool') /\ c \in 1..pool' /\ pool' \in Nat
    BY <1>1, <1>7, <2>1, EmptySeq
  <2>. QED
    BY <1>2, <1>3, <1>4, <1>5, <1>7, <2>1, <2>2 DEF Opened
<1>. QED
  BY <1>6, <1>7

\* The last post returns its connection.
Closed ==
  /\ stack # <<>>
  /\ stack' \in Seq(OpenPost) /\ OneLonger(stack', stack, Top)
  /\ spare' \in Seq(1..pool) /\ OneLonger(spare, spare', Top.connection)
  /\ Top \in OpenPost /\ Top.connection \in 1..pool
  /\ UNCHANGED <<pool, deepest>>

LEMMA TopTyped ==
  ASSUME TypeOK, Held, stack # <<>>
  PROVE  /\ Below \in Seq(OpenPost) /\ OneLonger(Below, stack, Top)
         /\ Top \in OpenPost /\ Top.connection \in 1..pool
         /\ Len(stack) \in 1..Len(stack) /\ Len(stack) \in Nat
<1>1. stack \in Seq(OpenPost) /\ DOMAIN stack = 1..Len(stack)
  BY StackTyped
<1>2. /\ Below \in Seq(OpenPost) /\ OneLonger(Below, stack, Top) /\ Top \in OpenPost
      /\ Len(stack) \in Nat /\ Len(stack) > 0
  BY <1>1, Pop DEF Below, Top
<1>3. Len(stack) \in DOMAIN stack
  BY <1>1, <1>2
<1>. QED
  BY <1>1, <1>2, <1>3 DEF Held, Top

LEMMA CloseStep ==
  ASSUME TypeOK, Held, stack # <<>>, Close
  PROVE  Closed
<1>1. /\ Below \in Seq(OpenPost) /\ OneLonger(Below, stack, Top)
      /\ Top \in OpenPost /\ Top.connection \in 1..pool
  BY TopTyped
<1>2. spare' = Append(spare, Top.connection) /\ pool' = pool /\ stack' = Below /\ deepest' = deepest
  BY DEF Close, ReturnConnection
<1>3. spare' \in Seq(1..pool) /\ OneLonger(spare, spare', Top.connection)
  BY <1>1, <1>2, StackTyped, Push
<1>. QED
  BY <1>1, <1>2, <1>3 DEF Closed

\* The last post goes on.
Replaced(q) ==
  /\ stack # <<>> /\ q \in OpenPost /\ q.connection = Top.connection
  /\ stack' \in Seq(OpenPost) /\ Len(stack') = Len(stack) /\ Len(stack) \in Nat /\ Len(stack) > 0
  /\ \A i \in 1..Len(stack) : stack'[i] = IF i = Len(stack) THEN q ELSE stack[i]
  /\ UNCHANGED <<pool, spare, config, phase, header, requests, deepest, server>>

LEMMA ReplaceStep ==
  ASSUME TypeOK, Held, stack # <<>>, NEW q \in OpenPost, q.connection = Top.connection, ReplaceTop(q)
  PROVE  Replaced(q)
<1>1. /\ Below \in Seq(OpenPost) /\ OneLonger(Below, stack, Top)
      /\ Len(stack) \in Nat /\ Len(stack) \in 1..Len(stack)
  BY TopTyped
<1>2. stack' = Append(Below, q)
  BY DEF ReplaceTop
<1>3. stack' \in Seq(OpenPost) /\ OneLonger(Below, stack', q)
  BY <1>1, <1>2, Push
<1>4. Len(Below) \in Nat
  BY <1>1, LenProperties
<1>5. Len(stack) = Len(Below) + 1 /\ Len(stack') = Len(Below) + 1
  BY <1>1, <1>3 DEF OneLonger
<1>6. \A i \in 1..Len(stack) : stack'[i] = IF i = Len(stack) THEN q ELSE stack[i]
  <2>1. \A i \in 1..Len(stack) : i \in 1..Len(Below) \/ i = Len(Below) + 1
    BY <1>4, <1>5
  <2>2. \A i \in 1..Len(Below) : i # Len(Below) + 1 /\ stack[i] = Below[i] /\ stack'[i] = Below[i]
    BY <1>1, <1>3, <1>4 DEF OneLonger
  <2>3. stack'[Len(Below) + 1] = q
    BY <1>3 DEF OneLonger
  <2>. QED
    BY <1>5, <2>1, <2>2, <2>3
<1>7. Len(stack) > 0
  BY <1>1
<1>. QED
  BY <1>1, <1>3, <1>5, <1>6, <1>7 DEF Replaced, ReplaceTop

\* A post that is answered, one whose next event is handled, and one whose callback returns.
Reading(q, response) == [q EXCEPT !.step = "reading", !.kind = response.kind, !.events = response.events]

Calling(q) == Callback(q.kind, Head(q.events))

Handled(q) ==
  [q EXCEPT
     !.step = IF Calling(q) = "none" THEN "reading" ELSE "callback",
     !.actions = @ + (IF Calling(q) = "action" THEN 1 ELSE 0),
     !.errors = @ + (IF Calling(q) = "errorAction" THEN 1 ELSE 0),
     !.core = @ + (IF Head(q.events) = "other" THEN 1 ELSE 0),
     !.events = IF ReadsOn(q.kind, Head(@)) THEN Tail(@) ELSE <<>>]

Returned(q) == [q EXCEPT !.step = "reading"]

LEMMA ResponseType ==
  ASSUME NEW response \in Response
  PROVE  /\ response.kind \in {"refused", "untyped", "object", "stream"}
         /\ response.events \in Seq(EventType)
         /\ response.kind # "stream" =>
              Len(response.events) = 1 /\ Head(response.events) # "other"
<1>1. CASE response \in [kind : {"refused", "untyped"}, events : {<<"junk">>}]
  <2>1. "junk" \in EventType
    BY DEF EventType
  <2>. HIDE DEF EventType
  <2>2. <<"junk">> \in Seq(EventType) /\ Len(<<"junk">>) = 1 /\ Head(<<"junk">>) = "junk"
    BY <2>1
  <2>. QED
    BY <1>1, <2>2
<1>2. CASE response \in [kind : {"object"}, events : {<<e>> : e \in EventType \ {"other"}}]
  <2>1. PICK e \in EventType \ {"other"} : response.events = <<e>>
    BY <1>2
  <2>2. <<e>> \in Seq(EventType) /\ Len(<<e>>) = 1 /\ Head(<<e>>) = e
    OBVIOUS
  <2>. QED
    BY <1>2, <2>1, <2>2
<1>3. CASE response \in [kind : {"stream"}, events : UNION {[1..n -> EventType] : n \in 0..MaxEvents}]
  <2>1. response.kind = "stream" /\ response.events \in UNION {[1..n -> EventType] : n \in 0..MaxEvents}
    BY <1>3
  <2>2. PICK n \in 0..MaxEvents : response.events \in [1..n -> EventType]
    BY <2>1
  <2>3. n \in Nat
    BY BoundsAssumption
  <2>4. response.events \in Seq(EventType)
    BY <2>2, <2>3, SeqDef
  <2>. QED
    BY <2>1, <2>4
<1>. QED
  BY <1>1, <1>2, <1>3 DEF Response

LEMMA ReadingType ==
  ASSUME NEW q \in OpenPost, NEW response \in Response
  PROVE  LET w == Reading(q, response) IN
         /\ w \in OpenPost /\ w.connection = q.connection /\ w.step = "reading"
         /\ w.kind = response.kind /\ w.events = response.events
         /\ w.actions = q.actions /\ w.errors = q.errors
<1>. DEFINE Events == Seq(EventType)
            Kinds == {None, "refused", "untyped", "object", "stream"}
            Steps == {"sent", "reading", "callback"}
            kind == response.kind
            events == response.events
<1>1. kind \in Kinds /\ events \in Events /\ "reading" \in Steps
  BY ResponseType
<1>2. OpenPost = [connection : Nat, step : Steps, kind : Kinds, events : Events,
                  actions : Nat, errors : Nat, core : Nat]
  BY DEF OpenPost
<1>3. Reading(q, response) = [q EXCEPT !.step = "reading", !.kind = kind, !.events = events]
  BY DEF Reading
<1>. HIDE DEF Events, Kinds, Steps, kind, events
<1>4. LET w == Reading(q, response) IN
      /\ w \in OpenPost /\ w.connection = q.connection /\ w.step = "reading"
      /\ w.kind = kind /\ w.events = events
      /\ w.actions = q.actions /\ w.errors = q.errors
  BY <1>1, <1>2, <1>3
<1>. QED
  BY <1>4 DEF kind, events

LEMMA ReturnedType ==
  ASSUME NEW q \in OpenPost
  PROVE  LET w == Returned(q) IN
         /\ w \in OpenPost /\ w.connection = q.connection /\ w.step = "reading"
         /\ w.kind = q.kind /\ w.events = q.events
         /\ w.actions = q.actions /\ w.errors = q.errors
<1>. DEFINE Events == Seq(EventType)
            Kinds == {None, "refused", "untyped", "object", "stream"}
            Steps == {"sent", "reading", "callback"}
<1>1. "reading" \in Steps
  OBVIOUS
<1>2. OpenPost = [connection : Nat, step : Steps, kind : Kinds, events : Events,
                  actions : Nat, errors : Nat, core : Nat]
  BY DEF OpenPost
<1>. HIDE DEF Events, Kinds, Steps
<1>. QED
  BY <1>1, <1>2 DEF Returned

LEMMA HandledType ==
  ASSUME NEW q \in OpenPost, q.events # <<>>
  PROVE  LET w == Handled(q) IN
         /\ w \in OpenPost /\ w.connection = q.connection /\ w.kind = q.kind
         /\ w.step = (IF Calling(q) = "none" THEN "reading" ELSE "callback")
         /\ w.actions = q.actions + (IF Calling(q) = "action" THEN 1 ELSE 0)
         /\ w.errors = q.errors + (IF Calling(q) = "errorAction" THEN 1 ELSE 0)
         /\ w.events = IF ReadsOn(q.kind, Head(q.events)) THEN Tail(q.events) ELSE <<>>
<1>. DEFINE Events == Seq(EventType)
            Kinds == {None, "refused", "untyped", "object", "stream"}
            Steps == {"sent", "reading", "callback"}
            step == IF Calling(q) = "none" THEN "reading" ELSE "callback"
            actions == q.actions + (IF Calling(q) = "action" THEN 1 ELSE 0)
            errors == q.errors + (IF Calling(q) = "errorAction" THEN 1 ELSE 0)
            core == q.core + (IF Head(q.events) = "other" THEN 1 ELSE 0)
            events == IF ReadsOn(q.kind, Head(q.events)) THEN Tail(q.events) ELSE <<>>
<1>1. OpenPost = [connection : Nat, step : Steps, kind : Kinds, events : Events,
                  actions : Nat, errors : Nat, core : Nat]
  BY DEF OpenPost
<1>2. step \in Steps
  OBVIOUS
<1>. HIDE DEF Kinds, Steps
<1>3. q.events \in Events /\ q.actions \in Nat /\ q.errors \in Nat /\ q.core \in Nat
  <2>. HIDE DEF Events
  <2>. QED
    BY <1>1
<1>4. events \in Events
  <2>1. Tail(q.events) \in Events
    BY <1>3, HeadTailProperties
  <2>2. <<>> \in Events
    BY EmptySeq
  <2>. HIDE DEF Events
  <2>. QED
    BY <2>1, <2>2
<1>5. actions \in Nat /\ errors \in Nat /\ core \in Nat
  BY <1>3
<1>6. Handled(q) = [q EXCEPT !.step = step, !.actions = actions, !.errors = errors, !.core = core,
                             !.events = events]
  BY DEF Handled
<1>. HIDE DEF Events, step, actions, errors, core, events
<1>7. LET w == Handled(q) IN
      /\ w \in OpenPost /\ w.connection = q.connection /\ w.kind = q.kind
      /\ w.step = step /\ w.actions = actions /\ w.errors = errors /\ w.events = events
  BY <1>1, <1>2, <1>4, <1>5, <1>6
<1>. QED
  BY <1>7 DEF step, actions, errors, events

\* How the server's side of the session moves.
ServerType == [first : Versions, last : Versions, state : {"Invalid", "Requested", "Confirmed"}, alive : BOOLEAN]

SessionMoved ==
  /\ server' \in ServerType /\ server'.first = server.first /\ server'.last = server.last
  /\ server.state = "Confirmed" => server'.state = "Confirmed"

LEMMA SessionType ==
  ASSUME TypeOK, NEW session, session.state \in {"Invalid", "Requested", "Confirmed"},
         session.alive \in BOOLEAN, server.state = "Confirmed" => session.state = "Confirmed",
         ServerMoves(session)
  PROVE  SessionMoved
<1>. DEFINE States == {"Invalid", "Requested", "Confirmed"}
            state == session.state
            alive == session.alive
<1>1. server \in [first : Versions, last : Versions, state : States, alive : BOOLEAN]
  BY DEF TypeOK
<1>2. state \in States /\ alive \in BOOLEAN
  OBVIOUS
<1>3. server' = [server EXCEPT !.state = state, !.alive = alive]
  BY DEF ServerMoves
<1>4. ServerType = [first : Versions, last : Versions, state : States, alive : BOOLEAN]
  BY DEF ServerType
<1>. HIDE DEF States, state, alive
<1>5. /\ server' \in ServerType /\ server'.first = server.first /\ server'.last = server.last
      /\ server'.state = state
  BY <1>1, <1>2, <1>3, <1>4
<1>. QED
  BY <1>5 DEF SessionMoved, state

\* How an open post goes on.
Progress(q, w) ==
  \/ q.step = "sent" /\ \E response \in Response : w = Reading(q, response)
  \/ q.step = "reading" /\ q.events # <<>> /\ w = Handled(q)
  \/ q.step = "callback" /\ w = Returned(q)

LEMMA ProgressType ==
  ASSUME NEW q \in OpenPost, NEW w, Progress(q, w)
  PROVE  w \in OpenPost /\ w.connection = q.connection
  BY ReadingType, HandledType, ReturnedType DEF Progress

Rests == UNCHANGED <<pool, spare, stack, deepest>>

\* Next as the proofs use it: what a step does to the connections, and in which phase.
LEMMA Moves ==
  ASSUME CInv, [Next]_vars
  PROVE  \/ /\ phase = "new" /\ phase' = "initialize" /\ \E c \in Nat : Opened(c)
            /\ UNCHANGED <<config, header, requests, server>>
         \/ /\ phase = "ready" /\ requests < MaxRequests /\ requests' = requests + 1
            /\ \E c \in Nat : Opened(c)
            /\ UNCHANGED <<config, phase, header, server>>
         \/ /\ phase = "initialize" /\ phase' = "initialized" /\ header' = config
            /\ Rests /\ UNCHANGED <<config, requests, server>>
         \/ /\ phase \in {"initialize", "initialized"} /\ phase' \in {"failed", "ready"}
            /\ phase' = "ready" =>
                 phase = "initialized" /\ server.state = "Confirmed" /\ header = server.last
            /\ Closed /\ UNCHANGED <<config, header, requests, server>>
         \/ /\ phase = "ready" /\ Closed /\ (Top.step = "reading" => Top.events = <<>>)
            /\ UNCHANGED <<config, phase, header, requests, server>>
         \/ /\ phase = "ready" /\ \E q \in OpenPost : Progress(Top, q) /\ Replaced(q)
         \/ /\ SessionMoved /\ Rests /\ UNCHANGED <<config, phase, header, requests>>
         \/ UNCHANGED vars
<1>. USE DEF CInv
<1>1. stack # <<>> => Top \in OpenPost
  BY TopTyped
<1>2. phase \in {"initialize", "initialized"} => stack # <<>> /\ Top.step = "sent"
  <2>1. Len(<<>>) = 0
    OBVIOUS
  <2>. QED
    BY <2>1 DEF Phases
<1>3. stack # <<>> /\ Top.step # "sent" => phase = "ready"
  <2>1. phase \in {"new", "initialize", "initialized", "ready", "failed"}
    BY DEF TypeOK
  <2>. QED
    BY <1>2, <2>1 DEF Phases
<1>4. CASE Construct
  BY <1>4, OpenStep DEF Construct
<1>5. CASE SendRequest
  BY <1>5, OpenStep DEF SendRequest
<1>6. CASE InitializeAnswered
  <2>1. /\ phase = "initialize" /\ UNCHANGED <<config, requests, server>>
        /\ \/ header' = config /\ phase' = "initialized" /\ Rests
           \/ phase' = "failed" /\ Close /\ header' = header
    BY <1>6 DEF InitializeAnswered, InitializeAnswer, Rests
  <2>. QED
    BY <1>2, <2>1, CloseStep
<1>7. CASE InitializeFailed
  BY <1>2, <1>7, CloseStep DEF InitializeFailed
<1>8. CASE InitializedAccepted
  <2>1. /\ server.state = "Confirmed" /\ header = server.last /\ phase = "initialized"
        /\ phase' = "ready" /\ Close /\ UNCHANGED <<config, header, requests, server>>
    BY <1>8 DEF InitializedAccepted, InitializedAnswer
  <2>. QED
    BY <1>2, <2>1, CloseStep
<1>9. CASE InitializedRefused
  <2>1. /\ phase = "initialized" /\ phase' = "failed" /\ Close
        /\ UNCHANGED <<config, header, requests, server>>
    BY <1>9 DEF InitializedRefused, InitializedAnswer
  <2>. QED
    BY <1>2, <2>1, CloseStep
<1>10. CASE SessionCreated
  <2>. DEFINE s == [state |-> "Requested", alive |-> TRUE]
  <2>1. ServerMoves(s) /\ server.state # "Confirmed"
    BY <1>10 DEF SessionCreated
  <2>2. s.state = "Requested" /\ s.alive \in BOOLEAN
    OBVIOUS
  <2>. HIDE DEF s
  <2>3. SessionMoved
    BY <2>1, <2>2, SessionType
  <2>. QED
    BY <2>1, <2>3 DEF ServerMoves, Rests
<1>11. CASE SessionConfirmed
  <2>. DEFINE s == [server EXCEPT !.state = "Confirmed"]
  <2>1. server \in ServerType
    BY DEF TypeOK, ServerType
  <2>2. s.state = "Confirmed" /\ s.alive \in BOOLEAN
    BY <2>1 DEF ServerType
  <2>3. ServerMoves(s)
    BY <1>11 DEF SessionConfirmed
  <2>. HIDE DEF s
  <2>4. SessionMoved
    BY <2>2, <2>3, SessionType
  <2>. QED
    BY <2>3, <2>4 DEF ServerMoves, Rests
<1>12. CASE SessionEnds
  <2>. DEFINE s == [server EXCEPT !.alive = FALSE]
  <2>1. server \in ServerType
    BY DEF TypeOK, ServerType
  <2>2. s.state = server.state /\ s.state \in {"Invalid", "Requested", "Confirmed"} /\ s.alive \in BOOLEAN
    BY <2>1 DEF ServerType
  <2>3. ServerMoves(s)
    BY <1>12 DEF SessionEnds
  <2>. HIDE DEF s
  <2>4. SessionMoved
    BY <2>2, <2>3, SessionType
  <2>. QED
    BY <2>3, <2>4 DEF ServerMoves, Rests
<1>13. ASSUME NEW response \in Response, Answered(response)
       PROVE  phase = "ready" /\ \E q \in OpenPost : Progress(Top, q) /\ Replaced(q)
  <2>. DEFINE q == Reading(Top, response)
  <2>1. phase = "ready" /\ stack # <<>> /\ Top.step = "sent" /\ ReplaceTop(q)
    BY <1>13 DEF Answered, Reading
  <2>2. Progress(Top, q)
    BY <2>1 DEF Progress
  <2>. HIDE DEF q
  <2>. QED
    BY <1>1, <2>1, <2>2, ProgressType, ReplaceStep
<1>14. CASE HandleResponse
  <2>. DEFINE q == Handled(Top)
  <2>1. stack # <<>> /\ Top.step = "reading" /\ Top.events # <<>> /\ ReplaceTop(q)
    BY <1>14 DEF HandleResponse, Handled, Calling
  <2>2. Progress(Top, q)
    BY <2>1 DEF Progress
  <2>. HIDE DEF q
  <2>. QED
    BY <1>1, <1>3, <2>1, <2>2, ProgressType, ReplaceStep
<1>15. CASE CallbackReturns
  <2>. DEFINE q == Returned(Top)
  <2>1. stack # <<>> /\ Top.step = "callback" /\ ReplaceTop(q)
    BY <1>15 DEF CallbackReturns, Returned
  <2>2. Progress(Top, q)
    BY <2>1 DEF Progress
  <2>. HIDE DEF q
  <2>. QED
    BY <1>1, <1>3, <2>1, <2>2, ProgressType, ReplaceStep
<1>16. CASE RequestReturns
  BY <1>3, <1>16, CloseStep DEF RequestReturns
<1>17. CASE RequestThrows
  <2>1. phase = "ready" /\ stack # <<>> /\ Top.step \in {"sent", "callback"} /\ Close
        /\ UNCHANGED <<config, phase, header, requests, server>>
    BY <1>17 DEF RequestThrows
  <2>. QED
    BY <2>1, CloseStep
<1>18. CASE Rest
  BY <1>18 DEF Rest
<1>. QED
  BY <1>4, <1>5, <1>6, <1>7, <1>8, <1>9, <1>10, <1>11, <1>12, <1>13, <1>14, <1>15, <1>16, <1>17, <1>18
     DEF Next

\* At first nothing is lent.
LEMMA CInitial == Init => CInv
<1>. SUFFICES ASSUME Init PROVE CInv
  OBVIOUS
<1>1. stack = <<>> /\ spare = <<>> /\ pool = 0 /\ deepest = 0 /\ requests = 0 /\ phase = "new" /\ header = None
  BY DEF Init, PoolInit
<1>2. stack \in Seq(OpenPost) /\ spare \in Seq(1..pool) /\ 0 \in 0..MaxRequests
  BY <1>1, EmptySeq, BoundsAssumption
<1>3. server \in [first : Versions, last : Versions, state : {"Invalid", "Requested", "Confirmed"}, alive : BOOLEAN]
  BY DEF Init
<1>4. TypeOK
  BY <1>1, <1>2, <1>3 DEF Init, TypeOK
<1>5. Held /\ Phases
  BY <1>1 DEF Held, Phases
<1>. QED
  BY <1>4, <1>5 DEF CInv

\* A step keeps the types, what is held and the phases.
LEMMA CStep == CInv /\ [Next]_vars => CInv'
<1>. SUFFICES ASSUME CInv, [Next]_vars PROVE CInv'
  OBVIOUS
<1>. USE DEF CInv
<1>1. /\ pool \in Nat /\ spare \in Seq(1..pool) /\ stack \in Seq(OpenPost)
      /\ Len(stack) \in Nat /\ DOMAIN stack = 1..Len(stack)
  BY StackTyped
<1>2. /\ config \in Versions /\ header \in Versions \cup {None} /\ requests \in 0..MaxRequests
      /\ deepest \in Nat /\ server \in ServerType
      /\ phase \in {"new", "initialize", "initialized", "ready", "failed"}
  BY DEF TypeOK, ServerType
<1>3. ASSUME /\ pool' \in Nat /\ spare' \in Seq(1..pool') /\ stack' \in Seq(OpenPost) /\ deepest' \in Nat
             /\ config' \in Versions /\ header' \in Versions \cup {None} /\ requests' \in 0..MaxRequests
             /\ server' \in ServerType
             /\ phase' \in {"new", "initialize", "initialized", "ready", "failed"}
      PROVE  TypeOK'
  BY <1>3 DEF TypeOK, ServerType
<1>4. ASSUME NEW c \in Nat, Opened(c)
      PROVE  /\ pool' \in Nat /\ spare' \in Seq(1..pool') /\ stack' \in Seq(OpenPost) /\ deepest' \in Nat
             /\ Held' /\ (stack = <<>> => Len(stack') = 1 /\ Top'.step = "sent")
  <2>1. /\ pool' \in Nat /\ spare' \in Seq(1..pool') /\ stack' \in Seq(OpenPost) /\ deepest' \in Nat
        /\ c \in 1..pool' /\ pool <= pool'
    <3>1. pool' \in Nat /\ spare' \in Seq(1..pool') /\ stack' \in Seq(OpenPost) /\ c \in 1..pool'
      BY <1>4 DEF Opened
    <3>2. deepest' = (IF Len(stack) = deepest THEN deepest + 1 ELSE deepest) /\ pool' \in {pool, pool + 1}
      BY <1>4 DEF Opened
    <3>3. deepest' \in Nat
      BY <1>2, <3>2
    <3>4. pool <= pool'
      BY <1>1, <3>2
    <3>. QED
      BY <3>1, <3>3, <3>4
  <2>2. /\ Len(stack') = Len(stack) + 1 /\ DOMAIN stack' = 1..Len(stack) + 1
        /\ \A i \in 1..Len(stack) : stack'[i] = stack[i]
        /\ stack'[Len(stack) + 1] = NewPost(c)
    BY <1>4, <2>1, LenProperties DEF Opened, OneLonger
  <2>3. NewPost(c).connection = c /\ NewPost(c).step = "sent"
    BY NewPostType
  <2>4. Held'
    <3>. SUFFICES ASSUME NEW i \in DOMAIN stack' PROVE stack'[i].connection \in 1..pool'
      BY DEF Held
    <3>1. CASE i \in 1..Len(stack)
      <4>1. stack[i].connection \in 1..pool
        BY <1>1, <3>1 DEF Held
      <4>. QED
        BY <1>1, <2>1, <2>2, <3>1, <4>1
    <3>2. CASE i = Len(stack) + 1
      BY <2>1, <2>2, <2>3, <3>2
    <3>. QED
      BY <1>1, <2>2, <3>1, <3>2
  <2>5. stack = <<>> => Len(stack') = 1 /\ Top'.step = "sent"
    BY <2>2, <2>3 DEF Top
  <2>. QED
    BY <2>1, <2>4, <2>5
<1>5. ASSUME Closed
      PROVE  /\ pool' \in Nat /\ spare' \in Seq(1..pool') /\ stack' \in Seq(OpenPost) /\ deepest' \in Nat
             /\ Held' /\ (Len(stack) = 1 => stack' = <<>>)
  <2>1. /\ pool' = pool /\ deepest' = deepest /\ spare' \in Seq(1..pool) /\ stack' \in Seq(OpenPost)
        /\ Len(stack) = Len(stack') + 1 /\ \A i \in 1..Len(stack') : stack[i] = stack'[i]
    BY <1>5 DEF Closed, OneLonger
  <2>2. DOMAIN stack' = 1..Len(stack') /\ Len(stack') \in Nat
    BY <2>1, LenProperties
  <2>3. Held'
    BY <1>1, <2>1, <2>2 DEF Held
  <2>4. Len(stack) = 1 => stack' = <<>>
    <3>. SUFFICES ASSUME Len(stack) = 1 PROVE stack' = <<>>
      OBVIOUS
    <3>. DEFINE n == Len(stack')
    <3>1. n \in Nat /\ n + 1 = 1
      BY <2>1, <2>2
    <3>. HIDE DEF n
    <3>2. n = 0
      BY <3>1
    <3>. QED
      BY <2>1, <3>2, EmptySeq DEF n
  <2>. QED
    BY <1>1, <1>2, <2>1, <2>3, <2>4
<1>6. CASE /\ phase = "new" /\ phase' = "initialize" /\ \E c \in Nat : Opened(c)
           /\ UNCHANGED <<config, header, requests, server>>
  <2>1. TypeOK' /\ Held'
    BY <1>2, <1>3, <1>4, <1>6
  <2>2. Phases'
    BY <1>4, <1>6 DEF Phases
  <2>. QED
    BY <2>1, <2>2
<1>7. CASE /\ phase = "ready" /\ requests < MaxRequests /\ requests' = requests + 1
           /\ \E c \in Nat : Opened(c)
           /\ UNCHANGED <<config, phase, header, server>>
  <2>1. requests' \in 0..MaxRequests
    BY <1>2, <1>7, BoundsAssumption
  <2>2. TypeOK' /\ Held'
    BY <1>2, <1>3, <1>4, <1>7, <2>1
  <2>3. Phases'
    BY <1>7 DEF Phases
  <2>. QED
    BY <2>2, <2>3
<1>8. CASE /\ phase = "initialize" /\ phase' = "initialized" /\ header' = config
           /\ Rests /\ UNCHANGED <<config, requests, server>>
  <2>1. TypeOK' /\ Held'
    BY <1>1, <1>2, <1>3, <1>8 DEF Rests, Held
  <2>2. Phases'
    BY <1>8 DEF Phases, Rests, Top
  <2>. QED
    BY <2>1, <2>2
<1>9. CASE /\ phase \in {"initialize", "initialized"} /\ phase' \in {"failed", "ready"}
           /\ phase' = "ready" =>
                phase = "initialized" /\ server.state = "Confirmed" /\ header = server.last
           /\ Closed /\ UNCHANGED <<config, header, requests, server>>
  <2>1. TypeOK' /\ Held'
    BY <1>2, <1>3, <1>5, <1>9
  <2>2. Phases'
    BY <1>5, <1>9 DEF Phases
  <2>. QED
    BY <2>1, <2>2
<1>10. CASE /\ phase = "ready" /\ Closed /\ (Top.step = "reading" => Top.events = <<>>)
            /\ UNCHANGED <<config, phase, header, requests, server>>
  <2>1. TypeOK' /\ Held'
    BY <1>2, <1>3, <1>5, <1>10
  <2>2. Phases'
    BY <1>10 DEF Phases
  <2>. QED
    BY <2>1, <2>2
<1>11. ASSUME phase = "ready", NEW q \in OpenPost, Replaced(q) PROVE CInv'
  <2>1. /\ stack' \in Seq(OpenPost) /\ Len(stack') = Len(stack) /\ q.connection = Top.connection
        /\ \A i \in 1..Len(stack) : stack'[i] = IF i = Len(stack) THEN q ELSE stack[i]
        /\ UNCHANGED <<pool, spare, config, phase, header, requests, deepest, server>>
    BY <1>11 DEF Replaced
  <2>2. TypeOK'
    BY <1>1, <1>2, <1>3, <2>1
  <2>3. Held'
    <3>1. DOMAIN stack' = 1..Len(stack)
      BY <2>1, LenProperties
    <3>. QED
      BY <1>1, <2>1, <3>1 DEF Held, Top
  <2>4. Phases'
    BY <1>11, <2>1 DEF Phases
  <2>. QED
    BY <2>2, <2>3, <2>4
<1>12. CASE SessionMoved /\ Rests /\ UNCHANGED <<config, phase, header, requests>>
  <2>1. TypeOK' /\ Held'
    BY <1>1, <1>2, <1>3, <1>12 DEF Rests, Held, SessionMoved
  <2>2. Phases'
    BY <1>12 DEF Phases, Rests, Top
  <2>. QED
    BY <2>1, <2>2
<1>13. CASE UNCHANGED vars
  <2>1. TypeOK' /\ Held'
    BY <1>1, <1>2, <1>3, <1>13 DEF vars, Held
  <2>2. Phases'
    BY <1>13 DEF Phases, vars, Top
  <2>. QED
    BY <2>1, <2>2
<1>. QED
  BY <1>6, <1>7, <1>8, <1>9, <1>10, <1>11, <1>12, <1>13, Moves

LEMMA CInvariant == Spec => []CInv
<1>1. Init => CInv
  BY CInitial
<1>2. CInv /\ [Next]_vars => CInv'
  BY CStep
<1>. QED
  BY <1>1, <1>2, PTL DEF Spec

\* However many requests are sent and answered, every variable keeps its type.
THEOREM TypeCorrect == Spec => []TypeOK
  BY CInvariant, PTL DEF CInv

----------------------------------------------------------------------------
(* The connections.                                                        *)

Connections(s) == [i \in DOMAIN s |-> s[i].connection]

\* No connection is lent twice or spare twice: what ConnectionsApart and PoolIsSmall need
\* to last, for a pop takes one occurrence only.
Once ==
  /\ IsInjective(Connections(stack)) /\ IsInjective(spare)
  /\ Range(Connections(stack)) \cap Range(spare) = {}
  /\ Range(Connections(stack)) \cup Range(spare) = 1..pool
  /\ Len(stack) + Len(spare) = pool
  /\ pool = deepest

LEMMA ConnectionsOf ==
  ASSUME NEW s \in Seq(OpenPost)
  PROVE  /\ Connections(s) \in Seq(Nat) /\ Len(Connections(s)) = Len(s)
         /\ Range(Connections(s)) = {s[i].connection : i \in DOMAIN s}
<1>1. Len(s) \in Nat /\ DOMAIN s = 1..Len(s) /\ \A i \in 1..Len(s) : s[i] \in OpenPost
  BY LenProperties, ElementOfSeq
<1>2. \A q \in OpenPost : q.connection \in Nat
  BY DEF OpenPost
<1>3. Connections(s) = [i \in 1..Len(s) |-> s[i].connection]
  BY <1>1 DEF Connections
<1>4. Connections(s) \in Seq(Nat) /\ Len(Connections(s)) = Len(s)
  BY <1>1, <1>2, <1>3
<1>5. Range(Connections(s)) = {s[i].connection : i \in DOMAIN s}
  BY DEF Range, Connections
<1>. QED
  BY <1>4, <1>5

LEMMA LongerConnections ==
  ASSUME NEW s \in Seq(OpenPost), NEW u \in Seq(OpenPost), NEW q, OneLonger(s, u, q)
  PROVE  OneLonger(Connections(s), Connections(u), q.connection)
<1>1. /\ Len(s) \in Nat /\ DOMAIN s = 1..Len(s) /\ DOMAIN u = 1..Len(s) + 1
      /\ Len(Connections(s)) = Len(s) /\ Len(Connections(u)) = Len(s) + 1
  BY LenProperties, ConnectionsOf DEF OneLonger
<1>2. (\A i \in 1..Len(s) : u[i] = s[i]) /\ u[Len(s) + 1] = q
  BY DEF OneLonger
<1>3. \A i \in 1..Len(s) : Connections(u)[i] = Connections(s)[i]
  BY <1>1, <1>2 DEF Connections
<1>4. Connections(u)[Len(s) + 1] = q.connection
  BY <1>1, <1>2 DEF Connections
<1>. QED
  BY <1>1, <1>3, <1>4 DEF OneLonger

LEMMA OnceInvariant == Spec => []Once
<1>1. Init => Once
  <2>. SUFFICES ASSUME Init PROVE Once
    OBVIOUS
  <2>1. stack = <<>> /\ spare = <<>> /\ pool = 0 /\ deepest = 0
    BY DEF Init, PoolInit
  <2>2. DOMAIN <<>> = {} /\ DOMAIN Connections(stack) = {} /\ Len(<<>>) = 0
    BY <2>1 DEF Connections
  <2>. QED
    BY <2>1, <2>2 DEF Once, Range, IsInjective
<1>2. CInv /\ CInv' /\ Once /\ [Next]_vars => Once'
  <2>. SUFFICES ASSUME CInv, CInv', Once, [Next]_vars PROVE Once'
    OBVIOUS
  <2>. DEFINE lent == Connections(stack)
  <2>1. /\ pool \in Nat /\ spare \in Seq(1..pool) /\ stack \in Seq(OpenPost)
        /\ Len(stack) \in Nat /\ DOMAIN stack = 1..Len(stack) /\ Len(spare) \in Nat
    BY StackTyped, LenProperties DEF CInv
  <2>2. lent \in Seq(Nat) /\ Len(lent) = Len(stack)
    BY <2>1, ConnectionsOf
  <2>3. spare \in Seq(Nat) /\ \A x \in Range(spare) : x \in 1..pool
    <3>1. spare \in Seq(Nat)
      <4>1. 1..pool \subseteq Nat
        BY <2>1
      <4>. QED
        BY <2>1, <4>1, SeqMonotonic
    <3>. QED
      BY <3>1, <2>1, RangeOfSeq
  <2>4. Len(stack) + Len(spare) = pool /\ pool = deepest
    BY DEF Once
  <2>5. Range(lent) \cap Range(spare) = {} /\ Range(lent) \cup Range(spare) = 1..pool
    BY DEF Once
  <2>6. ASSUME NEW c \in Nat, Opened(c) PROVE Once'
    <3>1. /\ stack' \in Seq(OpenPost) /\ OneLonger(stack, stack', NewPost(c)) /\ NewPost(c).connection = c
          /\ pool' \in Nat /\ spare' \in Seq(1..pool')
      BY <2>6, NewPostType DEF Opened
    <3>2. lent' \in Seq(Nat) /\ OneLonger(lent, lent', c) /\ Len(stack') = Len(stack) + 1
      <4>1. Connections(stack') \in Seq(Nat)
        BY <3>1, ConnectionsOf
      <4>2. OneLonger(Connections(stack), Connections(stack'), c)
        BY <2>1, <3>1, LongerConnections
      <4>. QED
        BY <3>1, <4>1, <4>2 DEF OneLonger
    <3>3. Range(lent') = Range(lent) \cup {c} /\ (IsInjective(lent') <=> IsInjective(lent) /\ c \notin Range(lent))
      BY <2>2, <3>2, OneMoreElement
    <3>4. CASE spare # <<>> /\ pool' = pool /\ OneLonger(spare', spare, c)
      <4>1. spare' \in Seq(1..pool)
        BY <3>1, <3>4
      <4>2. /\ Range(spare) = Range(spare') \cup {c}
            /\ IsInjective(spare) <=> IsInjective(spare') /\ c \notin Range(spare')
        BY <2>1, <3>4, <4>1, OneMoreElement
      <4>3. IsInjective(lent') /\ IsInjective(spare')
        BY <3>3, <4>2 DEF Once
      <4>4. Range(lent') \cap Range(spare') = {} /\ Range(lent') \cup Range(spare') = 1..pool'
        BY <3>3, <3>4, <4>2 DEF Once
      <4>5. Len(spare') \in Nat /\ Len(spare) = Len(spare') + 1
        BY <3>4, <4>1, LenProperties DEF OneLonger
      <4>6. Len(stack) # deepest /\ deepest' = deepest
        <5>1. Len(stack) # deepest
          <6>1. Len(stack) + (Len(spare') + 1) = deepest
            BY <2>4, <4>5
          <6>. QED
            BY <2>1, <4>5, <6>1
        <5>. QED
          BY <2>6, <5>1 DEF Opened
      <4>7. Len(stack') + Len(spare') = pool' /\ pool' = deepest'
        <5>1. Len(stack) + (Len(spare') + 1) = pool
          BY <2>4, <4>5
        <5>2. (Len(stack) + 1) + Len(spare') = pool
          BY <2>1, <4>5, <5>1
        <5>. QED
          BY <2>4, <3>2, <3>4, <4>6, <5>2
      <4>. QED
        BY <4>3, <4>4, <4>7 DEF Once
    <3>5. CASE spare = <<>> /\ spare' = spare /\ pool' = pool + 1 /\ c = pool + 1
      <4>1. Range(spare) = {} /\ Len(spare) = 0
        BY <3>5 DEF Range
      <4>2. c \notin Range(lent) /\ Range(lent) = 1..pool
        <5>1. Range(lent) = 1..pool
          BY <2>5, <4>1
        <5>. QED
          BY <2>1, <3>5, <5>1
      <4>3. IsInjective(lent') /\ IsInjective(spare') /\ Range(spare') = {}
        BY <3>3, <3>5, <4>1, <4>2 DEF Once
      <4>4. 1..pool + 1 = 1..pool \cup {pool + 1}
        BY <2>1
      <4>5. Range(lent') \cup Range(spare') = 1..pool' /\ Range(lent') \cap Range(spare') = {}
        BY <3>3, <3>5, <4>2, <4>3, <4>4
      <4>6. Len(stack) = deepest /\ deepest' = deepest + 1
        BY <2>1, <2>6, <4>1 DEF Opened, Once
      <4>7. Len(stack') + Len(spare') = pool' /\ pool' = deepest'
        BY <2>1, <3>2, <3>5, <4>1, <4>6 DEF Once
      <4>. QED
        BY <4>3, <4>5, <4>7 DEF Once
    <3>. QED
      BY <2>6, <3>4, <3>5 DEF Opened
  <2>7. CASE Closed
    <3>. DEFINE c == Top.connection
    <3>1. /\ stack' \in Seq(OpenPost) /\ OneLonger(stack', stack, Top)
          /\ spare' \in Seq(1..pool) /\ OneLonger(spare, spare', c)
          /\ pool' = pool /\ deepest' = deepest
      BY <2>7 DEF Closed
    <3>2. lent' \in Seq(Nat) /\ OneLonger(lent', lent, c) /\ Len(stack) = Len(stack') + 1 /\ Len(stack') \in Nat
      <4>1. Connections(stack') \in Seq(Nat) /\ Len(stack') \in Nat
        BY <3>1, ConnectionsOf, LenProperties
      <4>2. OneLonger(Connections(stack'), Connections(stack), c)
        BY <2>1, <3>1, LongerConnections
      <4>. QED
        BY <3>1, <4>1, <4>2 DEF OneLonger
    <3>. HIDE DEF c
    <3>3. Range(lent) = Range(lent') \cup {c} /\ (IsInjective(lent) <=> IsInjective(lent') /\ c \notin Range(lent'))
      BY <2>2, <3>2, OneMoreElement
    <3>4. Range(spare') = Range(spare) \cup {c} /\ (IsInjective(spare') <=> IsInjective(spare) /\ c \notin Range(spare))
      BY <2>1, <3>1, OneMoreElement
    <3>5. IsInjective(lent') /\ IsInjective(spare')
      BY <3>3, <3>4 DEF Once
    <3>6. Range(lent') \cap Range(spare') = {} /\ Range(lent') \cup Range(spare') = 1..pool'
      BY <3>1, <3>3, <3>4 DEF Once
    <3>7. Len(spare') = Len(spare) + 1
      BY <3>1 DEF OneLonger
    <3>8. Len(stack') + Len(spare') = pool' /\ pool' = deepest'
      BY <2>1, <3>1, <3>2, <3>7 DEF Once
    <3>. QED
      BY <3>5, <3>6, <3>8 DEF Once
  <2>8. ASSUME NEW q \in OpenPost, Replaced(q) PROVE Once'
    <3>1. /\ stack' \in Seq(OpenPost) /\ Len(stack') = Len(stack) /\ q.connection = Top.connection
          /\ \A i \in 1..Len(stack) : stack'[i] = IF i = Len(stack) THEN q ELSE stack[i]
          /\ UNCHANGED <<pool, spare, deepest>>
      BY <2>8 DEF Replaced
    <3>2. DOMAIN stack' = DOMAIN stack
      BY <2>1, <3>1, LenProperties
    <3>3. \A i \in DOMAIN stack : stack'[i].connection = stack[i].connection
      BY <2>1, <3>1 DEF Top
    <3>4. lent' = lent
      BY <3>2, <3>3 DEF Connections
    <3>. QED
      BY <3>1, <3>4 DEF Once
  <2>9. CASE Rests \/ UNCHANGED vars
    BY <2>9 DEF Rests, vars, Once
  <2>. QED
    BY <2>6, <2>7, <2>8, <2>9, Moves
<1>. QED
  BY <1>1, <1>2, CInvariant, PTL DEF Spec

\* Every connection is lent to one post or spare, once, however deeply requests nest and
\* wherever they break: none is shared and none is lost.
THEOREM ConnectionsKept == Spec => []ConnectionsApart
<1>1. CInv /\ Once => ConnectionsApart
  <2>. SUFFICES ASSUME CInv, Once PROVE ConnectionsApart
    OBVIOUS
  <2>1. Lent = Range(Connections(stack)) /\ Spare = Range(spare)
    BY StackTyped, ConnectionsOf DEF CInv, Lent, Spare, Range
  <2>. QED
    BY <2>1 DEF Once, ConnectionsApart
<1>. QED
  BY <1>1, CInvariant, OnceInvariant, PTL

\* The pool never holds more connections than were needed at a time.
THEOREM PoolBounded == Spec => []PoolIsSmall
<1>1. Once => PoolIsSmall
  BY DEF Once, PoolIsSmall
<1>. QED
  BY <1>1, OnceInvariant, PTL

----------------------------------------------------------------------------
(* The handshake and the callbacks.                                        *)

\* A constructed client's session is confirmed at the server and stays so.
THEOREM ReadyConfirmed == Spec => []ReadyIsConfirmed
<1>1. Init => ReadyIsConfirmed
  BY DEF Init, ReadyIsConfirmed
<1>2. CInv /\ ReadyIsConfirmed /\ [Next]_vars => ReadyIsConfirmed'
  <2>. SUFFICES ASSUME CInv, ReadyIsConfirmed, [Next]_vars, phase' = "ready"
                PROVE  server'.state = "Confirmed" /\ header' = server'.last /\ header' = config'
    BY DEF ReadyIsConfirmed
  <2>. USE DEF ReadyIsConfirmed
  <2>1. CASE phase = "ready" /\ UNCHANGED <<config, header, server>>
    BY <2>1
  <2>2. CASE /\ phase = "initialized" /\ server.state = "Confirmed" /\ header = server.last
             /\ UNCHANGED <<config, header, server>>
    <3>1. header = config
      BY <2>2 DEF CInv, Phases
    <3>. QED
      BY <2>2, <3>1
  <2>3. CASE phase = "ready" /\ SessionMoved /\ UNCHANGED <<config, header>>
    BY <2>3 DEF SessionMoved
  <2>4. ASSUME NEW q, Replaced(q) PROVE UNCHANGED <<config, header, server>>
    BY <2>4 DEF Replaced
  <2>. QED
    BY <2>1, <2>2, <2>3, <2>4, Moves DEF vars
<1>. QED
  BY <1>1, <1>2, CInvariant, PTL DEF Spec

\* What an open post has told its caller: nothing before the answer, one of the callbacks
\* for an answer that is no stream, and in a stream no action but the last callback.
PostOutcome(q) ==
  /\ q.step = "sent" => q.actions = 0 /\ q.errors = 0
  /\ q.step # "sent" /\ q.kind = "stream" => q.actions <= 1 /\ (q.actions = 1 => q.events = <<>>)
  /\ q.kind # "stream" /\ q.step = "callback" => q.actions + q.errors = 1 /\ q.events = <<>>
  /\ q.kind # "stream" /\ q.step = "reading" =>
       IF q.events = <<>> THEN q.actions + q.errors = 1
       ELSE q.actions = 0 /\ q.errors = 0 /\ Head(q.events) # "other"

Outcomes == \A i \in DOMAIN stack : PostOutcome(stack[i])

LEMMA ProgressOutcome ==
  ASSUME NEW q \in OpenPost, PostOutcome(q), NEW w, Progress(q, w)
  PROVE  PostOutcome(w)
<1>1. q.actions \in Nat /\ q.errors \in Nat /\ q.events \in Seq(EventType)
  <2>. DEFINE Events == Seq(EventType)
  <2>1. OpenPost = [connection : Nat, step : {"sent", "reading", "callback"},
                    kind : {None, "refused", "untyped", "object", "stream"}, events : Events,
                    actions : Nat, errors : Nat, core : Nat]
    BY DEF OpenPost
  <2>. HIDE DEF Events
  <2>2. q.actions \in Nat /\ q.errors \in Nat /\ q.events \in Events
    BY <2>1
  <2>. QED
    BY <2>2 DEF Events
<1>2. ASSUME q.step = "sent", NEW response \in Response, w = Reading(q, response) PROVE PostOutcome(w)
  <2>1. /\ w.step = "reading" /\ w.kind = response.kind /\ w.events = response.events
        /\ w.actions = 0 /\ w.errors = 0
    BY <1>2, ReadingType DEF PostOutcome
  <2>2. response.kind # "stream" => response.events # <<>> /\ Head(response.events) # "other"
    <3>1. Len(<<>>) = 0
      OBVIOUS
    <3>. QED
      BY <3>1, ResponseType
  <2>. QED
    BY <2>1, <2>2 DEF PostOutcome
<1>3. CASE q.step = "reading" /\ q.events # <<>> /\ w = Handled(q)
  <2>. DEFINE e == Head(q.events)
  <2>1. /\ w.kind = q.kind
        /\ w.step = (IF Calling(q) = "none" THEN "reading" ELSE "callback")
        /\ w.actions = q.actions + (IF Calling(q) = "action" THEN 1 ELSE 0)
        /\ w.errors = q.errors + (IF Calling(q) = "errorAction" THEN 1 ELSE 0)
        /\ w.events = IF ReadsOn(q.kind, e) THEN Tail(q.events) ELSE <<>>
    BY <1>3, HandledType
  <2>2. CASE q.kind = "stream"
    <3>1. q.actions = 0
      BY <1>1, <1>3, <2>2 DEF PostOutcome
    <3>2. Calling(q) = "action" => e = "result"
      BY DEF Calling, Callback
    <3>3. e = "result" => ~ReadsOn(q.kind, e)
      BY DEF ReadsOn
    <3>4. w.actions <= 1 /\ (w.actions = 1 => w.events = <<>>)
      BY <2>1, <3>1, <3>2, <3>3
    <3>. QED
      BY <2>1, <2>2, <3>4 DEF PostOutcome
  <2>3. CASE q.kind # "stream"
    <3>1. q.actions = 0 /\ q.errors = 0 /\ e # "other"
      BY <1>3, <2>3 DEF PostOutcome
    <3>2. Calling(q) \in {"action", "errorAction"}
      BY <2>3 DEF Calling, Callback
    <3>3. w.events = <<>>
      BY <2>1, <2>3 DEF ReadsOn
    <3>4. w.step = "callback" /\ w.actions + w.errors = 1
      BY <2>1, <3>1, <3>2
    <3>. QED
      BY <2>1, <2>3, <3>3, <3>4 DEF PostOutcome
  <2>. QED
    BY <2>2, <2>3
<1>4. CASE q.step = "callback" /\ w = Returned(q)
  <2>1. /\ w.step = "reading" /\ w.kind = q.kind /\ w.events = q.events
        /\ w.actions = q.actions /\ w.errors = q.errors
    BY <1>4, ReturnedType
  <2>. QED
    BY <1>4, <2>1 DEF PostOutcome
<1>. QED
  BY <1>2, <1>3, <1>4 DEF Progress

LEMMA OutcomesInvariant == Spec => []Outcomes
<1>1. Init => Outcomes
  BY DEF Init, Outcomes
<1>2. CInv /\ Outcomes /\ [Next]_vars => Outcomes'
  <2>. SUFFICES ASSUME CInv, Outcomes, [Next]_vars PROVE Outcomes'
    OBVIOUS
  <2>1. stack \in Seq(OpenPost) /\ Len(stack) \in Nat /\ DOMAIN stack = 1..Len(stack)
    BY StackTyped DEF CInv
  <2>2. ASSUME NEW c \in Nat, Opened(c) PROVE Outcomes'
    <3>1. PostOutcome(NewPost(c))
      BY NewPostType DEF PostOutcome
    <3>2. /\ DOMAIN stack' = 1..Len(stack) + 1
          /\ \A i \in 1..Len(stack) : stack'[i] = stack[i]
          /\ stack'[Len(stack) + 1] = NewPost(c)
      BY <2>2, LenProperties DEF Opened, OneLonger
    <3>3. \A i \in 1..Len(stack) + 1 : i \in 1..Len(stack) \/ i = Len(stack) + 1
      BY <2>1
    <3>4. \A i \in 1..Len(stack) : PostOutcome(stack[i])
      BY <2>1 DEF Outcomes
    <3>. QED
      BY <3>1, <3>2, <3>3, <3>4 DEF Outcomes
  <2>3. CASE Closed
    <3>1. /\ stack' \in Seq(OpenPost) /\ Len(stack) = Len(stack') + 1
          /\ \A i \in 1..Len(stack') : stack[i] = stack'[i]
      BY <2>3 DEF Closed, OneLonger
    <3>2. DOMAIN stack' = 1..Len(stack') /\ \A i \in 1..Len(stack') : i \in 1..Len(stack)
      BY <2>1, <3>1, LenProperties
    <3>3. \A i \in 1..Len(stack) : PostOutcome(stack[i])
      BY <2>1 DEF Outcomes
    <3>. QED
      BY <3>1, <3>2, <3>3 DEF Outcomes
  <2>4. ASSUME NEW q \in OpenPost, Progress(Top, q), Replaced(q) PROVE Outcomes'
    <3>1. /\ stack' \in Seq(OpenPost) /\ Len(stack') = Len(stack) /\ stack # <<>>
          /\ \A i \in 1..Len(stack) : stack'[i] = IF i = Len(stack) THEN q ELSE stack[i]
      BY <2>4 DEF Replaced
    <3>2. DOMAIN stack' = 1..Len(stack)
      BY <3>1, LenProperties
    <3>3. Top \in OpenPost /\ Len(stack) \in 1..Len(stack)
      BY <3>1, TopTyped DEF CInv
    <3>4. \A i \in 1..Len(stack) : PostOutcome(stack[i])
      BY <2>1 DEF Outcomes
    <3>5. PostOutcome(Top)
      BY <3>3, <3>4 DEF Top
    <3>6. PostOutcome(q)
      BY <2>4, <3>3, <3>5, ProgressOutcome
    <3>. QED
      BY <3>1, <3>2, <3>4, <3>6 DEF Outcomes
  <2>5. CASE Rests \/ UNCHANGED vars
    BY <2>5 DEF Rests, vars, Outcomes
  <2>. QED
    BY <2>2, <2>3, <2>4, <2>5, Moves
<1>. QED
  BY <1>1, <1>2, CInvariant, PTL DEF Spec

\* Whatever a server answers, with streams of any length, a request that returns has had
\* exactly one of its callbacks called, and for a stream its action at most once.
THEOREM OutcomeIsOne == Spec => OneOutcome
<1>1. CInv /\ Outcomes /\ [Next]_vars =>
        [phase = "ready" /\ Len(stack') < Len(stack) /\ Top.step = "reading" =>
           IF Top.kind = "stream" THEN Top.actions <= 1 ELSE Top.actions + Top.errors = 1]_vars
  <2>. SUFFICES ASSUME CInv, Outcomes, [Next]_vars,
                       phase = "ready", Len(stack') < Len(stack), Top.step = "reading"
                PROVE  IF Top.kind = "stream" THEN Top.actions <= 1 ELSE Top.actions + Top.errors = 1
    OBVIOUS
  <2>0. Len(stack) \in Nat /\ DOMAIN stack = 1..Len(stack)
    BY StackTyped DEF CInv
  <2>1. CASE Closed /\ (Top.step = "reading" => Top.events = <<>>)
    <3>1. stack # <<>>
      BY <2>1 DEF Closed
    <3>2. Len(stack) \in 1..Len(stack)
      BY <3>1, TopTyped DEF CInv
    <3>3. PostOutcome(Top)
      BY <2>0, <3>2 DEF Outcomes, Top
    <3>. QED
      BY <2>1, <3>3 DEF PostOutcome
  <2>2. ASSUME NEW c, Opened(c) PROVE FALSE
    BY <2>0, <2>2 DEF Opened, OneLonger
  <2>3. ASSUME NEW q, Replaced(q) PROVE FALSE
    <3>1. Len(stack') = Len(stack)
      BY <2>3 DEF Replaced
    <3>. QED
      BY <2>0, <3>1
  <2>4. CASE Rests \/ UNCHANGED vars
    BY <2>0, <2>4 DEF Rests, vars
  <2>. QED
    BY <2>1, <2>2, <2>3, <2>4, Moves
<1>. QED
  BY <1>1, CInvariant, OutcomesInvariant, PTL DEF Spec, OneOutcome
=============================================================================
