# Formal models of NisseMCP

TLA+ models of NisseMCP, a C++ library for servers and clients of the Model Context
Protocol (MCP), model-checked with TLC and in part proved with TLAPS. Paths below are
relative to `src/src/NisseMCP/`.

## The system

| Component | State | Operations | Talks to |
|---|---|---|---|
| `MCPServer`, `MCPSession`, `MCPServerContext` | `sessionMap` (uuid to `MCPSession`: state, protocol, `lastUsed`, logging set, known threads) | `validateRequest`, `handleRequest`, `removeSession`; `initialize`, `setLogging`, `requestAdd`, `requestRemove` | HTTP server and its worker threads, `MCPCore`, the logging library (callbacks) |
| `MCPJanitor` | a timer | `handleRequest`: erases sessions past their time | `sessionMap` |
| `MCPCore` | none | `initialize`, `notifications/initialized`, `ping`, `logging/setLevel` | the session of the context it is called with |
| `JsonRPCCore` | the executor map, fixed at construction | `handleInputStream`, batches, executors | a `Context` |
| `ServerContext`, `LocalContext`, `ClientContextMCP` | item count, stream flag, status, response body | `serverSideStream`, `error`, `addNote`, `addItem`, destructors | HTTP response, an output stream, or none |
| `Local`, `JsonRPCServer` | none | the loop over a stream; one message per HTTP request | `JsonRPCCore` |
| `ClientMCP` | headers, request id, a pool | constructor (handshake), `sendRequest`, response handling | `ConnectionPool`, `SSEInfo`, `JsonRPCCore` |
| `ConnectionPool` | connections, the spare ones | `getConnection`, `returnConnection` | HTTP client |
| `SSEInfo` | the last event id | `readEvent` | a stream |
| `MugPlugin` | none | a stub | |

What is hard about it:

- **Sessions and threads.** Requests are coroutines: a request finds its session once,
  keeps a plain reference, and is suspended and resumed on any worker thread, while
  other requests of the session, DELETEs and the janitor run. Nothing counts references.
- **The handshake.** A session is `Requested` until `notifications/initialized`; what may
  run before is decided from the first text `"method"` found in the body, which need not be
  the method of a call, some steps before the body is read; the version is checked later still.
- **Logging.** A session hears the log messages of threads that work for it, so threads
  must be learnt and forgotten in step with every join, yield, change of level and end.
- **Batches.** Errors of a call, of the input and of the stream share one stream's error
  bits and one return value; the answers' framing and status depend on what came before.
- **Two programs.** The client's constructor makes two posts, and between them the server's
  janitor and whoever else knows the session may act; what the handshake leaves in the server
  must be what every later request of the client is checked against.
- **Endings.** Sessions time out, handshakes sooner; every request ends; loops over a
  stream end with it.

What makes each part correct is stated in the properties below; `PROJECT.json` lists the
hazards line by line with the properties that would catch them.

## The modules

| Module | Role |
|---|---|
| `SessionLifecycle` | abstract: a session is requested, confirmed, ended, in that order; its log is heard only while it lives |
| `MCPServer` | server, sessions, janitor and MCP methods; implements `SessionLifecycle` |
| `SessionHistory` | `MCPServer` with two history variables: how long a session served no request, and the version it was told |
| `MCPServerMC` | TLC instances of `MCPServer` (symmetry) |
| `MCPServerProofs`, `MCPLogProofs` | theorems about `MCPServer`, the second about its logging |
| `JsonRPCService` | abstract: calls are taken in order and answered once, nothing is taken after a complaint about the input |
| `JsonRPCCore` | messages, batches, executors and the three contexts; implements `JsonRPCService` |
| `JsonRPCWire` | what a batch is answered, written as text and read back with `EventStream` |
| `JsonRPCCoreMC` | TLC instances of `JsonRPCWire` (the sets of calls, the digits) |
| `JsonRPCCoreProofs`, `JsonRPCEventProofs` | theorems about `JsonRPCCore`, the second about what a batch is answered over HTTP |
| `ConnectionPool` | the pool's connections, lent and spare |
| `EventStream` | what a stream of events says, read by lines |
| `SSEReader` | the reader of events, by characters |
| `SSEReaderMC` | TLC instances of `SSEReader` (the chunks) |
| `EventStreamProofs` | how the events of a text change with one character or line end more |
| `SSEReaderProofs` | theorems about `SSEReader` |
| `ClientMCP` | the client's handshake and its requests, each with a connection of the pool, and what it relies on of the server |
| `ClientMCPProofs` | theorems about `ClientMCP` and its pool |
| `ClientServer` | composition: a `ClientMCP` whose connections are connections of an `MCPServer`; implements `ClientMCP` |
| `ClientServerMC` | a TLC instance of `ClientServer` (what others send) |
| `ClientServerProofs` | that `ClientServer` implements `ClientMCP`, and what follows for a client |

### MCPServer

`sessionMap` is the set of uuids in the map and `session` the objects, kept after they are
destroyed as the memory they leave behind. `age` is the time since `lastUsed`, `callbacks`
what the logging library holds, `request` what each connection is serving, `sweepIn` the
janitor's timer.

A request goes through the phases of `handleRequest`:

    idle --FindSession--> found --CheckProtocol--> admitted --Join--> running --Finish--> idle
      \--CreateSession (initialize)-------------------^             Yield | ^ Resume
      \--Refuse... (400, 403, 404)--> idle                          suspended

`FindSession` is the lookup with the handshake check, `CheckProtocol` the header check, and
`Join` the construction of the context and the look at whether an array is allowed; then
every call of the body is one action (`Ping`, `Initialize`, `NotificationsInitialized`,
`LoggingSetLevel`). `Yield` and `Resume` are what `ContextThreadNotify` reports.
`RemoveSession` is DELETE, `JanitorSweep` the whole loop over the map.

Using a session that has been destroyed is undefined: the step is taken with the old
contents and `memory` becomes `"stale"`, or `Crash` brings the process down. Properties that
mean nothing after that are stated for `memory = "sound"`.

What `validateRequest` decides on is not the method of a call but what `getMethodName` finds: the
string after the first text `"method"` of the body, which may stand in the parameters or in any other
member before the call's own. A body is therefore its calls and, independently of them, `found`: any
of the three names the server compares with, or `""` for every other outcome of the search. Whether the text hides a call that
needs the handshake (`Hides`) is recorded with the request as `hides`, which no step reads: it is there for
`HandshakeComesFirst` alone.

Assumptions: single operations of `std::map`, `std::set` and of the logging library are
atomic (the code has no locks, so a race inside them is outside the model); a uuid is never
drawn twice; session ids in a
DELETE parse and version strings are enumerators (others throw out of the handler into the
HTTP library); the timer is served before time passes on. Bodies that do not parse, and
calls that fail, change no session and are left to `JsonRPCCore`.

### JsonRPCCore

The input is a sequence of tokens that arrive one by one: `[`, `]`, `,` (in the module `"open"`,
`"close"` and `"comma"`), a line end, junk, or a call. A call is what the importer makes of its text: with or without id, version right
or wrong, method unknown, without parameters (`plain`), with (`param`), or one that never
answers (`silent`, as `notifications/initialized`), parameters absent, good or bad, and
whether the function throws. `pc` is the place in `handleInputStream`; `failed` stands for
the stream's error bits, `context` for the `Context` of the message: stream flag, count,
status, the status that went out with the first item, and `text`, what was written: separators
of an array (`LocalContext`), id lines and blank lines of events (`ServerContext`), and the
items, of which the id is kept. A call that has an id has its place in the input for it; 0 is
id null, which complaints about the input have and failed notifications.
`transport` is `"server"` (one message, then the response), `"local"`
(`Local::run`: `EndMessage`, `IgnoreRest` and `NextMessage` are `~LocalContext` and the loop) or
`"client"` (one event of a server; no batches, and the answers go nowhere).
`JsonRPCWire` writes the text of a stream out in characters and compares what `EventStream`
reads in it with the answers given; `SSEReader` shows that `SSEInfo` reads what `EventStream` says.
A silent call that throws is among the calls: it is `notifications/initialized` behind `MCPLocal`,
where its `dynamic_cast` fails.

Parameters that do not parse end a whole batch, for the executor sets the failbit of the stream that the batch comes
from (`JsonRPCCore.h:63`), though the comment at `JsonRPCCore.cpp:87-88` lets only bad JSON do so. The model has
it as the code does (`RefuseParams`), and the run `batch_given_up` shows the disagreement.

A function without parameters that is given some is answered Invalid params and runs all the same
(`JsonRPCCore.h:83`), so a call of it may have two answers, where `JsonRPC.h:146` says that a result must
not exist after an error. The model has this too (`StrayParams`); among the calls of the runs only those
of functions that do not answer get such parameters, and the theorems say what they need of the calls
(`AnsweredNotTwice`).

A call with an id of a function that never answers is not among the calls: it stays
unanswered, and nothing in the repository says otherwise.

### ClientMCP and ConnectionPool

`pool` is the length of the list of connections, a connection is its position, `spare` the
vector. `stack` holds the open `post_async` calls: each blocks its caller until its callback
has run, so a callback that sends a request opens one above its own, and one client is used by
one thread of control. `phase` is the place in the constructor. `Response` is what
`handleRespFromServer` tells apart: the status, the content type, and for every event of a
stream whether it has the text `"method"`, parses, and holds an error or a result.
`HandleResponse` reads one event and calls back, or hands it to the client's core (counted in
`core`). It tells the two apart as the code does: an event with the text `"method"` is taken for the response
(`ClientMCP.h:170`), though the comment at `ClientMCP.h:189-190` has it the other way round, so that a call of
the server ends the reading of the stream and is lost. `RequestThrows` is an exception of the
connection or of the user's callback, which leaves the open calls one by one.

`server` is what the client depends on of the server: its range of versions, the state of the
client's session and whether it is in the map. `SessionCreated`, `SessionConfirmed` and
`SessionEnds` are its steps, as far as a client can tell; the answers to the handshake follow
from it, and any other failure is in `InitializeFailed`. That an `MCPServer` takes no other
steps is not assumed but checked, in `ClientServer`. The request id and the other headers
change nothing here. A `post_async` that returns without calling back (external) is not considered.

### ClientServer

The variables of both, and `mine`, the session the server made for the client. Connection 1 of
the server is the first of the client's pool, the others carry what anybody else who knows the
session's id may send (`Others`); they begin no sessions of their own. What the client itself writes has its method before its
parameters (external: ThorsSerialize writes members in the order of `JsonRPC.h:178` and
`MCPRequestInitialize.h:194-195`), so in its bodies `found` is the method of the call. `Post` puts a message of the client on its connection,
`Deliver` is its arrival in `validateRequest`, and the answer is the status the connection's
request ended with: 200 stands for every request that was handled, which the context sends
as 202 if there is a result. `ServerStep` is `MCPServer` by itself. A destroyed session that is used
ends the behaviour (`Lost`), for what follows is undefined.

With `server` replaced by the real session, every behaviour is one of `ClientMCP`
(`ImplementsClient`); in particular the server confirms a session once and never takes the
confirmation back, whatever others send. `ReadyIsServed` relates the client's phase to what the
server answers much later, and `PostsReturn` needs both: fair worker threads and a
client that takes every answer.

### SSEReader

One action for each thing a character can do in `readFieldName`, `readLine` and `skipLine`;
the names of fields are single characters. `place` says which of them runs, `next` is the
event `operator>>` builds and `published` what its callers have got. The streambuf takes a
chunk from the connection only when a character is asked for (`Waits`), which is what
makes a look at the next character a wait. `EventStream` says independently what the events
of a text are: lines are known by the places they have in it, and a name, a value or the data of an
event is the text at some of these places.

Two things a reader should know: an event whose blank line ends in a lone `\r` is handed over
only when one more character or the end arrives; and empty data lines at the start of an
event leave no line feed, where the standard named at `SSEInfo.h:21` keeps one for each.
`Data` in `EventStream` is the standard's. The run `leading_empty_data` shows that the reader does not
agree with it (`EventsAsStandard`); `EventsAsRead` compares everything else, the events without the line feeds their data
begins with (`Shortened`).

## The runs

| Run | Instance | Shows |
|---|---|---|
| `server` | 2 sessions, 2 requests, 2 threads, one version, no arrays, every text found before a call's own method | callbacks match sessions, handshake before other calls unless the text hides them, time limits, no foreign log and the own log heard, the lifecycle |
| `client_server` | a client and 1 other connection, 1 session, 1 thread, two versions, all single calls with any text found, and an array that hides `logging/setLevel` behind `ping`, level emergency, fair | what the handshake leaves is what later requests need; requests, handshakes and the client's posts end; the client's view of the server is right; callbacks, levels and versions with arrays and older versions |
| `json_rpc` | inputs of up to 7 tokens, 10 kinds of calls, 3 transports | one JSON text per message, one event per answer of a batch, status tells the outcome, the loop ends, calls are answered once, with their ids and in order |
| `client` | clients of 3 versions, servers of every range of them, 3 requests, streams of up to 2 events | a constructed client has a confirmed session; one outcome per request; no connection shared or lost |
| `events` | streams of up to 5 chunks out of 9 | the events handed over are those of the text (but for line feeds their data begins with), at once; the stream ends |
| `active_expiry` | 1 session | violated: a busy session times out, `lastUsed` is never updated |
| `agreed_version` | 1 session, versions 2..3 | violated: the version `initialize` agrees to is not the one headers are compared with |
| `hidden_method` | 1 session, 2 requests, single calls | violated: a single call whose text shows `initialize` first makes its own session and sets its logging, without a handshake |
| `stale_threads` | 2 sessions, 2 threads, level emergency | violated: a thread that leaves after logging was turned off stays known |
| `destroyed_session` | 1 session, 2 requests | violated: DELETE or the janitor destroys a session in use |
| `batch_given_up` | 2 kinds of calls, inputs of up to 5 tokens | violated: a call with bad parameters ends its batch |
| `leading_empty_data` | 3 chunks, data lines and blank ones | violated: an empty data line at the start of an event leaves no line feed |

The last seven are disagreements between the code and its own comments or tests, or the standard it names; the
findings in `PROJECT.json` quote both.

**Bounds.** Two sessions, requests and threads are what foreign logs, a DELETE under a
request and a thread changing hands take; a third would repeat the roles of the first two.
The runs that show what happens in time have a unit of 15 seconds: `initHandShake` is 1 as configured by default,
`janitorCheckTime` 2, and `sessionTimeout` 2 or 3 in place of 120, which only has to be
no less than the handshake's and to span a sweep. In `server` they are 0, 1 and 1, the least with which a
handshake has a shorter limit than a session and a session outlives a sweep, and in `client_server` 0, 0 and 1: a
session may end between any two steps, and nothing else is asked of time there. In both every text may show any
method (`Found`), which is what makes them large.
Its client sends two requests, one after the other (nesting is the question of `client`), and
one other connection is enough to act between any two of its steps. Ages need no bound of their own: the
janitor bounds them. Arrays of two calls have a first call, which is checked, and one that
is not. Seven tokens hold a batch of three calls, two messages with a batch of two, and every way of
truncating these; the digits 0 to 7 number its answers. Three requests nest, follow one another and mix the two; the versions are the
client's fixed choice, one below and one above; a stream of two events has one after the first.
Five chunks make two events with an id kept between them, or one of several lines, and every
way of mixing line ends and breaking off.

**Deadlock** is checked in every run; `Down` and `Stopped` are the states where the program
has ended.

**Fairness.** `client_server` assumes that the clock and the timer go on, and strong fairness of
what a request does: with fewer threads than requests a request is ready for a thread only now
and then, and since each wait is for one message of the peer, a request that is resumed again
and again gets on; `CheckProtocol`, which waits for nothing, comes with it. Of the client it
assumes that its thread runs, that the user's callbacks return or throw, and that what is posted arrives
(`SystemFairness`); others send what they like, or nothing. A peer that stops in the middle of a message is not
covered: the HTTP library decides what becomes of it. `json_rpc` assumes that the peer writes on or closes, and that the program goes on, and so does `events`.

## The proofs

All for every value of the constants that satisfies the ASSUMEs: any sets, finite or infinite, of
sessions, requests, threads, calls and chunks, any numerals, any times, any versions, inputs and streams of any
length. Where a theorem assumes more, it says so. The ASSUMEs themselves (what kinds of calls and bodies
there are, that times are numbers and a session outlives its handshake, that versions are numbers)
are evaluated on the runs.

**The server** (`MCPServerProofs`, `MCPLogProofs`)

- `Typing`, `TypeCorrect`: `TypeOK` and that requests in service have a session, running ones a thread
  (`TInv`). Inductive as it stands.
- `CallbacksMatch`: `CallbacksMatchSessions`, relative to `TInv`. The case that carries it is
  `setLogging`, which removes only if set, and `Destroy`, which leaves `session` as it is.
- `AgesBounded`: `SessionsAgeOut`. The strengthening says that a session's age is at most its
  limit plus the time since the last sweep, `JanitorCheckTime - sweepIn`.
- `HandshakeFirst`: `HandshakeComesFirst` when `MaxProtocol >= FirstWithoutBatch`, the default
  configuration. The inductive invariant (`HInv`) says that a session that is still `Requested` has the newest
  version, and of every request in service that its session was begun, that it is an array only until it joins, and,
  if it is none and hides nothing, that what remains of its body are calls that may come before the handshake
  (`AllEarly`). The session a request was accepted for may have been confirmed or have had its level set since; what
  carries the proof is that nothing makes a confirmed session `Requested` again. Without the assumption it is
  false: an array shows one method and may have others behind it. What the repository says,
  `LoggingNeedsHandshake`, is false in either case (run `hidden_method`).
- `LogsStayApart`: `NoForeignLog` when no client asks for the level emergency. The invariant is that a
  thread known to a session runs a request of that session or none; it needs that
  `hasBeenSet` is never cleared. Without the assumption it is false (run `stale_threads`).
- `OwnLogHeard`: `OwnLogIsHeard`, an action property, for all levels. It needs that no two requests
  are on one thread (`Apart`), so that nobody else's `requestRemove` takes the thread away, and that
  a request in service has a session that was begun (`Begun`), which is not made anew under it.
- `LifecycleImplemented`: `ImplementsLifecycle`, for any versions, arrays and texts; initial states map to
  initial states and every step to a step or a stutter of `SessionLifecycle`. A session may be listened to
  before it is confirmed, as the run `hidden_method` shows; the abstract specification does not say
  otherwise.

**JSON-RPC** (`JsonRPCCoreProofs`, `JsonRPCEventProofs`)

- `TypeCorrect`, and `Shape`, which the others need: only a message in an array has a stream, and before
  the first item of a message its context is a new one.
- `StatusIsRight`: `StatusTellsOutcome`, for every set of calls. The invariant (`Statuses`) says what
  the status is going to be before it is sent: a single request's is sent with its first item.
- `EveryAnswerIsAnEvent`: `EventsNumbered`, for every set of calls. The invariant (`BatchText`) is that
  while a batch is read its text has 3n - 1 pieces for n answers, in the places `EventsNumbered` says,
  and that `count` is n; the blank line that is missing is what the destructor adds, or the next item.
- `AnswersRead`: `EventsCarryAnswers`, what a client makes of that text. `BatchText` says at the end of a response
  which pieces it consists of; what is left is a fact about such texts. One event more is read of a text with
  one answer more behind it (`EventWritten`, an id line, a data line and a blank line, with the lemmas of
  `EventStreamProofs`), and so, by the first place where the events would be others, of all of it
  (`EventsWritten`). How the characters of the pieces are put together needs what `FlattenSeq` computes:
  that the function it is defined by exists and adds one piece at a time (`FlattenIs`) is shown in the same way,
  by the first place where it would not. Numbers are written with any characters that are neither line ends nor
  NUL (`NumeralsAssumption`). Together with `EventsRead` below, an `SSEInfo` that gets this text in whatever
  pieces hands over the answers that `JsonRPCCore` gave (no item begins with a line feed).
- `BatchesGoOn`: `OnlyBadJsonEndsBatch` for calls whose parameters are those their methods take (`ParamsFit`). It needs of
  `Shape` that an empty array has no stream yet. Without the assumption it is false (run `batch_given_up`).
- `TextParses`: `TextIsJson`. The invariant (`Texts`) is that items and separators alternate, two pieces
  for every item counted.
- `AnsweredAtMostOnce`: `OneAnswer`, that no two answers are to one call. Ids are
  places of the input, so the invariants are that no answer is ahead of the last call taken (`Behind`),
  and that call behind what has arrived (`Reading`).
- `ServiceImplemented`: `ImplementsService`. `Reading` also says that a message goes on
  only while the stream is sound, which is why nothing is taken after a complaint.

`TextParses`, `AnsweredAtMostOnce` and `ServiceImplemented` assume of every call that it
is not answered twice (`AnsweredNotTwice`): a function without parameters that is given some answers an error, and then must neither throw nor have a result. `ServiceImplemented` assumes besides that no function that never answers is
called with an id (`NotLost`), the call that the model leaves out above. Both are
satisfied by the calls of the run `json_rpc`.

**The client** (`ClientMCPProofs`)

- `TypeCorrect`, with it that what is lent is in the pool (`Held`) and how many posts are open in
  each phase of the constructor (`Phases`); together `CInv`.
- `ConnectionsKept`, `PoolBounded`: `ConnectionsApart` and `PoolIsSmall`. The sets of `ConnectionsApart`
  are not enough, for a connection that were spare twice could be lent while it is spare. The
  invariant (`Once`) speaks of the sequences: neither has a repetition, they share nothing, their
  lengths add up to `pool`, and `pool` is the greatest depth of nesting.
- `ReadyConfirmed`: `ReadyIsConfirmed`, relative to `CInv`.
- `OutcomeIsOne`: `OneOutcome`, an action property. The invariant (`Outcomes`) relates what a post still has to
  read to the callbacks it has made.

**Client and server** (`ClientServerProofs`), for any versions

- `ClientImplemented`: `ImplementsClient`, that the server takes only the steps that `ClientMCP` says
  a server takes, with arbitrary other users of the session. The invariant `SInv` is the server's
  (`TInv`, `CInv`, `HInv`, shown again for the composed steps with the lemmas of
  `MCPServerProofs`), the client's (`ClientMCPProofs`, instantiated with the real session for
  `server`), that the client has one post at a time (`Alone`), and `Exchange`: for each phase of the
  constructor, what the request on the client's connection is, has done and may still do.
  Between two posts anybody may send for the session; that its version stays is the invariant `VInv`, below, and that a
  confirmed session is never requested again a fact about the server's steps.
- `ReadyServed`: `ReadyIsServed`; a ready client's header is the session's version, and its session is
  confirmed, so only the lookup can refuse it.
- `LogsStayApartHere` (without the level emergency), `OwnLogHeardHere`, `LifecycleImplementedHere`: what `MCPLogProofs` and
  `MCPServerProofs` show of the server by itself. Every step is one of the server or a post over a connection
  that is idle (`ServerMoves`), which gives no thread away; that it is idle is the invariant `Quiet`: while
  the client waits for nothing, no request of its runs.
- `VersionFixed`: `ProtocolIsFixed`. `notifications/initialized` stores its request's header, so the invariant (`VInv`)
  is that in service the header of every request that still has such a call was compared with its session's version
  (`Compared`); the only post whose header is not, the one that makes the session, is the client's and has
  no such call. Of an `MCPServer` with any posts it is false: a post whose text shows `initialize` and whose call is
  `notifications/initialized` makes a session and stores a header that nobody looked at.
- `ServerKeeps`, `ReadyIsConfirmedHere`, `ClientKeeps`: the properties of the parts hold of the whole, for
  `HandshakeComesFirst` again where `MaxProtocol >= FirstWithoutBatch`. The last
  takes `ConnectionsKept` and `OutcomeIsOne` over as they are, for every behaviour of the whole is one of the
  client with the real session for `server`.

**The reader of events** (`EventStreamProofs`, `SSEReaderProofs`), where no character is the end of the input

- `TypeCorrect`: the position stays within the input, and events are made of delivered characters and line feeds.
- `Inductive`, and from it `EventsRead` (`EventsAsRead`) and `NothingHeld` (`NothingWithheld`): for any
  characters in any chunks, any mix of line ends, and a stream that ends anywhere. The invariant (`IInv`) speaks
  of the text before `pos` (`Read`):
  - `Handed`: what was published are the events of that text, each without the line feeds its data begins with. It is
    not inductive alone, for a blank line publishes `next`, so one has to know what `next` is.
  - `Building`: `next` has the last id of that text, and the type and data of the lines since the last blank one. Of
    the line that is being read they hold as much as its name lets them (`Telling`).
  - `Following`: `name` is what stands since the last line end, up to its colon, and `place` the field it names;
    within a value the colon, and one space, are behind.
  - `Settled`: a `\r` that was read has its `\n` with it, or the next character is known to be another. Without it the
    line could end a second time.
  - `AtEnd`: after the end of the input nothing more is read; what was begun is left, so `Building` is over.

`EventStreamProofs` has what each step of this needs: how the lines, the last id, and the type and data of a set
of lines change with one character that ends no line (`PlainLines`, `LineGoesOn`, `TellsOn`, `TellsGrown`), or with
a line end of one or two characters (`EndedLines`, `RecentEnded`, `EndedEvents`). In this way what would be an induction
over the text is carried by the steps of the reader.

With TLC only: the liveness properties (`RequestsFinish`, `HandshakesEnd`, `PostsReturn`, `RunEnds`,
`StreamEnds`), which are out of TLAPS's reach; every invariant, action property and refinement that a
passing run checks is a theorem, under the conditions named above. The properties of the violation runs hold of no
instance that has the behaviour; for four of them a theorem says what has to be excluded for
them to hold, or what holds instead (`HandshakeFirst`, `LogsStayApart`, `BatchesGoOn`, `EventsRead`).

## Not modelled

Not modelled: the HTTP server and client, sockets, ThorsSerialize and loguru (external);
the texts of answers and log messages; `MugPlugin` (a stub); the serialization of the JSON-RPC data
types (declarations; what requests, responses and ids are made of is in `JsonRPCCore` and
`ClientServer`); the registration of paths; races inside `std::map`, `std::set` and `std::vector`, which have no outcome a
model could bound.

What could be added: `JsonRPCCore` with a `ClientContextMCP` in the place where `ClientMCP` counts what it hands to
its core, and a second client in `ClientServer` (others may do all that one would, but nothing is promised to them).
