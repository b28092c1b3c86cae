# evins_nl: specifications of the network-layer driver

`evins_nl` is a ROS node between ROS topics and the networking layer of an
EvoLogics acoustic modem. Clients publish requests; the node turns each into a
text telegram (`NL,get,address`), sends it over TCP or a serial line, parses what
comes back, and publishes it. This directory holds TLA+ models of the node, TLC
configurations that check them, and proofs checked by TLAPS.

## 1. The system

| Part | Source | State | Operations |
|---|---|---|---|
| TCP connection | `src/src/tcp_client.h` | `state_`, `socket_`, pending operations, `reconnect_timer_` | connect, do_close, send, five completion handlers |
| Serial connection | `src/src/serial_client.h` | `port_`, pending operations, `reconnect_timer_` | the same, without `state_` |
| Requests and answers | `src/src/parser.h` 181-558, 627-649, 758-1264 | one cached message per topic, `waitsync_`, `answer_timer_` | 12 callbacks, sendSync, 15 extractors, the timeout handler |
| Framing | `src/src/parser.h` 201-220, 651-756 | `more_` | to_term, to_term_nl, nl_rcv_extract |
| Driver | `src/src/evins_nl_driver.cpp` | none | starts the two threads |
| Configuration | `src/src/config.h` | node name | one read of a parameter |
| Messages | `src/msg/*.msg` | - | numbers of commands, subjects and status |
| Clients | `src/scripts/*-once.py` | none | publish a request, await the answer |
| Polling client | `src/scripts/dummy_poller.py` | `sm`: state, event, `waiting_answer`; one-shot timers | two listeners, two timer callbacks, four state handlers |

How they interact:

- Two threads run. The ROS thread (`ros::spin`) calls the callbacks, and through
  sendSync the connection's `send`. The I/O thread (`io_service::run`) calls the
  completion handlers, to_term, the extractors and the timeout handler. They share
  the cached messages, `state_`, `socket_`/`port_` and the timers, without a lock.
- A callback caches the request's `id` (and for some subjects its arguments) in the
  message of the topic; the extractor fills in the rest and publishes that message.
- The node subscribes to the topics it publishes on. `command.status` tells a
  request (UNDEFINED) from an answer.
- The connection calls `connected()`, `disconnected()` and `to_term()` of the parser.

What is hard: the order in which aborted operations complete after a close; `send`
against a close; requests, answers and reports that share one cached message;
arming the answer timer against the answer; a stream cut anywhere; what a lost
connection leaves behind; a serial port that is gone, or opened again, when an older
handler runs; answers and timers that belong to an earlier step of the polling client. `PROJECT.json` lists each hazard with its line.

What makes each part correct:

- connection: it is always driven by a pending operation, reconnects exactly once
  per loss, reads with one buffer once at a time, and tells the truth on `connection`;
- requests and answers: an answer carries its request, what a client takes for its
  answer belongs to its own request, the node never answers itself, a missing answer is
  noticed, a client is not left waiting;
- framing: extractors get what the modem sent, once, whole and in order;
- the two together: what was read is parsed once, before another connection begins;
- polling client: it waits with a timer whenever it rests, and reaches its goal.

## 2. Modules

### Link, TcpClient, TcpClientProofs

`Link` is what the rest of the node may rely on: usable or not, an attempt after
every loss, and the last message on `connection`. `TcpClient` is the code.

- `state_`, `socket_`, `timer` are the members of the class. `inFlight` and `writes`
  are the operations the reactor holds. `ready` is the queue of completions whose
  handler has not run: closing the socket *appends* aborted completions, it does not
  run handlers, and cancelling a timer does not take back a wait that has ended. That
  queue is where the interesting orders come from.
- One action per handler (`HandleConnect`, `HandleRead`, `HandleWrite`,
  `ReconnectTimeout`), one per kind of completion (`ConnectDone`, ... external:
  boost::asio), and two for `send` (`SendTest`, `SendWrite`), as the I/O thread may
  run between the test and the write. `DoClose` and `Connect` are the shared bodies.
- Two facts of boost::asio matter: async_connect completes with an abort when the
  socket was closed before its handler runs (`Established`), and starting an
  operation on a closed socket completes it with an error (`StartRead`, `SendWrite`).
- The buffer of a write, which does not outlive the callback, is not modelled.

### Parser, ParserProofs (ParserMC: the requests of its runs)

Telegrams and answers are records; the bytes are the subject of `Framing`.

- `cached` is the twelve cached messages: id, subject, status and one abstract
  `content` for all other fields. `inbox` is the callback queue, with requests and
  the node's own messages. `Callback` is what the twelve callbacks have in common;
  each names what it caches and when it sends. Caching comes first, also for a
  request that is refused.
- sendSync is two steps, `SendSync` (send) and `ArmTimer`, as the extractor of the
  answer may run in between. `expired` is a wait that has ended and whose handler
  is queued. `publishRaw` has no effect on the state and is left out.
- Every extractor is an action that cancels the timer, updates the cached message
  as its branches do, and publishes it. `Forms` are the forms of an answer that an
  extractor tells apart. `RcvIncomplete` is nl_rcv_extract on a payload that is not
  complete, `RcvDropped` on a line that it drops: both have made a RECV of the cached
  message all the same. `ColonBehind` is the test of nl_extract_neighbours for a colon
  anywhere in the buffer; whether later messages are in the buffer already is left open.
- `waiting`, `due`, `counts` and the fields `answers`, `form` are history, for the
  properties and the bounds. A topic is in `due` from the moment its callback accepts a
  request, before anything is sent or armed, until that request is answered, given up,
  or reported missing.
- `Patience` and `Stay` say what clients do: one request at a time in the whole system,
  one on each topic, or requests at will; and whether a client stays as long as its
  request or the answer is under way. No code enforces any of these. The scripts run one
  at a time if whoever starts them does so, and none stays: each leaves two or three
  seconds after its request, answered or not.

### Framing, FramingProofs (FramingMC: the messages of its runs)

`more_` and what is on the wire are sequences of symbols. A message has two symbols
of header (the `N`, then all up to the parameters), so a cut may fall inside the
header. Payload bytes, CR and LF are symbols each; the regular expressions are
operators on the buffer. The `Kinds` are those that to_term_nl distinguishes.
to_term is `ToTerm` (append a chunk) and then one `Parse` per turn of its loop.
`Sends(stream)` is one message of the modem; `stream` is what has been sent and not been
taken, on which it depends whether the message is `tame`.
A `malformed` received message and the single-line `refusal` of a multiline answer
are kinds of their own. A loss keeps a prefix of what is under way: a chunk that had
been read when the connection was closed is parsed nevertheless. Abstraction: a
header counts as two bytes in the buffer a payload is looked for in when a stale
beginning is in front of it.

### Driver, DriverProofs (DriverMC: the messages of its run)

The composition of `TcpClient` and `Framing`: two instances over shared variables,
joined by `mem_`. `ReadDone` of the reactor moves a chunk from the wire into `mem_`;
`HandleRead` appends it to `more_`; `Parse` loops while the I/O thread does nothing
else; then the handler of TcpClient starts the next read. Whatever closes an open
socket drops what is on the wire, and a new connection starts an empty one. All
actions of TcpClient and Framing are used as they are.

`ImplementsFraming` is a refinement with `wire <- mem_ \o wire`: it shows that the
assumptions Framing makes of its surroundings (chunks come in order, losses drop a
suffix, `to_term` is not interrupted) are what the connection provides. `ChunksInTurn`
answers the FIXME of do_close, "what to do if data arrives when socket is closed?"
(`src/src/tcp_client.h:82`): such data is parsed after `disconnected()` but always
before the next attempt begins. Clearing `more_` in `disconnected()` would therefore
not be enough to keep a stale beginning out of the next connection's stream; clearing
it in `connected()` would.

### SerialClient, SerialClientProofs

The same reactor and threads as `TcpClient`, with `port_` in the place of socket and
state, and the differences of this class:

- do_close tests for a port and not for a state, so it runs once for each operation
  it aborts, and arms the timer every time. `DoClose` cancels a wait under way but
  not an expiry that is queued. `slips` counts expiries that are queued behind older
  handlers, which takes an I/O thread that is a second late; `Prompt` says there were none.
- connect() is two steps of the I/O thread (`ReconnectTimeout`, `Connect`), as the ROS
  thread may use the port that exists but is not open.
- send() reads the pointer (`SendDeref`) and calls the port (`SendWrite`). A port that
  was freed in between (`dangling`) is undefined behaviour: the process ends, or the
  call fails, or it reaches the new port.
- The process ends (`crashed`) when an open or an option fails (do_close cancels a port
  that is not open, which throws), when send() finds no port, and when data that was
  read before a close is handled after it. That last case needs an error on a write
  while data is waiting, or a late timer.

Until it ends, the client is a `Link` with `port_` for the state. `SingleReader` and
`NoTeardown` hold as long as `Prompt` does; a late timer really breaks both.

### DummyPoller, DummyPollerProofs

`state`, `event` and `waiting_answer` are the members of `sm`. `at` counts, for each
topic's callback thread and for the threads of timers, the activations that are before
`handle_event` and before `wait_answer`: the points at which a thread writes to the log
or a socket, and another may run. `timers` are the one-shot timers that run; none is
ever stopped, because wait_answer stores them under another name than answer_recv
reads. `HandleIdle`, `HandleProtocol` and `HandleSeqini` are the handlers; `Handle` is
the code they repeat. The node is external: it answers with OK or an error, loses
requests, and publishes answers to other clients on the same topics. A refusal clears
`waiting_answer` and raises an exception (`EVENT.EJECTED` does not exist).

## 3. Runs

| Run | Shows |
|---|---|
| `tcp_client` (TcpClientMC.cfg) | every order of completions with up to 3 unhandled writes: AlwaysDriven, SingleReconnect, SingleReader, ImplementsLink |
| `parser_patient` | any two requests on two topics at once or in turn, a delivery report, a loss: AnswerMatchesRequest, AnswerIsToOwnRequest, OwnAnswersIgnored |
| `parser_timer` | one request at a time, received data and a loss racing the timer: MissingAnswerNoticed, OwnAnswersIgnored, TelegramsAreAnswered |
| `framing_stream` | three messages, every way to cut them, line feeds in payloads and in parameters, bad headers, refusals, a loss: StreamIntact, InOrder, LoopEnds |
| `driver` | two messages over two connections that may be lost at any moment: OneChunk, ChunksInTurn, ImplementsFraming |
| `serial_client` | up to 3 unhandled writes and 2 late timers: AlwaysDriven, SingleReader, NoTeardown, ImplementsLink, Reconnects |
| `dummy_poller` | one loss, early timer, refusal or foreign answer, every interleaving: AnswerIsAwaited, ProtocolFirst, EventuallyDone |

Five runs expect a violation; each is a disagreement between the code and what it
says of itself, described under `findings` in `PROJECT.json`:

| Run | Disagreement |
|---|---|
| `parser_sequence` | sendSync's "sequence error" can never be reported: `waitsync_` is never set |
| `parser_spurious` | the timer is armed after the answer and runs out on nothing |
| `framing_newline` | "need more data" and "drop the line" are the wrong way round |
| `serial_open` | a reconnect that cannot open the port ends the process instead of trying again |
| `poller_done` | "DONE" although the modem has not accepted to start the polling |

Others need no run, as a definition shows them, and restrict what the passing runs
can say:

- `GiveUp`: a script leaves after two or three seconds, so the answer to a request that
  takes longer meets the next request on its topic, which takes it for its own answer,
  and whose timer it cancels (`src/scripts/address-once.py:30`). Both passing runs have
  clients that stay; that is an assumption about clients which the scripts do not meet.
  Without it AnswerIsToOwnRequest is violated in `parser_patient` and
  MissingAnswerNoticed in `parser_timer`;
- `Extract`: an extractor cancels the one timer there is, whichever request it answers
  (`src/src/parser.h:822`): with requests on two topics at once, the answer to one
  hides that the other is missing. `parser_timer` has one request at a time in the whole
  system; with one on each topic, MissingAnswerNoticed is violated;
- `ExtractNeighbours`: a colon in a message behind a short list of neighbours makes the
  list an ERROR, published empty (`src/src/parser.h:952`);
- `ExtractProtocols`: the list of protocols grows with every answer
  (`src/src/parser.h:863`);
- `ExtractStatistics`: a list with a bad item is published as an ERROR together with the
  items in front of it (`src/src/parser.h:1165`);
- `ExtractSend`: the answer to SEND has subject 6, NEIGHBOUR (`src/src/parser.h:1182`);
- `Received`: data that is received turns the answer to an unanswered SEND into a RECV
  (`src/src/parser.h:721`), and passes for that answer. `parser_patient` has no received
  data; with it, AnswerMatchesRequest and AnswerIsToOwnRequest are violated;
- `ExtractReport`: a delivery report cancels the answer timer of whatever request is
  unanswered (`src/src/parser.h:1198`). `parser_timer` has no delivery reports; with
  them, MissingAnswerNoticed is violated;
- `Disconnected` of Framing: the beginning of a message survives its connection
  (`src/src/parser.h:195`), so StreamIntact ends with the first loss;
- `Refuse` of DummyPoller: a refusal leaves the client waiting for ever, so
  AnswerIsAwaited and EventuallyDone end with it.

Each passing property holds under what its run assumes. AnswerMatchesRequest and
AnswerIsToOwnRequest need one request at a time on a topic and clients that stay,
MissingAnswerNoticed one request at a time altogether. StreamIntact needs payloads without line feeds, no
loss, no refusal of a multiline answer, and one multiline answer at a time that has no
blank line in it (`tame`): the expression for multiline parameters is greedy and merges
two of them when they are in the buffer together, and it ends at the first blank line
that has arrived. An answer without any parameters has a blank line of its own in front
of the one that ends it; when a chunk ends between the two, the parser takes the answer
at the first and leaves the second in the buffer, in front of all later messages. The
messages of `framing_stream` provoke each of these but a blank line inside a multiline
answer, which none of them has, and InOrder and LoopEnds hold all the same. For answers
with blank lines InOrder is proved (section 4) and not checked: the run with such a
message takes too long. A message that is merged, cut or swallowed keeps the order, so
InOrder alone says nothing of it.

Bounds. Three writes are enough for one that fails before, one after a close, and
one that was started by the thread between test and write; the number of losses and
reconnects is not bounded. Two requests are enough for one to spoil the cached
message of the other, or to meet its answer; one report and one loss for each to come
at any moment. Three
messages put one of every kind between any two others, and are enough for a message
that is broken, one that heals the stream, and one that follows; in `driver`, where
the connection and not the content cuts the stream, two are enough for one to be in
`mem_` while another is on its way. Two connections are
enough for one to leave a chunk to the other; `driver` bounds the number of successful
connects, not of failed ones. Two late timers let a reconnect tear down a connection
that itself was made out of turn. One fault of the polling client may come at any
moment of the run; the bound also keeps the number of its timers finite. The queue
limit of 100 of each topic (`src/src/parser.h:105`, ROS drops the oldest message) is far
above the bounds and not modelled.
`CHECK_DEADLOCK FALSE` in the runs of Parser, Framing and Driver: when the requests or
messages of the bound are used up the node is idle; in those of SerialClient the
process may end, and in those of DummyPoller the client comes to rest.

Fairness. `TcpClient`: the I/O thread runs queued handlers (io_service::run does not
block in one) and an armed timer expires. Nothing is assumed of the peer: attempts
may take forever. `Parser`: neither thread stops, and the modem answers what reaches
it. `Framing`: to_term goes on with its loop, which in `Driver` follows from the I/O
thread not stopping. `SerialClient`: as TcpClient. `DummyPoller`: something happens as
long as a thread, a timer or an answer is due, in any order.

Every property has a mutant: a definition named `... Again`, `... Silently` and so on
("Mutation of ...") changes the definition after it as a plausible bug would, and the
property is then violated in its own run (`mutants` in `PROJECT.json`).

## 4. Proofs

`TcpClientProofs` proves for every `MaxWrites`, from `MaxWritesAssumption` alone,
TypeOK, AlwaysDriven, SingleReconnect, SingleReader, and that every step of TcpClient
is a step of Link or a stutter.

The three safety properties are not inductive: whether a handler arms a second timer
depends on which completions are still queued. `IInv` adds

- `Holds`: what socket and reactor hold in each connection state;
- `Stale`: which completions of an earlier connection can still be queued;
- `Order`: no read is queued behind the end of an attempt, and neither an attempt nor
  a successful read behind the reconnect, so an attempt begins with a clean queue;
- `NotCancelled`: the reconnect timer is never cancelled while armed, hence the
  early return of reconnect_timeout is never taken by do_close's cancel.

There is a lemma per action, and per branch of the handlers; `AbortedShape` says what
closing a socket puts into the queue.

`DummyPollerProofs` proves for every `MaxFaults`, with nothing assumed, TypeOK,
AnswerIsAwaited and ProtocolFirst: the number of losses, refusals and early timers,
and with it that of the threads before `handle_event` and of the timers that run, is
arbitrary there. AnswerIsAwaited is inductive together with TypeOK: each step that
leaves the client without a timer is one of a thread that goes on, and a refusal is
the only one that clears the flag without a further event. ProtocolFirst is not:
`Unaccepted` adds that before the modem has accepted the protocol there is no event
ACCEPTED, so that no thread can move the state on.

`SerialClientProofs` proves for every `MaxWrites` and `MaxSlips`, with nothing assumed,
TypeOK, AlwaysDriven, SingleReader, NoTeardown and ImplementsLink. `IInv` adds

- `Told`: nobody is told of a connection that is not there, without which a second
  do_close would not be a stutter of Link;
- `OutOfTheWay`, while no wait has ended early: only an open port holds a read, and a
  wait that has ended is at the head of the queue with no read behind it, because it
  found the queue empty and a closed port starts nothing;
- `OneRead`: at most one read is held or queued.

`ClosedQueue` says what do_close leaves in the queue.

`ParserProofs` proves for every set of requests and reports and every bound, with
nothing else assumed of clients or modem, TypeOK and OwnAnswersIgnored.
`Typed` adds the types of what is under way to TypeOK, and `AnswersFit` that an answer
under way has the subject of its request and a form that the modem has for it.
OwnAnswersIgnored then follows from each extractor: what it publishes has a status
(`Publishing` says what any extractor does; each of the fifteen is one step of its proof).

AnswerMatchesRequest and AnswerIsToOwnRequest are proved under `Calm`: clients ask on
one topic only once at a time (`Patience` # "none") and stay while their request or its
answer is under way (`Stay`), the reports are those parser.h knows, and no data is
received while data is sent. These are not conveniences: section 3 lists what the code
does without each of them. They leave any number of requests on different topics at
once, losses, timeouts, refusals, and clients that give up what was lost or refused.
Neither property is inductive; the invariant is `OneRequestPerTopic`:

- `Once`: of a topic there is at most one request in the callback queue, on its way to
  the modem, or answered and on its way back, ...
- `Exclusive`: ... and only in one of these places;
- `Awaited`: it is the one that the client waits for;
- `Remembered`: from the moment the callback has cached it until its answer is
  published, the cached message of its topic has its id, and its subject and arguments
  where the extractor does not set them.

From it follows what a publication is (`PublishedAnswer`): the answer the topic's client
waits for, or received data that no client waits for.

MissingAnswerNoticed is proved under `Calm` only for one request at a time in the whole
system (`Patience` = "one") and without delivery reports; it does not hold for requests
on several topics. `OneRequest` adds that at most one client waits, that a topic in `due`
is the one it waits on, and that `waitsync_` never refuses anything. The only extractor
that can then cancel the timer is that of the awaited answer, which empties `due`.

`FramingProofs` proves for every set of messages (of any length, with line feeds or
bad headers in them) and any number of messages and losses, TypeOK and InOrder with
nothing assumed beyond the shape of a message, and StreamIntact. It rests on lemmas on
buffers (`Rest`, `Front`, `Rejoined`, `FrontOfTwo`: taking from the front of a buffer
takes from the front of the stream) and on the operators that choose a position
(`First`, `Last`, from `Least` and `Greatest`). All of them speak of `Untaken`, the
stream from the first symbol that is still in `more_` to the last that was sent: reading
a chunk does not change it.

- InOrder: `Ordered` adds that the headers of the stream ascend and that what was
  extracted comes before all of them. One call of to_term_nl extracts at most one
  message, with the header at the front of the buffer (`Taking`); hence the order holds
  also for a stream that is broken.
- StreamIntact: `Intact` adds, while the stream is tame, that it is a sequence of whole
  messages (`Framed`: wherever there is an "N", what the modem sent of some message
  follows, and then the next one or the end), that what came before has been extracted,
  and that what is kept between two calls of to_term is less than a message. The two
  lemmas that carry it are `Incomplete` (of less than a message to_term_nl takes nothing)
  and `Complete` (of more it takes exactly the first message, or drops exactly that one
  if its header is bad); for a multiline answer the latter needs that the last blank
  line of the buffer is its own, whatever else has arrived (`LaterLineFeed`).
- `LoopShrinksBuffer` is the measure behind LoopEnds.

`DriverProofs` puts the two together, for every bound. It takes TcpClient's and
Framing's theorems as they are (`TP`, `FP`): the steps of the driver are steps of
TcpClient (`ConnectionRefined`), so its `IInv` holds, and with it `Chunk` is inductive:

- a chunk in `mem_` has its handler in the queue and no read is held (OneChunk), as the
  only other handlers that can run before it are those of writes (`ChunkStays`);
- while to_term runs, a read is queued, so that the reactor fills nothing;
- a chunk whose connection was closed is parsed while the client is DISCONNECTED
  (ChunksInTurn), as neither a reconnect nor the end of an attempt is queued in front
  of it (`Order`).

From it follows that each step is one of Framing over `mem_ \o wire` or a stutter
(`FramingRefined`), and so StreamIntact holds of the whole process
(`DriverStreamIntact`).

Every invariant and action property of a passing run is now a theorem. Only
model-checked is what needs fairness, as TLAPS does not prove ENABLED or liveness here:
that a lost connection is followed by another attempt (the fairness of Link), that the
loop of to_term ends (LoopEnds, and the fairness in ImplementsFraming),
TelegramsAreAnswered, Reconnects and EventuallyDone. The properties of Parser above are
model-checked and proved under the same conditions. Facts by induction over data,
such as what a recursive definition computes for every input, are out of reach as well.

## 5. Not modelled

- Data races inside one message and on a timer object; callbacks and extractors are
  atomic except where listed above.
- Exceptions of lexical_cast, which end the process, and reads past an empty string
  or list: no answer or request of these runs provokes them.
- Values: addresses, routes, statistics are one abstract content per message.
- The requests in the composed process: Driver keeps send() but not what is sent, and
  Parser has a link of its own with the same losses.
- A write of the serial port that takes a part of the telegram only.
- `dummy_qos.py` publishes one message every ten seconds and keeps no state.
- Configuration, build and launch files: no behaviour.

## 6. Plan

1. Done: Link, TcpClient and its proofs; Parser; Framing; Driver; SerialClient
   and DummyPoller, with their proofs.
2. Done: proofs of the safety of Parser, Framing and Driver.
3. Open. Proofs: the measures behind the liveness properties of TcpClient, SerialClient and
   DummyPoller, as LoopShrinksBuffer is for LoopEnds; what of AnswerMatchesRequest is
   left on topics other than that of the data when data is received.
4. Open. Extractors of numbers and lists as functions over small inputs, with the
   lexical_cast that ends the process.
5. Done: a review of the bounds, and of each property and hazard against the code. A
   hazard that the code succumbs to, and that no property therefore covers, says so.
