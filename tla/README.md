# helplightning-libpurple: models and proofs

TLA+ models of the Help Lightning protocol plugin for libpurple, the TLC runs
that check them on small instances, and TLAPS proofs about its deferred engine,
its connection, its contacts, sessions and messages, its framed stream and its
handling of complete messages. All paths below are those of the repository (`src/…` is its source directory).

## The system

The plugin runs in libpurple's single-threaded main loop. Nothing in it runs
concurrently; what makes it hard is that everything is asynchronous: a request
leaves, the main loop goes on, and the rest of the operation is a queue of
callbacks that a reply, a fault or a timeout runs later, when contacts,
sessions, tokens or the socket may have changed.

| Component | State | Operations | Talks to |
|---|---|---|---|
| Deferred engine (`libballyhoo_deferred.c`, `libgaldr_responses.c`) | per deferred: queue of callback pairs, `fired`, `is_firing`, `expiration`; the table `pending_callbacks` by uuid | build, add pairs, callback, errback, chain (a handler returns another deferred), sweep | called by the input callback and by `libballyhoo_update`; calls every handler |
| Framed stream (`libballyhoo.c`, `libcmf.c`) | `inbuf`, `inbuf_used`, `decoded_chunks`, `gsc`, the message id counter | input callback (read, decode, reassemble, dispatch), encode into chunks, write | libpurple's SSL functions; hands messages to the engine or to the method handlers |
| Connection and log-in (`libgaldr.c`, `libgaldr_auth.c`, `libgaldr_workspace.c`, `libgaldr_utils.c`) | socket, state of the `PurpleConnection`, tokens | connect and HELO, authenticate → workspaces → switch, ping, keep-alive, errors, shutdown | chains of deferreds; libpurple's error, timer and close calls |
| Contacts, sessions, messages (`libgaldr_contact.c`, `libgaldr_session.c`, `libgaldr_messaging.c`, `libgaldr_handler.c`, `libgaldr_internal.c`) | `contacts`, `sessions` with `last_message_id` and token, `session_id` of each contact, workspace tokens | send a message (making its session first), receive one (fetching its session first), `session_created`, mark as read, contact lists, refresh an expired token and repeat the call | chains of deferreds; signals to the plugin |
| Plugin (`libhelplightning.c`) | conversations with their `session-id` | login, close, keep-alive, send, incoming message, conversation updated | libpurple's UI; galdr |
| RCL, message headers, XML-RPC, deflate (`librcl.c`, `libballyhoo_message.c`, `libballyhoo_xml.c`, `libballyhoo_deflate.c`) | the uuid counter; the memory blocks of one message | take one message apart, or fail to; number calls | the input callback, which frees what they leave; libraries |

What is hard, and the properties it calls for (every hazard with its line and
its properties is in `PROJECT.json`):

* *Chaining.* A handler's deferred suspends every deferred on the C stack, not
  only its own. Each must be resumed once, in the right order, and none freed
  under a pair that resumes it (`OneWaker`, `NoDanglingDeferred`,
  `NeverRefired`, `FaultsReachNoCallback`).
* *Answers, timeouts, sweeps.* A late answer after a timeout; a sweep whose
  errbacks change the table; pings against the keep-alive period
  (`SweptStillPending`, `OnePing`, `RequestsEnd`, `DeadServerNoticed`).
* *Failing writes* anywhere in a handler close the socket under the code that
  is running (`LossIsReported`, `DeliversInOrder`).
* *State read before and used after a request*: sessions removed by another
  request's errback, contacts replaced by a new list, tokens that expire during
  the refresh (`DispatchFindsSession`, `AcceptedOnce`, `ImsAccepted`,
  `HandlersReadTheirResponse`, `ShownOnceBeforeRead`).
* *Frames* cut anywhere by the reads and interleaved; boundaries of the chunks
  and of `inbuf` (`FrameInSync`, `SpaceForFrames`, `WritesWhole`).
* *Complete messages*: four decoders in a row, each of which may fail and leave
  other blocks behind; uuids that both sides count from 1; replies that come
  late; handlers that make requests before their call is answered
  (`MemorySafe`, `CleansUpOnce`, `KeepsPromise`, `CallsAnswered`,
  `RepliesEndRequests`).
* *The HELO*, which keeps the main loop waiting (`HeloEnds`, as long as the server
  does not fall silent in it).
* *Shutdown* while the socket or an event still holds the account
  (`ShutdownWhenDone`, a finding).

## The modules

| Module | What it is |
|---|---|
| `Deferred` | the engine; what handlers do is left open |
| `DeferredProofs` | theorems about it, for all values of the constants |
| `Connection` | HELO, log-in, keep-alive, errors and shutdown, on the engine |
| `ConnectionProofs`, `ConnectionSafety` | that it implements the engine, for all values of the constants; theorems about its log-in, keep-alive and sweep |
| `Messaging` | contacts, sessions and messages of a connected account, on the engine |
| `MessagingProofs`, `MessagingSafety` | that `Messaging` implements the engine; theorems about its types, responses, sessions and messages |
| `Stream` | the framed stream in both directions |
| `StreamProofs`, `StreamOrder` | theorems about it; that it implements `Channel` |
| `Channel` | what the stream's input side promises: an abstract specification that `Stream` implements |
| `Dispatch` | what happens to a complete message: decoders, deferreds, calls of the server |
| `Rpc` | what the dispatch of messages promises to both sides: an abstract specification that `Dispatch` implements |
| `DispatchProofs` | theorems about `Dispatch`, among them that it implements `Rpc` |
| `MC…` | finite values for the constants; the `.cfg` files give the rest |

### Deferred

`callbacks[d]` is the queue of a deferred, `pending` the table, `stack` the C
stack of `libballyhoo_deferred_callback`/`_errback` activations with the mode
(callback or errback) and current result of each. One action is one turn of
one of the two loops:

| Action | Code |
|---|---|
| `Build`, `Fire` | `libballyhoo_deferred_build` with `libballyhoo_add_deferred`; a reply, fault or timeout of a request in the table |
| `SkipPair` | a pair without a handler for this mode |
| `Resume` | `libballyhoo_deferred_handle_cb`/`_err`: a nested activation |
| `Respond`, `Fault` | a handler's response or fault: the mode of the loop; a fault of a callback puts the pair back for its own errback |
| `Chain` | a handler's deferred: one pair per activation is appended to it, innermost first, and the event ends |
| `FinishInner`, `FinishBase` | the end of a queue; the activation below takes the response, or the event's code frees the deferred |
| `DropPending` | shutdown destroys the table |

`Chain` is one step, although in the code every activation returns the
response and appends its pair in turn: nothing else can run in between. A
deferred that a handler returns has no pairs of another owner, because all code
builds a fresh one. `Enter` reaches `crashed` when a fired deferred is fired
again, which is the NULL that the callers dereference.

`Connection` and `Messaging` extend it: each request is a deferred with the
queue the code gives it, each handler an action that does what its C function
does and ends in `Respond`, `Fault` or `Chain`. `DSpec` is a property of both,
proved of both and checked of `Connection`: their handlers, sweep and shutdown
are steps the engine allows, so that what is proved of the engine holds of them.

The parts of the system meet at events. `Stream` ends where a message is
complete, `Dispatch` begins there and ends where a deferred is fired or a call
is given to its handler, which is where `Fire` of `Deferred`, and so `Reply` of
`Connection` and of `Messaging`, begins.

### Connection

`socket` is `ba->gsc` and which callback it holds, `gc_state` the state of the
libpurple connection, `error` whether `purple_connection_error_reason` was
called, `token` the workspace token, `ttl` and `alarm` the expirations and the
keep-alive timer in discrete time, `sweep` the keys that a running
`libballyhoo_update` has collected, `server` whether the server is alive,
`freed` and `uaf` whether the account is freed and used afterwards, `helo` the
part of the HELO that is being read. `read_until_null` repeats its read while
there is no data, so from `StartHelo` to the end of the HELO nothing else of the
main loop moves: only the server does, which sends the next part
(`HeloProceeds`), another one or nothing more (`HeloRefused`), or the headers
(`HeloEnded`, after which `libgaldr_connected_cb` authenticates, whether the
last write has succeeded or not). libpurple
is modelled from how the code uses it: the first error starts a timer that
closes the connection, the keep-alive runs every 30 seconds once the account
is connected, callbacks of an open socket stay registered. A write may fail in
every handler that sends. Contact refreshes stand for all requests of a
connected account. Between events (`Quiet`) all actors may move.

### Messaging

`list` and `session_id` stand for the contact objects: a new list makes new
objects and requests in flight keep the old ones. `sessions` is `ga->sessions`
with users and last message; `request[d]` is what the server was sent; `stale`
is the set of session and workspace tokens (and the refresh token) that the
server has let expire, so that every request with such a token is answered with
fault 1003 until a handler replaces it. `accepted`, `delivered`, `shown`,
`conversation` and `marked` are the server's and the user's view. A fault whose
`fault_code` is read although it is a string may or may not read as 1003
(`ReadsAs1003`). The socket stays open in this module and requests that
`Connection` covers (log-in, ping) do not occur.

### Stream and Channel

A frame is named by its offset in the server's stream, so that `start`, the
offset of the first byte of `inbuf`, tells whether decoding is in step.
`completed` is what the server has finished sending, `delivered` what the
callback has put together; `Channel` is the ordered delivery of the one into
the other. `pc` is where the input callback stands: a handler of a message may
write (`Send` in state `handle`), the write may fail after any number of
chunks, and the loop then goes on with `gsc` NULL. `Encode` is the loop of
`libcmf_encode_priority`: its chunks hold all bytes but the last of the data,
which is what the code does (callers count a final byte that is not sent).

### Dispatch and Rpc

`wire` is what the server has sent, `read` how much of it the socket has given
to the callback, `taken` how much the callback has taken apart. `stage` is the
part of the loop body of `libballyhoo_handle_input_cb` that is next, `content`
the form of the message (what the decoders tell apart, chosen when the message
is first looked at), `body`, `doc` and `brpc` the local pointers, `heap` the
blocks allocated that the loop body is to free.

| Action | Code |
|---|---|
| `Take` | a message is complete and its chunks are combined |
| `RclFails`, `DecodeRcl` | `librcl_decode`: 0, 1, or the -1 that `librcl.h` documents for malformed data and the callback takes for success |
| `HeadersFail`, `DecodeHeaders` | `libballyhoo_message_decode`; NULL and a missing or too large `message-length` are used all the same |
| `NoEncoding`, `Inflate`, `PlainText` | the encoding header and `libballyhoo_deflate_decompress` |
| `ReadXml` | `libballyhoo_xml_decode` |
| `Ignore`, `DispatchReply`, `DispatchCall` | no XML or no request under this uuid; a request's deferred is fired; `libgaldr_handler_dispatch` |
| `HandlersReturn`, `AnswerCall` | the request leaves the table; the result of the handler is written under the uuid of the call |
| `CopyFails`, `CleanUp` | the copy for debugging; the `g_free`s at the end of the loop body |
| `Ask`, `Expire` | a request takes a uuid, from the main loop or inside a handler, and is registered or not (`libgaldr_conn_register` is not); `libballyhoo_update` |

Both sides count their uuids from 1, so a call of the server has the uuid of a
request of the client as a rule and not as an exception. While a handler runs
(`replying`, `calling`, `expiring`) it may make requests, whose writes may close
the socket under the loop; the messages that are in `inbuf` are still handled.
`Rpc` says what is to come of all this and knows nothing of bytes or blocks: a
request ends once, with its own reply or a timeout; calls are handled in order
and answered at most once, by the time the next is handled.

`error` is the first misuse of memory, after which nothing is described. What
the blocks of header names, parsed values and chunks do is not followed, and
neither is a fault with code 0, which `libballyhoo_xml_decode` takes for a
response.

## The runs

| Run | Checks | Bounds | Shows |
|---|---|---|---|
| `deferred` | `DTypeOK` `NeverRefired` `NoneLeftFiring` `OneWaker` `NoDanglingDeferred` `FaultsReachNoCallback` `RunsEnd` | three addresses, queues of up to three pairs (seven of them: with both, one or no handler), two kinds of faults | the engine under every order of replies, faults, nested chains and shutdown; events end |
| `connection` | `CTypeOK` `OnePing` `ConnectedHasToken` `LossIsReported` `SweptStillPending` `DSpec` `RequestsEnd` `DeadServerNoticed` `HeloEnds` | 8 addresses, contacts asked for below 4 deferreds; a keep-alive period of 2 units against timeouts of 3 and 1, in the order of the code's 30, 90 and 5 seconds | the connection in any order of events, its refinement of the engine, and what must happen |
| `messaging` | `MTypeOK` `AcceptedOnce` `DispatchFindsSession` `HandlersReadTheirResponse` | one contact; its session, a group and a session of strangers; one message out, one in, a second contact list; one fault of any kind; two requests in flight and the chains they start | messages while contacts, sessions and tokens change |
| `messaging_expiry` | `ShownOnceBeforeRead` `ImsAccepted` `MessagesShown` | one contact and its session, one message out, two in, one expiry of a token | only a token expires: nothing is lost |
| `stream` | `STypeOK` `FrameInSync` `SpaceForFrames` `WritesWhole` `DeliversInOrder` `MessagesDelivered` | three frames of two ids: empty, exactly filling `inbuf`, too large, or malformed; two messages out, each of one byte or as long as two chunks | the stream, with a write that fails in a handler |
| `dispatch` | `DispatchTypeOK` `MemorySafe` `CallsAnswered` `KeepsPromise` `RepliesEndRequests` | two requests, two calls of the server, one message with one of ten things wrong with it | complete messages through the decoders to deferreds and handlers, with late and missing replies |

The bounds are the smallest at which the interesting cases happen: a chain of
three deferreds (a deferred that waits in one that waits in another), a request
answered while another is suspended, a ping outstanding when the next is due, a
repeated call inside the creation of a session, two frames in `inbuf` while a
third is cut, a call whose uuid is that of a request in flight, an unreadable
message between a request and its reply. Each property fails when one mapped definition is changed the way
a plausible bug would; the mutants stand beside the definitions they change.

Some properties leave a part of what the code does aside, because no document
says what should happen there. `MemorySafe` is about messages with readable
headers that are compressed and decompress whole, or are too short to have any
(`Foreseen`): the model follows the code into the NULL or the missing bytes of
the others, and the property does not call that wrong. `HeloEnds` assumes that a
live server goes on with the HELO or closes; the code would wait for ever for one
that does neither. `RunsEnd` is about events and not about the deferreds without
a timeout, which are built, never registered and never freed. The hazards in
`PROJECT.json` that no property covers say so. A message of the client
whose last chunk is empty after a whole one is covered by the theorem
`WritesAreWhole` alone.

Deadlock is checked for `deferred`, where something can always happen. It is
off elsewhere: the system may really stop, with the account freed, the socket
closed, or the bounded messages all sent.

### Fairness

* `Deferred`, `RunsEnd`: weak fairness of the engine and of handlers. C code that runs
  goes on, and handlers return (they have no loops that wait).
* `Connection`: the same, and strong fairness of the keep-alive timer, of the
  clock and of libpurple's disconnect timer. The main loop serves every timer
  that is due; strong, because they are disabled while an event is handled.
  Of the server it is assumed only that, while it is alive, it sends its part of
  a HELO that has begun, or closes: the code waits for that without a timeout.
  Nothing is assumed of the network or the user.
* `Messaging`: handlers go on, and while requests are in flight one of them is
  answered or times out, which `RequestsEnd` shows.
* `Stream`: the callback's code goes on and a read that is repeated while bytes
  are on their way gets some.
* `Dispatch`: the callback goes on, and is called while there is something to
  read. Nothing is assumed of the server.

`RequestsEnd` says that whenever requests are past their time a moment comes
when none is. It does not follow one request, because an address that is used
again would be taken for the request that had it before.

### Findings

| Run | Property | What the code does |
|---|---|---|
| `connection_shutdown` | `ShutdownWhenDone` | the account is freed with its socket open (callbacks follow), and inside a handler of `libgaldr_do_auth_err`, whose event goes on with it and whose close frees it again |
| `connection_expiry` | `ExpiredEnds` | only the keep-alive of a connected account sweeps: the log-in never times out |
| `messaging_session` | `SessionMadeFirst` | a contact list that arrives while a message waits for its session makes `libgaldr_do_send_im` miss the session and ask again for ever |
| `messaging_order` | `MostRecentIsLast` | a message that waits for its session sets `last_message_id` back after a later one |
| `messaging_group` | `GroupsDoNotShow` | groups with one known contact do show up, as that contact's chat |
| `dispatch_text` | `CleansUpOnce` | the body of a message that is not compressed, which the HELO asks for, is freed twice |

## The proofs

`DeferredProofs` proves, for every set of addresses, handlers, queues and
faults that satisfies `CallbacksAssumption`:

* `TypeCorrect`: `DSpec => []DTypeOK`
* `RefiredNever`: `DSpec => []NeverRefired`
* `FiringNever`: `DSpec => []NoneLeftFiring`
* `ResumedOnce`: `DSpec => []OneWaker`
* `DanglingNever`: `DSpec => []NoDanglingDeferred`
* `FaultsNeverReachCallbacks`: `DSpec => []FaultsReachNoCallback`

None of them is inductive. `DInv` adds what can be where: the stack holds
distinct deferreds that are allocated, firing and not over (`StackSound`); the
table holds allocated ones that have not begun to fire, but for the one whose
event is being handled (`PendingSound`); a handle pair resumes a deferred that
has begun, is not over and is not running (`HandlesAwaited`), no two pairs
resume the same one (`HandlesUnique`), and every deferred in that state has
such a pair (`SuspendedAwaited`). `Resume` moves a deferred from a queue to the
stack, `Chain` the whole stack into the queue of a fresh deferred. The proof
has one lemma per action; lemmas about queues (what tails, appends and
reversed stacks contain) stand before them.

`FaultsReachNoCallback` needs to know which deferreds may be resumed with a fault
as if it were a response: a queue hands on the fault that its last errback has
left. `Spent` says that there is a set of deferreds whose handlers have all had
their turn. What is left in their queues resumes others of the set; all
activations but the innermost are of it, and so is whatever a handle pair behind
another one resumes; and an activation that runs callbacks with a fault is of it,
too. It is a property of the engine alone, and takes from `CallbacksAssumption`
that the type of a `DeferredResponse` tells a response from a fault.

`StreamProofs` and `StreamOrder` prove, for frames, ids, message lengths and
buffers of any size that satisfy `StreamAssumption`:

* `StreamTypeCorrect`: `SSpec => []STypeOK`
* `DecodesInSync`: `SSpec => []FrameInSync`
* `SpaceEnough`: `SSpec => []SpaceForFrames`
* `WritesAreWhole`: `SSpec => []WritesWhole`
* `InOrder`: `SSpec => DeliversInOrder` (`Stream` implements `Channel`)

On the way in, `Laid` says that the frames follow one another without a gap up
to what is written, and `CaughtUp` that the callback reads only when nothing in
`inbuf` can be decoded: so the end of a decoded frame is the beginning of the
next one, and a full `inbuf` at a read holds the beginning of a frame that does
not fit. On the way out, `EncodeWhole` gives what `Encode` computes for every
length and chunk size, from three lemmas about the division in its loop's
bound, and `IdsUsed` separates two messages.

For `InOrder`, the callback has to be in a state that the server has been in:
`Replayed` says that there is a sequence of the server's states, one for each
frame and each made from the one before by `Follows`, that ends in the
server's present state and passes through the callback's, just before the
frame at `start`. Sending a frame adds a state to the sequence (`ReplayedSend`);
decoding one moves the callback to the next state (`ReplayedDecode`), so that
the message it delivers is the next one of those completed.

`ConnectionProofs` proves, for every set of addresses, every bound and every
timeout that satisfies `TimingAssumption` (the timeout of a ping is shorter
than the keep-alive period), `ChainsAssumption` (the engine's queues include
those of the connection) and `NullAssumption`:

* `ConnectionTypeCorrect`: `CSpec => []CTypeOK`
* `ConnectionRunsEngine`: `CSpec => DSpec`, with which the theorems about the
  engine hold of the connection

A step of the connection is a step of the engine only if its handlers are
called as the code expects: an errback that passes its value on must have been
given a fault (`ErrorsAreFaults`), and a handler that returns a deferred must
stand in a queue of the log-in. `QueuesShaped` says what the queues look like:
whole when nothing has fired them, at most their last pair once something has,
and empty below the top of the stack. That a deferred is fired at most once,
which this rests on, is `DInv` of `DeferredProofs`, kept by every step because
each is a step of the engine: one lemma per operation of the engine
(`EngineBuilds`, `EngineFires`, …), then one per group of actions.

`ConnectionSafety` adds, with the same assumptions:

* `LossesReported`: `CSpec => []LossIsReported`
* `SweepsHold`: `CSpec => []SweptStillPending`
* `TokenBeforeConnected`: `CSpec => []ConnectedHasToken`
* `PingsAlone`: `CSpec => []OnePing`

`NoAlarmStep` shows that all but four kinds of steps leave the waiting requests,
their expirations and the sweep alone, so that the keep-alive, the sweep, the
clock and the replies are what the proofs are about. `OnePing` holds between
events only; `OnePingInTime`, which holds always, says that a ping that is not
being swept expires before the next keep-alive, which therefore sweeps it.
`ConnectedHasToken` needs `NoTokenNoCallback`: without a token, an activation
whose next pair ends the log-in or resumes a deferred is running its errbacks.

`MessagingProofs` and `MessagingSafety` prove, for any users, session ids and
numbers of messages, lists and faults that satisfy `BoundsAssumption` and
`MessagingAssumption` (the contact list is finite, each contact has a session of
its own with the user, the engine's queues include those of this module):

* `RunsOnEngine`: `MSpec => DSpec`
* `MessagingTyped`: `MSpec => []MTypeOK`
* `ResponsesRightlyRead`: `MSpec => []HandlersReadTheirResponse`
* `SessionAlwaysFound`: `MSpec => []DispatchFindsSession`
* `MessagesShownOnce`: `MSpec => []ShownOnceBeforeRead`
* `MessagesAcceptedOnce`: `MSpec => []AcceptedOnce`

`Uses` lists the ways in which a step uses the engine: it builds a deferred with
one of the queues of `libgaldr`, fires one, responds, faults, chains a refresh or a call,
or takes a turn of the engine. `StepsUse` shows that every event and handler is
one of them, so that most of the invariant is proved once for each way and not
once for each handler. `MInv` is

* `EngineOK`: the invariant of the engine, `Spent`, and which pair may follow
  which in a queue (`QueuesShaped`);
* `HandlesBelow`: activations that wait have only pairs left that resume others;
* `TypedSessions`, `TypedMessages`, `TypedRequests`;
* `ListsAwaited`, `ListsFit`: a contact list that is to be read belongs to the one
  request for it, and there is room for it;
* `EachReads`: to each deferred belongs the request whose response it will be
  given, so that a deferred that waits for a repeated call is resumed with the
  response to that call, or with one that nobody reads;
* `DispatchHead`, `DispatchDelivered`: a message that waited for its session comes to
  the head of its queue only in the activation that is running, and then the
  session is in the table.

`MessagesShownOnce` needs in addition that a message waits in one queue and has
not been shown (`WaitsUnshown`), and that what a session of one contact has as
its last message has been shown (`SessionsShown`).

`MessagesAcceptedOnce` is about the two places that repeat a message: the
refresh of a session token in `default_err` and the `retry_cb` behind it.
For each message, `Once` says that it is sent in one place at most, a pair of a
queue or a request in flight (`OneSender`), that one default pair at most would
repeat it (`OneEnd`), and that this one stands on the way up from the sender: in
its queue or in that of a deferred that waits for it, directly or through others
(`EndAfterSender`, `Way`). When the server accepts the message, the answer's
event is on that way. It takes the response, or a fault that is not 1003, up to
the default pair, which therefore does not repeat it (`AcceptedEnds`, `Takes`). A
message whose answer is late is the same case: the timeout is a fault, too, and
the request was the only sender. One lemma per kind of step keeps `Once`:
`OncePlain`, `OnceSent`, `OnceCalled`, `OnceRefreshed`, `OnceAccepted`.

`DispatchProofs` proves, for any number of requests, calls
and irregular messages of any form (`DispatchAssumption`):

* `DispatchTypeCorrect`: `DispatchSpec => []DispatchTypeOK`
* `MemoryIsSafe`: `DispatchSpec => []MemorySafe`
* `PromiseKept`: `DispatchSpec => KeepsPromise` (`Dispatch` implements `Rpc`)
* `EveryCallAnswered`: `DispatchSpec => []CallsAnswered`

`HeapInv` gives the blocks that are allocated at each stage (`HeapAt`), and for
a decoded message where its text is (`Text`). `ProtocolInv` says that the
message in hand is the last one taken, under the uuid and of the kind that the
server gave it (`InHand`), that a request that has ended is in the table only
while its handlers run (`EndedOnce`), and that calls are handled and answered in
order (`CallsInOrder`). `AnswersInv` adds which messages count as unreadable
(`ReadableInHand`) and that the calls due are the calls answered, but for the
one in hand (`AnsweredInTurn`).

Only model-checked: everything under fairness (`RunsEnd`, `RequestsEnd`,
`DeadServerNoticed`, `HeloEnds`, `MessagesDelivered`, `RepliesEndRequests`,
`ImsAccepted`, `MessagesShown`), because the provers handle neither `ENABLED` nor
fairness. Every invariant of the runs is also a theorem.

## Not modelled

* Texts: errors and logs, the names of headers, XML, the streams of zlib. The
  decoders are modelled by which messages they accept and the blocks they leave.
* Memory other than the nine blocks of a message in hand and the deferreds:
  strings of headers, parsed values, chunks, and the contact objects and sessions
  that are never freed.
* The streamed variants of `librcl` and the priorities of `libcmf`, which nothing
  uses; the `authenticated` and `connected` flags, which nothing reads.
* Buddy list, status types, icons and the registration of the plugin: display.
* The width of the counters of message ids and uuids, which are numbers without a
  bound in the models.
* Two oddities that have no effect on what is modelled: `message-length` counts a
  byte more than the length of the XML, and a body with an empty line in it is
  split there and not decoded (a form of `Dispatch` with three parts).

## Plan

1. Done: all modules of the table above; the invariants of all runs and the two
   refinements of the engine proved.
2. Next in the models: two contacts in `Messaging` and a socket that fails under a
   chain of it.
3. Next in the proofs: what `Messaging` promises to a user as an abstract
   specification of its own (a message is taken once and shown once, in terms of
   `sent`, `accepted` and `shown` only), implemented by way of `Once` and
   `WaitsUnshown`.
