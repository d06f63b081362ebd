------------------------------ MODULE Dispatch ------------------------------
(***************************************************************************)
(* What libballyhoo does with a complete message: the second half of       *)
(* libballyhoo_handle_input_cb, which takes the header of the reliable     *)
(* connection layer (librcl), the headers of the message                   *)
(* (libballyhoo_message), the compression (libballyhoo_deflate) and the    *)
(* XML (libballyhoo_xml) off it, one after the other, and then fires the   *)
(* deferred registered under the uuid or handles a call of the server.     *)
(*                                                                         *)
(* Stream ends where a message is complete, Connection begins where a      *)
(* reply has fired a deferred; this module is what lies between.  It       *)
(* follows the memory blocks of one message through the loop body, and     *)
(* the uuids, which either side counts from 1 for its own calls.           *)
(*                                                                         *)
(* One action is one part of the loop body.  While a handler runs          *)
(* (replying, expiring, calling) it may make requests of its own, and the  *)
(* writes of these may close the socket under the callback.                *)
(***************************************************************************)
EXTENDS Integers, Sequences, FiniteSets

CONSTANTS
  Forms,         \* the messages the server may send: see Form
  MaxRequests,   \* bound on the requests of the client
  MaxCalls,      \* bound on the calls of the server
  MaxIrregular,  \* bound on the messages that cannot be read
  NULL

(* What the decoders tell apart: whether there are fewer bytes than a      *)
(* header of RCL has, whether its first bit is set, the parts between      *)
(* empty lines (an XML text may hold one), the message-length header and   *)
(* the encoding header, how the decompression ends, whether the XML can be *)
(* parsed.                                                                 *)
Form == [short : BOOLEAN, reserved : BOOLEAN, parts : 1..3,
         announced : {NULL, "exact", "beyond"},
         encoding : {NULL, "text", "deflate"},
         inflates : {"all", "none", "partly"}, xml : BOOLEAN]

(* A fault here is one with a code other than 0: libballyhoo_xml_decode    *)
(* takes any other for a response without a value.                         *)
Kinds == {"response", "fault"}

(* The blocks of one message.                                              *)
Blocks == {"combined", "rcl", "buffer", "bm", "headers", "encoding", "body",
           "plain", "brpc"}

(* The names that values have in this module.                              *)
Names == Kinds \cup Blocks \cup {"call", "exact", "beyond", "text", "deflate",
  "open", "null pointer", "over-read", "freed twice"}

ASSUME DispatchAssumption ==
  /\ Forms \subseteq Form
  /\ MaxRequests \in Nat /\ MaxCalls \in Nat /\ MaxIrregular \in Nat
  /\ NULL \notin Names

VARIABLES
  next_uuid,  \* _librcl_static_index
  pending,    \* pending_callbacks: the uuids of requests in flight
  wire,       \* the messages the server has sent, in order
  called,     \* how many of these are calls
  read,       \* how many of them are in inbuf or were
  taken,      \* how many of these were taken out of it
  socket,     \* ba->gsc
  stage,      \* the part of the loop body that is next
  content,    \* the form of the message that is being decoded
  uuid,       \* rcl->uuid, or the key of libballyhoo_update
  body,       \* bm->xmlrpc
  doc,        \* xmlrpc
  brpc,       \* NULL or the type of *brpc
  heap,       \* the blocks allocated that the loop body is to free
  error,      \* what memory was misused for, if it was
  ended,      \* requests that ended: uuid and outcome
  handled,    \* the last call given to ba->handler
  answered,   \* calls whose response was written
  unreadable  \* the messages taken that not every decoder accepts

local == <<content, uuid, body, doc, brpc>>
histories == <<ended, handled, answered, unreadable>>
vars == <<next_uuid, pending, wire, called, read, taken, socket, stage, local,
          heap, error, histories>>

Stages == {"idle", "rcl", "headers", "encoding", "xml", "dispatch",
           "replying", "calling", "expiring", "clean"}
Message == [kind : Kinds \cup {"call"}, uuid : Nat]

DispatchTypeOK ==
  /\ next_uuid \in 1..(MaxRequests + 1)
  /\ pending \subseteq 1..(next_uuid - 1)
  /\ wire \in Seq(Message)
  /\ called \in 0..MaxCalls
  /\ read \in 0..Len(wire)
  /\ taken \in 0..read
  /\ socket \in {"open", NULL}
  /\ stage \in Stages
  /\ content \in Forms \cup {NULL}
  /\ uuid \in Nat
  /\ body \in {NULL, "body"} /\ doc \in {NULL, "body", "plain"}
  /\ brpc \in Kinds \cup {"call", NULL}
  /\ heap \subseteq Blocks
  /\ error \in {NULL, "null pointer", "over-read", "freed twice"}
  /\ ended \subseteq (1..(next_uuid - 1)) \X (Kinds \cup {"timeout"})
  /\ handled \in 0..called
  /\ answered \subseteq 1..handled
  /\ unreadable \subseteq 1..taken

(* libballyhoo_start, and the socket as do_helo leaves it.                 *)
DispatchInit ==
  /\ next_uuid = 1 /\ pending = {}
  /\ wire = <<>> /\ called = 0 /\ read = 0 /\ taken = 0
  /\ socket = "open" /\ stage = "idle"
  /\ content = NULL /\ uuid = 0 /\ body = NULL /\ doc = NULL /\ brpc = NULL
  /\ heap = {} /\ error = NULL
  /\ ended = {} /\ handled = 0 /\ answered = {} /\ unreadable = {}

-----------------------------------------------------------------------------
(* The main loop is between two events, or may be.                         *)
Idle == stage = "idle" /\ read = taken

(* A handler of the plugin is running.                                     *)
InHandler == stage \in {"replying", "calling", "expiring"}

(* libballyhoo_send_chunks: a write that fails closes the socket.          *)
SendChunks(ok) ==
  IF ok THEN socket = "open" /\ UNCHANGED socket ELSE socket' = NULL

(* g_free of blocks in this order; NULL is none.                           *)
Free(blocks) ==
  /\ heap' = heap \ {blocks[i] : i \in DOMAIN blocks}
  /\ error' = IF \A i \in DOMAIN blocks :
                   blocks[i] # NULL =>
                     /\ blocks[i] \in heap
                     /\ \A j \in 1..(i - 1) : blocks[j] # blocks[i]
              THEN NULL ELSE "freed twice"

-----------------------------------------------------------------------------
(* libballyhoo_encode_method_call takes a uuid; the caller registers its   *)
(* deferred under it before it sends.  libgaldr_conn_register has none.    *)
Ask ==
  /\ Idle \/ InHandler
  /\ next_uuid <= MaxRequests
  /\ next_uuid' = next_uuid + 1
  /\ pending' \in {pending, pending \cup {next_uuid}}
  /\ \E ok \in BOOLEAN : SendChunks(ok)
  /\ UNCHANGED <<wire, called, read, taken, stage, local, heap, error,
                 histories>>

(* libballyhoo_update finds a request in flight that has expired.          *)
Expire(u) ==
  /\ Idle
  /\ u \in pending
  /\ uuid' = u
  /\ ended' = ended \cup {<<u, "timeout">>}
  /\ stage' = "expiring"
  /\ UNCHANGED <<next_uuid, pending, wire, called, read, taken, socket,
                 content, body, doc, brpc, heap, error, handled, answered,
                 unreadable>>

(* The callback reads 0 bytes or an error.                                 *)
LostConnection ==
  /\ Idle
  /\ socket = "open"
  /\ socket' = NULL
  /\ UNCHANGED <<next_uuid, pending, wire, called, read, taken, stage, local,
                 heap, error, histories>>

(* The messages that every decoder accepts.                                *)
Readable(form) ==
  /\ ~form.short /\ ~form.reserved
  /\ form.parts = 2 /\ form.announced = "exact"
  /\ form.encoding = "deflate" /\ form.inflates = "all"
  /\ form.xml

SendsMessage(kind, u) ==
  /\ socket = "open"
  /\ wire' = Append(wire, [kind |-> kind, uuid |-> u])
  /\ UNCHANGED <<next_uuid, pending, read, taken, socket, stage, local, heap,
                 error, histories>>

IsReplyTo(message, u) == message.kind \in Kinds /\ message.uuid = u

(* The server replies once to a request ...                                *)
ServerReplies(u, kind) ==
  /\ \A i \in DOMAIN wire : ~IsReplyTo(wire[i], u)
  /\ SendsMessage(kind, u)
  /\ UNCHANGED called

(* ... and makes calls of its own.                                         *)
ServerCalls ==
  /\ called < MaxCalls
  /\ called' = called + 1
  /\ SendsMessage("call", called')

-----------------------------------------------------------------------------
(* purple_ssl_read: some of what has arrived.                              *)
Read ==
  /\ Idle
  /\ socket = "open"
  /\ read' \in (read + 1)..Len(wire)
  /\ UNCHANGED <<next_uuid, pending, wire, called, taken, socket, stage,
                 local, heap, error, histories>>

(* The next message is complete and combined, also when a handler of the   *)
(* one before has closed the socket.  What is in a message is chosen when  *)
(* it is first looked at.                                                  *)
Take ==
  /\ stage = "idle"
  /\ taken < read
  /\ taken' = taken + 1
  /\ content' \in Forms
  /\ unreadable' = IF Readable(content') THEN unreadable
                   ELSE unreadable \cup {taken'}
  /\ Cardinality(unreadable') <= MaxIrregular
  /\ heap' = {"combined", "rcl"}
  /\ stage' = "rcl"
  /\ UNCHANGED <<next_uuid, pending, wire, called, read, socket, uuid, body,
                 doc, brpc, error, ended, handled, answered>>

(* librcl_decode: 0, -1 and 1.                                             *)
RclStatus(form) ==
  IF form.short THEN 0 ELSE IF form.reserved THEN -1 ELSE 1

RclFails ==
  /\ stage = "rcl"
  /\ RclStatus(content) = 0
  /\ Free(<<"combined", "rcl">>)
  /\ stage' = "idle"
  /\ content' = NULL
  /\ UNCHANGED <<next_uuid, pending, wire, called, read, taken, socket, uuid,
                 body, doc, brpc, histories>>

(* Its -1 is true, like its 1, but leaves *rcl as g_new0 made it.          *)
(* Mutant: the uuid is not converted from network order.                   *)
DecodeRclSwapped ==
  /\ stage = "rcl"
  /\ RclStatus(content) # 0
  /\ uuid' = 3 - wire[taken].uuid
  /\ heap' = heap \cup {"buffer"}
  /\ stage' = "headers"
  /\ UNCHANGED <<next_uuid, pending, wire, called, read, taken, socket,
                 content, body, doc, brpc, error, histories>>

DecodeRcl ==
  /\ stage = "rcl"
  /\ RclStatus(content) # 0
  /\ IF RclStatus(content) = 1
     THEN uuid' = wire[taken].uuid /\ heap' = heap \cup {"buffer"}
     ELSE uuid' = 0 /\ UNCHANGED heap
  /\ stage' = "headers"
  /\ UNCHANGED <<next_uuid, pending, wire, called, read, taken, socket,
                 content, body, doc, brpc, error, histories>>

(* libballyhoo_message_decode splits at empty lines.                       *)
Parts == IF RclStatus(content) = -1 THEN 0 ELSE content.parts

(* bm is NULL, or has no message-length to scan, and is used all the same; *)
(* or more bytes are announced than there are.                             *)
HeadersFail ==
  /\ stage = "headers"
  /\ Parts # 2 \/ content.announced # "exact"
  /\ error' = IF Parts = 2 /\ content.announced = "beyond"
              THEN "over-read" ELSE "null pointer"
  /\ UNCHANGED <<next_uuid, pending, wire, called, read, taken, socket, stage,
                 local, heap, histories>>

DecodeHeaders ==
  /\ stage = "headers"
  /\ Parts = 2
  /\ content.announced = "exact"
  /\ body' = "body"
  /\ heap' = heap \cup {"bm", "headers", "body"}
                  \cup (IF content.encoding = NULL THEN {} ELSE {"encoding"})
  /\ stage' = "encoding"
  /\ UNCHANGED <<next_uuid, pending, wire, called, read, taken, socket,
                 content, uuid, doc, brpc, error, histories>>

(* strcmp of the encoding header that is not there.                        *)
NoEncoding ==
  /\ stage = "encoding"
  /\ content.encoding = NULL
  /\ error' = "null pointer"
  /\ UNCHANGED <<next_uuid, pending, wire, called, read, taken, socket, stage,
                 local, heap, histories>>

(* libballyhoo_deflate_decompress.                                         *)
Decompressed == IF content.inflates = "all" THEN "plain" ELSE NULL

(* Mutant: bm->xmlrpc keeps the pointer to what was freed.                 *)
InflateKeepsBody ==
  /\ stage = "encoding"
  /\ content.encoding = "deflate"
  /\ doc' = Decompressed
  /\ UNCHANGED body
  /\ heap' = (heap \cup ({Decompressed} \ {NULL})) \ {"body", "encoding"}
  /\ stage' = "xml"
  /\ UNCHANGED <<next_uuid, pending, wire, called, read, taken, socket,
                 content, uuid, brpc, error, histories>>

Inflate ==
  /\ stage = "encoding"
  /\ content.encoding = "deflate"
  /\ doc' = Decompressed
  /\ body' = NULL
  /\ heap' = (heap \cup ({Decompressed} \ {NULL})) \ {"body", "encoding"}
  /\ stage' = "xml"
  /\ UNCHANGED <<next_uuid, pending, wire, called, read, taken, socket,
                 content, uuid, brpc, error, histories>>

PlainText ==
  /\ stage = "encoding"
  /\ content.encoding = "text"
  /\ doc' = body
  /\ heap' = heap \ {"encoding"}
  /\ stage' = "xml"
  /\ UNCHANGED <<next_uuid, pending, wire, called, read, taken, socket,
                 content, uuid, body, brpc, error, histories>>

(* libballyhoo_xml_decode.  What it does with a NULL document is up to the *)
(* build of its library: a parse error or a failed assertion.              *)
ReadXml ==
  /\ stage = "xml"
  /\ LET parsed == doc # NULL /\ content.xml IN
       /\ brpc' = IF parsed THEN wire[taken].kind ELSE NULL
       /\ heap' = IF parsed THEN heap \cup {"brpc"} ELSE heap
  /\ error' \in (IF doc = NULL THEN {NULL, "null pointer"} ELSE {NULL})
  /\ stage' = "dispatch"
  /\ UNCHANGED <<next_uuid, pending, wire, called, read, taken, socket,
                 content, uuid, body, doc, histories>>

-----------------------------------------------------------------------------
(* The deferred registered under the uuid.                                 *)
(* Mutant: the table compares the addresses of its keys.                   *)
ByAddress == {}

Registered == pending \cap {uuid}

(* Nothing to do: no XML, or a reply that nobody waits for (any more).     *)
Ignore ==
  /\ stage = "dispatch"
  /\ brpc = NULL \/ (brpc \in Kinds /\ Registered = {})
  /\ stage' = "clean"
  /\ UNCHANGED <<next_uuid, pending, wire, called, read, taken, socket, local,
                 heap, error, histories>>

(* Mutant: whatever is no fault is taken for the response to a request.    *)
DispatchByUuid ==
  /\ stage = "dispatch"
  /\ brpc # NULL
  /\ \E u \in Registered :
       ended' = ended \cup {<<u, IF brpc = "fault" THEN brpc ELSE "response">>}
  /\ stage' = "replying"
  /\ UNCHANGED <<next_uuid, pending, wire, called, read, taken, socket, local,
                 heap, error, handled, answered, unreadable>>

DispatchReply ==
  /\ stage = "dispatch"
  /\ brpc \in Kinds
  /\ \E u \in Registered : ended' = ended \cup {<<u, brpc>>}
  /\ stage' = "replying"
  /\ UNCHANGED <<next_uuid, pending, wire, called, read, taken, socket, local,
                 heap, error, handled, answered, unreadable>>

(* libballyhoo_handle_method_call gives it to libgaldr_handler_dispatch.   *)
DispatchCall ==
  /\ stage = "dispatch"
  /\ brpc = "call"
  /\ handled' = uuid
  /\ stage' = "calling"
  /\ UNCHANGED <<next_uuid, pending, wire, called, read, taken, socket, local,
                 heap, error, ended, answered, unreadable>>

(* The handlers of a deferred return: the request leaves the table.        *)
HandlersReturn ==
  /\ stage \in {"replying", "expiring"}
  /\ pending' = pending \ {uuid}
  /\ IF stage = "replying"
     THEN stage' = "clean" /\ UNCHANGED uuid
     ELSE stage' = "idle" /\ uuid' = 0
  /\ UNCHANGED <<next_uuid, wire, called, read, taken, socket, content, body,
                 doc, brpc, heap, error, histories>>

(* The handler returns, TRUE or FALSE, and its result is sent under the    *)
(* uuid of the call (libballyhoo_encode_method_responseb).                 *)
(* Mutant: FALSE is not sent.                                              *)
AnswerIfTrue ==
  /\ stage = "calling"
  /\ \E ok \in BOOLEAN :
       /\ SendChunks(ok)
       /\ answered' \in {answered, answered \cup IF ok THEN {uuid} ELSE {}}
  /\ stage' = "clean"
  /\ UNCHANGED <<next_uuid, pending, wire, called, read, taken, local, heap,
                 error, ended, handled, unreadable>>

AnswerCall ==
  /\ stage = "calling"
  /\ \E ok \in BOOLEAN :
       /\ SendChunks(ok)
       /\ answered' = answered \cup IF ok THEN {uuid} ELSE {}
  /\ stage' = "clean"
  /\ UNCHANGED <<next_uuid, pending, wire, called, read, taken, local, heap,
                 error, ended, handled, unreadable>>

(* The copy for debugging reads xmlrpc, of which a decompression that      *)
(* failed half-way has left a length but no bytes ...                      *)
CopyFails ==
  /\ stage = "clean"
  /\ doc = NULL
  /\ content.inflates = "partly"
  /\ error' = "null pointer"
  /\ UNCHANGED <<next_uuid, pending, wire, called, read, taken, socket, stage,
                 local, heap, histories>>

(* ... and everything is freed.                                            *)
CleanUp ==
  /\ stage = "clean"
  /\ doc = NULL => content.inflates # "partly"
  /\ Free(<<IF brpc = NULL THEN NULL ELSE "brpc", doc, "headers", body, "bm",
            "combined", "buffer", "rcl">>)
  /\ stage' = "idle"
  /\ content' = IF error' = NULL THEN NULL ELSE content
  /\ uuid' = 0 /\ body' = NULL /\ doc' = NULL /\ brpc' = NULL
  /\ UNCHANGED <<next_uuid, pending, wire, called, read, taken, socket,
                 histories>>

-----------------------------------------------------------------------------
Decode ==
  RclFails \/ DecodeRcl \/ HeadersFail \/ DecodeHeaders \/ NoEncoding
    \/ Inflate \/ PlainText \/ ReadXml

Callback ==
  Read \/ Take \/ Decode \/ Ignore \/ DispatchReply \/ DispatchCall
    \/ HandlersReturn \/ AnswerCall \/ CopyFails \/ CleanUp

Server ==
  \/ \E u \in 1..(next_uuid - 1), kind \in Kinds : ServerReplies(u, kind)
  \/ ServerCalls

(* What follows a misuse of memory is not described.                       *)
DispatchNext ==
  /\ error = NULL
  /\ \/ Callback \/ Server \/ Ask \/ LostConnection
     \/ \E u \in pending : Expire(u)

DispatchSpec == DispatchInit /\ [][DispatchNext]_vars

(* The main loop watches the socket, and the callback goes on.             *)
DispatchFairSpec == DispatchSpec /\ WF_vars(error = NULL /\ Callback)

-----------------------------------------------------------------------------
RepliesSent == {<<wire[i].uuid, wire[i].kind>> :
                  i \in {j \in DOMAIN wire : wire[j].kind \in Kinds}}

(* Both directions of the protocol are what Rpc says: no reply, however    *)
(* late, ends another request than its own or one that has ended, and no   *)
(* call of the server, whose uuids are those of our requests, is taken for *)
(* a reply, handled twice or answered under another uuid.                  *)
Promised == INSTANCE Rpc WITH
  asked <- next_uuid - 1,
  replied <- RepliesSent,
  ended <- ended,
  called <- called,
  handled <- handled,
  answered <- answered

KeepsPromise == Promised!Spec

(* The messages whose blocks the callback was written for: those that have *)
(* their headers, are compressed and can be decompressed, and those too    *)
(* short for a header, which are dropped.                                  *)
Foreseen(form) ==
  \/ form.short
  \/ /\ ~form.reserved /\ form.parts = 2 /\ form.announced = "exact"
     /\ form.encoding = "deflate" /\ form.inflates = "all"

(* Such a message never makes the callback use a NULL pointer or free a    *)
(* block twice, whether or not its XML can be parsed and whatever its      *)
(* handlers do, and between two messages none of these blocks is left.     *)
MemorySafe ==
  /\ error # NULL => ~Foreseen(content)
  /\ stage = "idle" => heap = {}

(* While the socket is open every call that could be read has been         *)
(* answered before the next message is taken, with TRUE or with FALSE.     *)
CallsAnswered ==
  stage = "idle" /\ socket = "open" /\ error = NULL =>
    answered = {wire[i].uuid : i \in {j \in 1..taken :
                  wire[j].kind = "call" /\ j \notin unreadable}}

(* A reply that can be read reaches the request that waits for it: no      *)
(* message before it, dropped, unreadable or a call, holds it up for ever. *)
RepliedTo(u) == \E i \in DOMAIN wire \ unreadable : IsReplyTo(wire[i], u)

RepliesEndRequests ==
  \A u \in 1..MaxRequests :
    (u \in pending /\ RepliedTo(u)) ~>
      (u \notin pending \/ ~RepliedTo(u) \/ socket = NULL \/ error # NULL)

(* "if we need to deflate, then do so": a message that need not be is as   *)
(* good as one that must, and "clean up" frees what it has once.           *)
CleansUpOnce == error # "freed twice"
=============================================================================
