--------------------------- MODULE DispatchProofs ---------------------------
(***************************************************************************)
(* Complete messages, for any requests, calls and contents of messages.    *)
(***************************************************************************)
EXTENDS Dispatch, TLAPS

-----------------------------------------------------------------------------
(* The blocks of a message.  Once it has been decoded its text is either   *)
(* the body itself or what the body was inflated to.                       *)
Header == {"combined", "rcl"}
Split == Header \cup {"buffer", "bm", "headers"}

Valid(form) ==
  /\ form \in Form
  /\ ~form.short /\ ~form.reserved
  /\ form.parts = 2 /\ form.announced = "exact"

Text ==
  \/ /\ content.encoding = "text"
     /\ body = "body" /\ doc = "body"
     /\ heap \ {"brpc"} = Split \cup {"body"}
  \/ /\ content.encoding = "deflate"
     /\ body = NULL
     /\ \/ content.inflates = "all" /\ doc = "plain"
           /\ heap \ {"brpc"} = Split \cup {"plain"}
        \/ content.inflates # "all" /\ doc = NULL
           /\ heap \ {"brpc"} = Split

HeapAt ==
  /\ stage \in {"idle", "expiring"} => heap = {} /\ content = NULL
  /\ stage = "rcl" => content \in Form /\ heap = Header
  /\ stage = "headers" =>
       /\ content \in Form /\ ~content.short
       /\ heap = IF content.reserved THEN Header ELSE Header \cup {"buffer"}
  /\ stage = "encoding" =>
       /\ Valid(content)
       /\ body = "body"
       /\ heap = Split \cup {"body"}
                  \cup (IF content.encoding = NULL THEN {} ELSE {"encoding"})
  /\ stage \in {"xml", "dispatch", "replying", "calling", "clean"} =>
       Valid(content) /\ Text /\ ("brpc" \in heap <=> brpc # NULL)
  /\ stage \in {"xml", "dispatch", "replying", "calling", "clean"} \/ brpc = NULL
  /\ stage = "xml" => brpc = NULL
  /\ stage \in {"idle", "expiring", "rcl", "headers"} => body = NULL
  /\ stage \in {"idle", "expiring", "rcl", "headers", "encoding"} => doc = NULL

HeapTypes ==
  /\ content \in Forms \cup {NULL}
  /\ body \in {NULL, "body"} /\ doc \in {NULL, "body", "plain"}
  /\ heap \subseteq Blocks
  /\ error \in {NULL, "null pointer", "over-read", "freed twice"}

HeapInv ==
  /\ HeapTypes
  /\ MemorySafe
  /\ error = NULL => HeapAt

-----------------------------------------------------------------------------
(* The message that is being handled is the last one taken, its uuid and   *)
(* its kind those the server gave it.                                      *)
InHand ==
  /\ stage \notin {"idle", "expiring"} => taken >= 1
  /\ stage \in {"encoding", "xml", "dispatch", "replying", "calling", "clean"} =>
       uuid = wire[taken].uuid
  /\ stage = "headers" =>
       ~content.short /\ (~content.reserved => uuid = wire[taken].uuid)
  /\ brpc # NULL => brpc = wire[taken].kind
  /\ brpc # NULL => stage \in {"dispatch", "replying", "calling", "clean"}

(* A request that has ended has left the table, or is about to when its    *)
(* handlers return.                                                        *)
EndedOnce ==
  \A r \in ended : r[1] \in pending =>
    stage \in {"replying", "expiring"} /\ r[1] = uuid

Undispatched == {"rcl", "headers", "encoding", "xml", "dispatch"}

(* Calls are numbered in the order in which they are sent; those that have *)
(* not been dispatched come after the last one handled, and while that one *)
(* is handled it has not been answered.                                    *)
CallsInOrder ==
  /\ \A i \in DOMAIN wire : wire[i].kind = "call" => wire[i].uuid \in 1..called
  /\ \A i, j \in DOMAIN wire :
       i < j /\ wire[i].kind = "call" /\ wire[j].kind = "call" =>
         wire[i].uuid < wire[j].uuid
  /\ \A i \in DOMAIN wire :
       wire[i].kind = "call"
         /\ (i > taken \/ (i = taken /\ stage \in Undispatched)) =>
         handled < wire[i].uuid
  /\ stage = "calling" => uuid = handled /\ handled > 0 /\ handled \notin answered

ProtocolTypes ==
  /\ next_uuid \in 1..(MaxRequests + 1)
  /\ pending \subseteq 1..(next_uuid - 1)
  /\ wire \in Seq(Message)
  /\ called \in 0..MaxCalls
  /\ read \in 0..Len(wire)
  /\ taken \in 0..read
  /\ socket \in {"open", NULL}
  /\ stage \in Stages
  /\ uuid \in Nat
  /\ brpc \in Kinds \cup {"call", NULL}
  /\ ended \subseteq (1..(next_uuid - 1)) \X (Kinds \cup {"timeout"})
  /\ handled \in 0..called
  /\ answered \subseteq 1..handled
  /\ unreadable \subseteq 1..taken

ProtocolInv == ProtocolTypes /\ InHand /\ EndedOnce /\ CallsInOrder

-----------------------------------------------------------------------------
(* A message that is appended.                                             *)
LEMMA Appended ==
  ASSUME NEW S, NEW q \in Seq(S), NEW m \in S
  PROVE  /\ Append(q, m) \in Seq(S)
         /\ Len(Append(q, m)) = Len(q) + 1
         /\ DOMAIN Append(q, m) = 1..(Len(q) + 1)
         /\ DOMAIN q = 1..Len(q)
         /\ \A i \in 1..Len(q) : Append(q, m)[i] = q[i]
         /\ Append(q, m)[Len(q) + 1] = m
  OBVIOUS

PromisedStep == [Promised!Next]_<<next_uuid - 1, RepliesSent, ended, called,
                                  handled, answered>>

(* What the server and the handlers see has not changed.                   *)
LEMMA Unseen ==
  ASSUME UNCHANGED <<next_uuid, wire, ended, called, handled, answered>>
  PROVE  PromisedStep
  BY DEF PromisedStep, RepliesSent

(* Nothing but the socket is lost.                                         *)
LEMMA ProtocolLost ==
  ASSUME ProtocolInv, LostConnection
  PROVE  ProtocolInv' /\ PromisedStep
  BY Unseen DEF ProtocolInv, ProtocolTypes, InHand, EndedOnce, CallsInOrder,
    LostConnection, local, histories, Message, Stages

(* A request is made: its uuid is a new one.                               *)
LEMMA ProtocolAsk ==
  ASSUME ProtocolInv, Ask
  PROVE  ProtocolInv' /\ PromisedStep

  <1> USE DispatchAssumption
  <1>1. /\ next_uuid \in Nat \ {0}
        /\ next_uuid' = next_uuid + 1
        /\ next_uuid' <= MaxRequests + 1
        /\ pending' \in {pending, pending \cup {next_uuid}}
        /\ socket' \in {"open", NULL}
        /\ UNCHANGED <<wire, called, read, taken, stage, local, heap, error,
                       histories>>
    BY DEF ProtocolInv, ProtocolTypes, Ask, SendChunks
  <1>2. ProtocolTypes'
    BY <1>1 DEF ProtocolInv, ProtocolTypes, local, histories, Message, Stages
  <1>3. InHand' /\ CallsInOrder'
    BY <1>1 DEF ProtocolInv, InHand, CallsInOrder, local, histories
  <1>4. EndedOnce'
    BY <1>1 DEF ProtocolInv, ProtocolTypes, EndedOnce, local, histories
  <1>5. Promised!Ask
    BY <1>1 DEF Promised!Ask, RepliesSent, local, histories
  <1> QED BY <1>2, <1>3, <1>4, <1>5 DEF ProtocolInv, PromisedStep, Promised!Next

(* A request in flight expires: it has not ended.                          *)
LEMMA ProtocolExpire ==
  ASSUME ProtocolInv, NEW u \in pending, Expire(u)
  PROVE  ProtocolInv' /\ PromisedStep
  <1>1. /\ stage = "idle" /\ u \in 1..(next_uuid - 1)
        /\ uuid' = u /\ stage' = "expiring"
        /\ ended' = ended \cup {<<u, "timeout">>}
        /\ UNCHANGED <<next_uuid, pending, wire, called, read, taken, socket,
                       brpc, handled, answered, unreadable>>
    BY DEF ProtocolInv, ProtocolTypes, Expire, Idle
  <1>2. ProtocolTypes'
    BY <1>1 DEF ProtocolInv, ProtocolTypes, Message, Stages
  <1>3. InHand' /\ CallsInOrder'
    BY <1>1 DEF ProtocolInv, InHand, CallsInOrder, Undispatched
  <1>4. \A r \in ended : r[1] # u
    BY <1>1 DEF ProtocolInv, EndedOnce
  <1>5. EndedOnce'
    BY <1>1 DEF ProtocolInv, EndedOnce
  <1>6. Promised!End(u, "timeout")
    BY <1>1, <1>4 DEF Promised!End, RepliesSent
  <1>7. u \in 1..(next_uuid - 1)
    BY <1>1
  <1> QED
    BY <1>2, <1>3, <1>5, <1>6, <1>7
    DEF ProtocolInv, PromisedStep, Promised!Next, Promised!Kinds

(* The server replies to a request for the first time.                     *)
LEMMA ProtocolReplies ==
  ASSUME ProtocolInv,
         NEW u \in 1..(next_uuid - 1), NEW kind \in Kinds, ServerReplies(u, kind)
  PROVE  ProtocolInv' /\ PromisedStep
  <1> DEFINE m == [kind |-> kind, uuid |-> u]
  <1>1. /\ wire' = Append(wire, m)
        /\ \A i \in DOMAIN wire : ~IsReplyTo(wire[i], u)
        /\ UNCHANGED <<next_uuid, pending, called, read, taken, socket, stage,
                       local, heap, error, histories>>
    BY DEF ServerReplies, SendsMessage
  <1>2. wire \in Seq(Message) /\ m \in Message /\ m.kind # "call" /\ next_uuid \in Nat
    BY DEF ProtocolInv, ProtocolTypes, Message, Kinds
  <1>3. /\ wire' \in Seq(Message)
        /\ Len(wire') = Len(wire) + 1 /\ Len(wire) \in Nat
        /\ DOMAIN wire' = 1..(Len(wire) + 1)
        /\ DOMAIN wire = 1..Len(wire)
        /\ \A i \in 1..Len(wire) : wire'[i] = wire[i]
        /\ wire'[Len(wire) + 1] = m
    BY <1>1, <1>2, Appended
  <1> HIDE DEF m
  <1>4. ProtocolTypes'
    BY <1>1, <1>3 DEF ProtocolInv, ProtocolTypes, local, histories, Stages
  <1>5. InHand'
    BY <1>1, <1>3 DEF ProtocolInv, ProtocolTypes, InHand, local, histories
  <1>6. CallsInOrder'
    BY <1>1, <1>2, <1>3
    DEF ProtocolInv, ProtocolTypes, CallsInOrder, local, histories
  <1>7. EndedOnce'
    BY <1>1 DEF ProtocolInv, EndedOnce, local, histories
  <1>8. \A r \in RepliesSent : r[1] # u
    BY <1>1 DEF RepliesSent, IsReplyTo
  <1>9. RepliesSent' = RepliesSent \cup {<<u, kind>>}
    <2>1. m.kind = kind /\ m.uuid = u
      BY DEF m
    <2> QED BY <1>3, <2>1 DEF RepliesSent
  <1>10. Promised!Reply(u, kind)
    BY <1>1, <1>8, <1>9 DEF Promised!Reply, local, histories
  <1> QED
    BY <1>4, <1>5, <1>6, <1>7, <1>10
    DEF ProtocolInv, PromisedStep, Promised!Next, Promised!Kinds, Kinds

(* The server makes its next call.                                         *)
LEMMA ProtocolCalls ==
  ASSUME ProtocolInv, ServerCalls
  PROVE  ProtocolInv' /\ PromisedStep
  <1> DEFINE m == [kind |-> "call", uuid |-> called + 1]
  <1>1. /\ wire' = Append(wire, m)
        /\ called < MaxCalls /\ called' = called + 1
        /\ UNCHANGED <<next_uuid, pending, read, taken, socket, stage, local,
                       heap, error, histories>>
    BY DEF ServerCalls, SendsMessage
  <1>2. wire \in Seq(Message) /\ m \in Message /\ called \in Nat
    BY DEF ProtocolInv, ProtocolTypes, Message, Kinds
  <1>3. /\ wire' \in Seq(Message)
        /\ Len(wire') = Len(wire) + 1 /\ Len(wire) \in Nat
        /\ DOMAIN wire' = 1..(Len(wire) + 1)
        /\ DOMAIN wire = 1..Len(wire)
        /\ \A i \in 1..Len(wire) : wire'[i] = wire[i]
        /\ wire'[Len(wire) + 1] = m
    BY <1>1, <1>2, Appended
  <1>4. m.kind = "call" /\ m.uuid = called + 1
    OBVIOUS
  <1> HIDE DEF m
  <1>5. ProtocolTypes'
    BY <1>1, <1>2, <1>3, DispatchAssumption
    DEF ProtocolInv, ProtocolTypes, local, histories, Stages
  <1>6. InHand'
    BY <1>1, <1>3 DEF ProtocolInv, ProtocolTypes, InHand, local, histories
  <1>7. CallsInOrder'
    <2>1. handled < called + 1 /\ taken <= Len(wire) /\ taken \in Nat /\ handled \in Nat
      BY <1>2, <1>3 DEF ProtocolInv, ProtocolTypes
    <2>2. \A i \in DOMAIN wire : wire[i].uuid \in Nat
      <3>1. \A i \in DOMAIN wire : wire[i] \in Message
        BY <1>2, <1>3
      <3> QED BY <3>1 DEF Message
    <2> QED
      BY <1>1, <1>2, <1>3, <1>4, <2>1, <2>2
      DEF ProtocolInv, CallsInOrder, local, histories
  <1>8. EndedOnce'
    BY <1>1 DEF ProtocolInv, EndedOnce, local, histories
  <1>9. RepliesSent' = RepliesSent
    BY <1>3, <1>4 DEF RepliesSent, Kinds
  <1>10. Promised!Call
    BY <1>1, <1>9 DEF Promised!Call, local, histories
  <1> QED
    BY <1>5, <1>6, <1>7, <1>8, <1>10 DEF ProtocolInv, PromisedStep, Promised!Next

(* Steps that only read what has arrived, or work on the blocks.           *)
LEMMA ProtocolRead ==
  ASSUME ProtocolInv, Read
  PROVE  ProtocolInv' /\ PromisedStep
  <1>1. /\ read' \in (read + 1)..Len(wire)
        /\ UNCHANGED <<next_uuid, pending, wire, called, taken, socket, stage,
                       local, heap, error, histories>>
    BY DEF Read
  <1>2. ProtocolTypes'
    BY <1>1 DEF ProtocolInv, ProtocolTypes, local, histories, Message, Stages
  <1>3. InHand' /\ EndedOnce' /\ CallsInOrder'
    BY <1>1 DEF ProtocolInv, InHand, EndedOnce, CallsInOrder, local, histories
  <1> QED BY <1>1, <1>2, <1>3, Unseen DEF ProtocolInv, histories

(* The next message is the one after the last: none is passed over.        *)
LEMMA ProtocolTake ==
  ASSUME ProtocolInv, Take
  PROVE  ProtocolInv' /\ PromisedStep
  <1>1. /\ stage = "idle" /\ stage' = "rcl"
        /\ taken < read /\ taken' = taken + 1
        /\ unreadable' \in {unreadable, unreadable \cup {taken'}}
        /\ UNCHANGED <<next_uuid, pending, wire, called, read, socket, uuid,
                       body, doc, brpc, error, ended, handled, answered>>
    BY DEF Take
  <1>2. ProtocolTypes'
    BY <1>1 DEF ProtocolInv, ProtocolTypes, Message, Stages
  <1>3. InHand'
    BY <1>1 DEF ProtocolInv, ProtocolTypes, InHand
  <1>4. EndedOnce'
    BY <1>1 DEF ProtocolInv, EndedOnce
  <1>5. CallsInOrder'
    BY <1>1 DEF ProtocolInv, ProtocolTypes, CallsInOrder, Undispatched
  <1> QED BY <1>1, <1>2, <1>3, <1>4, <1>5, Unseen DEF ProtocolInv

(* The decoders: only DecodeRcl and ReadXml set what the protocol sees,    *)
(* and what they set is in the message.                                    *)
LEMMA ProtocolDecode ==
  ASSUME ProtocolInv, Decode
  PROVE  ProtocolInv' /\ PromisedStep
  <1>1. /\ stage \in {"rcl", "headers", "encoding", "xml"}
        /\ UNCHANGED <<next_uuid, pending, wire, called, read, taken, socket,
                       ended, handled, answered, unreadable>>
    BY DEF Decode, RclFails, DecodeRcl, HeadersFail, DecodeHeaders, NoEncoding,
      Inflate, PlainText, ReadXml, local, histories
  <1>2. taken \in 1..Len(wire) /\ wire[taken] \in Message
    BY <1>1 DEF ProtocolInv, ProtocolTypes, InHand
  <1>3. wire[taken].uuid \in Nat /\ wire[taken].kind \in Kinds \cup {"call"}
    BY <1>2 DEF Message
  <1>4. CASE RclFails
    <2>1. stage' = "idle" /\ UNCHANGED <<uuid, brpc>>
      BY <1>4 DEF RclFails
    <2>2. brpc = NULL
      BY <1>4 DEF ProtocolInv, InHand, RclFails
    <2>3. ProtocolTypes'
      BY <1>1, <2>1 DEF ProtocolInv, ProtocolTypes, Message, Stages
    <2>4. InHand' /\ EndedOnce'
      BY <1>1, <2>1, <2>2 DEF ProtocolInv, InHand, EndedOnce
    <2>5. CallsInOrder'
      BY <1>1, <2>1 DEF ProtocolInv, CallsInOrder, Undispatched
    <2> QED BY <1>1, <2>3, <2>4, <2>5, Unseen DEF ProtocolInv
  <1>5. CASE DecodeRcl
    <2>1. /\ stage = "rcl" /\ stage' = "headers"
          /\ ~content.short
          /\ uuid' \in Nat /\ (~content.reserved => uuid' = wire[taken].uuid)
          /\ UNCHANGED <<content, brpc>>
      BY <1>3, <1>5 DEF DecodeRcl, RclStatus
    <2>2. brpc = NULL
      BY <2>1 DEF ProtocolInv, InHand
    <2>3. ProtocolTypes'
      BY <1>1, <2>1 DEF ProtocolInv, ProtocolTypes, Message, Stages
    <2>4. InHand' /\ EndedOnce'
      BY <1>1, <2>1, <2>2 DEF ProtocolInv, InHand, EndedOnce
    <2>5. CallsInOrder'
      BY <1>1, <2>1 DEF ProtocolInv, CallsInOrder, Undispatched
    <2> QED BY <1>1, <2>3, <2>4, <2>5, Unseen DEF ProtocolInv
  <1>6. CASE HeadersFail \/ NoEncoding
    <2>1. UNCHANGED <<stage, content, uuid, brpc>>
      BY <1>6 DEF HeadersFail, NoEncoding, local
    <2>2. ProtocolTypes'
      BY <1>1, <2>1 DEF ProtocolInv, ProtocolTypes, Message, Stages
    <2>3. InHand' /\ EndedOnce' /\ CallsInOrder'
      BY <1>1, <2>1 DEF ProtocolInv, InHand, EndedOnce, CallsInOrder
    <2> QED BY <1>1, <2>2, <2>3, Unseen DEF ProtocolInv
  <1>7. CASE DecodeHeaders \/ Inflate \/ PlainText
    <2>1. /\ \/ stage = "headers" /\ ~content.reserved /\ stage' = "encoding"
             \/ stage = "encoding" /\ stage' = "xml"
          /\ UNCHANGED <<content, uuid, brpc>>
      BY <1>7
      DEF ProtocolInv, InHand, DecodeHeaders, Inflate, PlainText, Parts, RclStatus
    <2>2. brpc = NULL /\ uuid = wire[taken].uuid
      BY <2>1 DEF ProtocolInv, InHand
    <2>3. ProtocolTypes'
      BY <1>1, <2>1 DEF ProtocolInv, ProtocolTypes, Message, Stages
    <2>4. InHand' /\ EndedOnce'
      BY <1>1, <2>1, <2>2 DEF ProtocolInv, InHand, EndedOnce
    <2>5. CallsInOrder'
      BY <1>1, <2>1 DEF ProtocolInv, CallsInOrder, Undispatched
    <2> QED BY <1>1, <2>3, <2>4, <2>5, Unseen DEF ProtocolInv
  <1>8. CASE ReadXml
    <2>1. /\ stage = "xml" /\ stage' = "dispatch"
          /\ brpc' \in {NULL, wire[taken].kind}
          /\ UNCHANGED <<content, uuid>>
      BY <1>8 DEF ReadXml
    <2>2. uuid = wire[taken].uuid
      BY <2>1 DEF ProtocolInv, InHand
    <2>3. ProtocolTypes'
      BY <1>1, <1>3, <2>1 DEF ProtocolInv, ProtocolTypes, Message, Stages
    <2>4. InHand' /\ EndedOnce'
      BY <1>1, <2>1, <2>2 DEF ProtocolInv, InHand, EndedOnce
    <2>5. CallsInOrder'
      BY <1>1, <2>1 DEF ProtocolInv, CallsInOrder, Undispatched
    <2> QED BY <1>1, <2>3, <2>4, <2>5, Unseen DEF ProtocolInv
  <1> QED BY <1>4, <1>5, <1>6, <1>7, <1>8 DEF Decode

(* A reply ends the request that is registered under its uuid, and which   *)
(* the server sent it for.                                                 *)
LEMMA ProtocolReply ==
  ASSUME ProtocolInv, DispatchReply
  PROVE  ProtocolInv' /\ PromisedStep
  <1>1. /\ stage = "dispatch" /\ stage' = "replying"
        /\ brpc \in Kinds
        /\ uuid \in pending
        /\ ended' = ended \cup {<<uuid, brpc>>}
        /\ UNCHANGED <<next_uuid, pending, wire, called, read, taken, socket,
                       content, uuid, brpc, handled, answered, unreadable>>
    BY DEF DispatchReply, Registered, local
  <1>2. /\ taken \in DOMAIN wire
        /\ uuid = wire[taken].uuid /\ brpc = wire[taken].kind
    <2>1. brpc # NULL
      BY <1>1, DispatchAssumption DEF Names, Kinds
    <2>2. taken \in 1..Len(wire)
      BY <1>1 DEF ProtocolInv, ProtocolTypes, InHand
    <2> QED BY <1>1, <2>1, <2>2 DEF ProtocolInv, ProtocolTypes, InHand
  <1>3. uuid \in 1..(next_uuid - 1)
    BY <1>1 DEF ProtocolInv, ProtocolTypes
  <1>4. ProtocolTypes'
    BY <1>1, <1>3 DEF ProtocolInv, ProtocolTypes, Message, Stages
  <1>5. InHand'
    BY <1>1 DEF ProtocolInv, InHand
  <1>6. EndedOnce'
    BY <1>1 DEF ProtocolInv, EndedOnce
  <1>7. CallsInOrder'
    BY <1>1 DEF ProtocolInv, CallsInOrder, Undispatched
  <1>8. \A r \in ended : r[1] # uuid
    BY <1>1 DEF ProtocolInv, EndedOnce
  <1>9. <<uuid, brpc>> \in RepliesSent
    BY <1>1, <1>2 DEF RepliesSent
  <1>10. Promised!End(uuid, brpc)
    BY <1>1, <1>3, <1>8, <1>9 DEF Promised!End, RepliesSent
  <1> QED
    BY <1>1, <1>3, <1>4, <1>5, <1>6, <1>7, <1>10
    DEF ProtocolInv, PromisedStep, Promised!Next, Promised!Kinds, Kinds

(* A call that is dispatched is one the server has made, and comes after   *)
(* those handled before.                                                   *)
LEMMA ProtocolCall ==
  ASSUME ProtocolInv, DispatchCall
  PROVE  ProtocolInv' /\ PromisedStep
  <1>1. /\ stage = "dispatch" /\ stage' = "calling"
        /\ brpc = "call" /\ handled' = uuid
        /\ UNCHANGED <<next_uuid, pending, wire, called, read, taken, socket,
                       content, uuid, brpc, ended, answered, unreadable>>
    BY DEF DispatchCall, local
  <1>2. /\ taken \in DOMAIN wire
        /\ uuid = wire[taken].uuid /\ wire[taken].kind = "call"
    <2>1. brpc # NULL
      BY <1>1, DispatchAssumption DEF Names, Kinds
    <2>2. taken \in 1..Len(wire)
      BY <1>1 DEF ProtocolInv, ProtocolTypes, InHand
    <2> QED BY <1>1, <2>1, <2>2 DEF ProtocolInv, ProtocolTypes, InHand
  <1>3. uuid \in 1..called /\ handled < uuid
    BY <1>1, <1>2 DEF ProtocolInv, CallsInOrder, Undispatched
  <1>4. ProtocolTypes'
    BY <1>1, <1>3 DEF ProtocolInv, ProtocolTypes, Message, Stages
  <1>5. InHand' /\ EndedOnce'
    BY <1>1 DEF ProtocolInv, InHand, EndedOnce
  <1>6. CallsInOrder'
    <2>1. uuid \notin answered
      BY <1>3 DEF ProtocolInv, ProtocolTypes
    <2>2. taken \in Nat
      BY DEF ProtocolInv, ProtocolTypes
    <2> QED
      BY <1>1, <1>2, <1>3, <2>1, <2>2
      DEF ProtocolInv, CallsInOrder, Undispatched
  <1>7. Promised!Handle
    BY <1>1, <1>3 DEF Promised!Handle, RepliesSent, ProtocolInv, ProtocolTypes
  <1> QED
    BY <1>4, <1>5, <1>6, <1>7 DEF ProtocolInv, PromisedStep, Promised!Next

(* It is answered under its own uuid, once.                                *)
LEMMA ProtocolAnswer ==
  ASSUME ProtocolInv, AnswerCall
  PROVE  ProtocolInv' /\ PromisedStep
  <1>1. /\ stage = "calling" /\ stage' = "clean"
        /\ socket' \in {socket, NULL}
        /\ answered' \in {answered, answered \cup {uuid}}
        /\ UNCHANGED <<next_uuid, pending, wire, called, read, taken, content,
                       uuid, brpc, ended, handled, unreadable>>
    BY DEF AnswerCall, SendChunks, local
  <1>2. uuid = handled /\ handled > 0 /\ handled \notin answered
    BY <1>1 DEF ProtocolInv, CallsInOrder
  <1>3. ProtocolTypes'
    BY <1>1, <1>2 DEF ProtocolInv, ProtocolTypes, Message, Stages
  <1>4. InHand' /\ EndedOnce'
    BY <1>1 DEF ProtocolInv, InHand, EndedOnce
  <1>5. CallsInOrder'
    BY <1>1 DEF ProtocolInv, CallsInOrder, Undispatched
  <1>6. UNCHANGED answered \/ Promised!Answer
    BY <1>1, <1>2 DEF Promised!Answer, RepliesSent
  <1> QED
    BY <1>1, <1>3, <1>4, <1>5, <1>6, Unseen
    DEF ProtocolInv, PromisedStep, Promised!Next

(* Handlers return, replies are ignored and blocks are freed: at the end   *)
(* of a message nothing of it is left to dispatch.                         *)
LEMMA ProtocolRest ==
  ASSUME ProtocolInv, Ignore \/ HandlersReturn \/ CopyFails \/ CleanUp
  PROVE  ProtocolInv' /\ PromisedStep
  <1>1. CASE Ignore \/ CopyFails
    <2>1. /\ \/ stage = "dispatch" /\ stage' = "clean"
             \/ UNCHANGED stage
          /\ UNCHANGED <<next_uuid, pending, wire, called, read, taken, socket,
                         content, uuid, brpc, ended, handled, answered,
                         unreadable>>
      BY <1>1 DEF Ignore, CopyFails, local, histories
    <2>2. ProtocolTypes'
      BY <2>1 DEF ProtocolInv, ProtocolTypes, Message, Stages
    <2>3. InHand' /\ EndedOnce' /\ CallsInOrder'
      BY <2>1
      DEF ProtocolInv, InHand, EndedOnce, CallsInOrder, Undispatched
    <2> QED BY <2>1, <2>2, <2>3, Unseen DEF ProtocolInv
  <1>2. CASE HandlersReturn
    <2>1. /\ \/ stage = "replying" /\ stage' = "clean" /\ uuid' = uuid
             \/ stage = "expiring" /\ stage' = "idle" /\ uuid' = 0
          /\ pending' = pending \ {uuid}
          /\ UNCHANGED <<next_uuid, wire, called, read, taken, socket,
                         content, brpc, ended, handled, answered, unreadable>>
      BY <1>2 DEF HandlersReturn, histories
    <2>2. ProtocolTypes'
      BY <2>1 DEF ProtocolInv, ProtocolTypes, Message, Stages
    <2>3. InHand'
      BY <2>1 DEF ProtocolInv, InHand
    <2>4. EndedOnce'
      BY <2>1 DEF ProtocolInv, EndedOnce
    <2>5. CallsInOrder'
      BY <2>1 DEF ProtocolInv, CallsInOrder, Undispatched
    <2> QED BY <2>1, <2>2, <2>3, <2>4, <2>5, Unseen DEF ProtocolInv
  <1>3. CASE CleanUp
    <2>1. /\ stage = "clean" /\ stage' = "idle"
          /\ uuid' = 0 /\ brpc' = NULL
          /\ UNCHANGED <<next_uuid, pending, wire, called, read, taken, socket,
                         ended, handled, answered, unreadable>>
      BY <1>3 DEF CleanUp, histories
    <2>2. ProtocolTypes'
      BY <2>1 DEF ProtocolInv, ProtocolTypes, Message, Stages
    <2>3. InHand' /\ EndedOnce'
      BY <2>1 DEF ProtocolInv, InHand, EndedOnce
    <2>4. CallsInOrder'
      BY <2>1 DEF ProtocolInv, CallsInOrder, Undispatched
    <2> QED BY <2>1, <2>2, <2>3, <2>4, Unseen DEF ProtocolInv
  <1> QED BY <1>1, <1>2, <1>3

(* Every step of the loop body and of its surroundings is one that is      *)
(* promised, or none.                                                      *)
LEMMA ProtocolStep ==
  ASSUME ProtocolInv, [DispatchNext]_vars
  PROVE  ProtocolInv' /\ PromisedStep
  <1>1. CASE Callback
    BY <1>1, ProtocolRead, ProtocolTake, ProtocolDecode, ProtocolReply,
      ProtocolCall, ProtocolAnswer, ProtocolRest DEF Callback
  <1>2. CASE Server
    BY <1>2, ProtocolReplies, ProtocolCalls DEF Server
  <1>3. CASE Ask \/ LostConnection \/ \E u \in pending : Expire(u)
    BY <1>3, ProtocolAsk, ProtocolLost, ProtocolExpire
  <1>4. CASE UNCHANGED vars
    <2>1. UNCHANGED <<next_uuid, pending, wire, called, read, taken, socket,
                      stage, content, uuid, brpc, ended, handled, answered,
                      unreadable>>
      BY <1>4 DEF vars, local, histories
    <2> QED
      BY <2>1, Unseen
      DEF ProtocolInv, ProtocolTypes, InHand, EndedOnce, CallsInOrder
  <1> QED BY <1>1, <1>2, <1>3, <1>4 DEF DispatchNext

(* libballyhoo_start.                                                      *)
LEMMA ProtocolInit ==
  ASSUME DispatchInit
  PROVE  ProtocolInv /\ Promised!Init
  <1>1. ProtocolTypes
    BY DispatchAssumption DEF DispatchInit, ProtocolTypes, Stages
  <1>2. InHand /\ EndedOnce /\ CallsInOrder
    BY DEF DispatchInit, InHand, EndedOnce, CallsInOrder
  <1>3. Promised!Init
    BY DEF DispatchInit, Promised!Init, RepliesSent
  <1> QED BY <1>1, <1>2, <1>3 DEF ProtocolInv

(* Whatever the messages contain, how many there are and what handlers do  *)
(* meanwhile, requests end and calls are handled and answered as Rpc says. *)
THEOREM PromiseKept == DispatchSpec => KeepsPromise
  <1>1. ProtocolInv /\ [DispatchNext]_vars =>
          [Promised!Next]_<<next_uuid - 1, RepliesSent, ended, called, handled,
                            answered>>
    BY ProtocolStep DEF PromisedStep
  <1>2. ProtocolInv /\ [DispatchNext]_vars => ProtocolInv'
    BY ProtocolStep
  <1>3. DispatchInit => ProtocolInv /\ Promised!Init
    BY ProtocolInit
  <1> QED
    BY <1>1, <1>2, <1>3, PTL
    DEF DispatchSpec, KeepsPromise, Promised!Spec, Promised!rvars

-----------------------------------------------------------------------------
Decoded == {"dispatch", "replying", "calling", "clean"}

(* Steps that leave the blocks alone.                                      *)
LEMMA HeapKept ==
  ASSUME HeapInv,
         UNCHANGED <<content, body, doc, brpc, heap, error>>,
         \/ UNCHANGED stage
         \/ stage \in Decoded /\ stage' \in Decoded
         \/ stage \in {"idle", "expiring"} /\ stage' \in {"idle", "expiring"}
              /\ error = NULL
  PROVE  HeapInv'
  <1>1. HeapTypes'
    BY DEF HeapInv, HeapTypes
  <1>2. MemorySafe'
    BY DEF HeapInv, HeapAt, MemorySafe, Decoded
  <1>3. error = NULL => HeapAt'
    <2> SUFFICES ASSUME error = NULL PROVE HeapAt'
      OBVIOUS
    <2>1. HeapAt
      BY DEF HeapInv
    <2>2. Text' = Text
      BY DEF Text
    <2> QED BY <2>1, <2>2 DEF HeapAt, Decoded
  <1> QED BY <1>1, <1>2, <1>3 DEF HeapInv

(* A message begins with its two blocks.                                   *)
LEMMA HeapTake ==
  ASSUME HeapInv, error = NULL, Take
  PROVE  HeapInv'
  <1>1. /\ stage = "idle" /\ stage' = "rcl"
        /\ content' \in Form /\ content' \in Forms
        /\ heap' = Header
        /\ UNCHANGED <<body, doc, brpc, error>>
    BY DispatchAssumption DEF Take, Header
  <1>2. HeapAt
    BY DEF HeapInv
  <1>3. HeapTypes' /\ MemorySafe'
    BY <1>1 DEF HeapInv, HeapTypes, MemorySafe, Header, Blocks
  <1>4. HeapAt'
    BY <1>1, <1>2 DEF HeapAt
  <1> QED BY <1>3, <1>4 DEF HeapInv

(* The header is freed, once; or the message goes on with it.              *)
LEMMA HeapRcl ==
  ASSUME HeapInv, error = NULL, RclFails \/ DecodeRcl
  PROVE  HeapInv'
  <1>1. HeapAt /\ stage = "rcl" /\ content \in Form /\ heap = Header
    BY DEF HeapInv, HeapAt, RclFails, DecodeRcl
  <1>2. CASE RclFails
    <2> DEFINE blocks == <<"combined", "rcl">>
    <2>1. Free(blocks)
      BY <1>2 DEF RclFails
    <2>2. /\ DOMAIN blocks = {1, 2}
          /\ blocks[1] = "combined" /\ blocks[2] = "rcl"
      OBVIOUS
    <2>3. heap' = {} /\ error' = NULL
      <3> HIDE DEF blocks
      <3>1. {blocks[i] : i \in DOMAIN blocks} = {"combined", "rcl"}
        BY <2>2
      <3>2. \A i \in DOMAIN blocks :
              blocks[i] \in heap /\ \A j \in 1..(i - 1) : blocks[j] # blocks[i]
        BY <1>1, <2>2 DEF Header
      <3> QED BY <1>1, <2>1, <3>1, <3>2 DEF Free, Header
    <2>4. /\ stage' = "idle" /\ content' = NULL
          /\ UNCHANGED <<body, doc, brpc>>
      BY <1>2 DEF RclFails
    <2> QED
      BY <1>1, <2>3, <2>4 DEF HeapInv, HeapTypes, MemorySafe, HeapAt
  <1>3. CASE DecodeRcl
    <2>1. /\ stage' = "headers" /\ ~content.short
          /\ heap' = IF content.reserved THEN Header ELSE Header \cup {"buffer"}
          /\ UNCHANGED <<content, body, doc, brpc, error>>
      BY <1>1, <1>3 DEF DecodeRcl, RclStatus
    <2>2. HeapTypes' /\ MemorySafe'
      BY <2>1 DEF HeapInv, HeapTypes, MemorySafe, Header, Blocks
    <2>3. HeapAt'
      BY <1>1, <2>1 DEF HeapAt
    <2> QED BY <2>2, <2>3 DEF HeapInv
  <1> QED BY <1>2, <1>3

(* A message that was not foreseen.                                        *)
LEMMA HeapFails ==
  ASSUME HeapInv, error = NULL, HeadersFail \/ NoEncoding \/ CopyFails
  PROVE  HeapInv'
  <1>1. HeapAt
    BY DEF HeapInv
  <1>2. error' \in {"null pointer", "over-read"}
        /\ UNCHANGED <<stage, content, body, doc, brpc, heap>>
    BY DEF HeadersFail, NoEncoding, CopyFails, local
  <1>3. error' # NULL
    BY <1>2, DispatchAssumption DEF Names
  <1>4. ~Foreseen(content)
    <2>1. CASE HeadersFail
      <3>1. content \in Form /\ ~content.short
        BY <1>1, <2>1 DEF HeapAt, HeadersFail
      <3>2. \/ content.reserved
            \/ content.parts # 2
            \/ content.announced # "exact"
        <4> SUFFICES ASSUME ~content.reserved, content.parts = 2
                     PROVE  content.announced # "exact"
          OBVIOUS
        <4>1. RclStatus(content) = 1
          BY <3>1 DEF RclStatus
        <4>2. Parts = 2
          BY <4>1 DEF Parts
        <4> QED BY <2>1, <4>2 DEF HeadersFail
      <3> QED BY <3>1, <3>2 DEF Foreseen
    <2>2. CASE NoEncoding
      <3>1. content.encoding # "deflate"
        BY <2>2, DispatchAssumption DEF NoEncoding, Names
      <3> QED BY <1>1, <2>2, <3>1 DEF HeapAt, NoEncoding, Valid, Foreseen
    <2>3. CASE CopyFails
      BY <1>1, <2>3 DEF HeapAt, CopyFails, Valid, Foreseen
    <2> QED BY <2>1, <2>2, <2>3
  <1> QED
    BY <1>2, <1>3, <1>4 DEF HeapInv, HeapTypes, MemorySafe, Foreseen

(* The headers and the body are split off, and the body is inflated or is  *)
(* the text.                                                               *)
LEMMA HeapSplit ==
  ASSUME HeapInv, error = NULL, DecodeHeaders \/ Inflate \/ PlainText
  PROVE  HeapInv'
  <1>1. HeapAt
    BY DEF HeapInv
  <1>2. CASE DecodeHeaders
    <2>1. content \in Form /\ ~content.short
      BY <1>1, <1>2 DEF HeapAt, DecodeHeaders
    <2>2. ~content.reserved
      BY <1>2, <2>1 DEF DecodeHeaders, Parts, RclStatus
    <2>3. content.parts = 2
      BY <1>2, <2>1, <2>2 DEF DecodeHeaders, Parts, RclStatus
    <2>4. Valid(content)
      BY <1>2, <2>1, <2>2, <2>3 DEF DecodeHeaders, Valid
    <2>5. heap = Header \cup {"buffer"} /\ brpc = NULL /\ doc = NULL
      BY <1>1, <1>2, <2>2 DEF HeapAt, DecodeHeaders
    <2>6. heap' = Split \cup {"body"}
                   \cup (IF content.encoding = NULL THEN {} ELSE {"encoding"})
      BY <1>2, <2>5 DEF DecodeHeaders, Split
    <2>7. /\ stage' = "encoding" /\ body' = "body"
          /\ UNCHANGED <<content, doc, brpc, error>>
      BY <1>2 DEF DecodeHeaders
    <2>8. HeapTypes' /\ MemorySafe'
      BY <2>6, <2>7
      DEF HeapInv, HeapTypes, MemorySafe, Header, Split, Blocks
    <2>9. HeapAt'
      BY <2>4, <2>5, <2>6, <2>7 DEF HeapAt
    <2> QED BY <2>8, <2>9 DEF HeapInv
  <1>3. CASE Inflate \/ PlainText
    <2>1. /\ stage = "encoding" /\ stage' = "xml"
          /\ UNCHANGED <<content, brpc, error>>
      BY <1>3 DEF Inflate, PlainText
    <2>2. /\ Valid(content) /\ body = "body" /\ brpc = NULL
          /\ heap = Split \cup {"body"}
                  \cup (IF content.encoding = NULL THEN {} ELSE {"encoding"})
      BY <1>1, <2>1 DEF HeapAt
    <2>3. NULL \notin {"text", "deflate", "plain", "body"}
      BY DispatchAssumption DEF Names, Blocks
    <2>4. CASE Inflate
      <3>1. content.encoding = "deflate" /\ body' = NULL /\ doc' = Decompressed
            /\ heap' = (heap \cup ({Decompressed} \ {NULL}))
                         \ {"body", "encoding"}
        BY <2>4 DEF Inflate
      <3>2. heap = Split \cup {"body", "encoding"}
        BY <2>2, <2>3, <3>1
      <3>3. CASE content.inflates = "all"
        <4>1. Decompressed = "plain"
          BY <3>3 DEF Decompressed
        <4>2. heap' = Split \cup {"plain"}
          BY <2>3, <3>1, <3>2, <4>1 DEF Split, Header
        <4>3. Text' /\ "brpc" \notin heap'
          BY <2>1, <3>1, <3>3, <4>1, <4>2 DEF Text, Split, Header
        <4>4. HeapTypes' /\ MemorySafe'
          BY <2>1, <3>1, <4>1, <4>2
          DEF HeapInv, HeapTypes, MemorySafe, Header, Split, Blocks
        <4>5. HeapAt'
          BY <2>1, <2>2, <4>3 DEF HeapAt
        <4> QED BY <4>4, <4>5 DEF HeapInv
      <3>4. CASE content.inflates # "all"
        <4>1. Decompressed = NULL
          BY <3>4 DEF Decompressed
        <4>2. heap' = Split
          BY <3>1, <3>2, <4>1 DEF Split, Header
        <4>3. Text' /\ "brpc" \notin heap'
          BY <2>1, <3>1, <3>4, <4>1, <4>2 DEF Text, Split, Header
        <4>4. HeapTypes' /\ MemorySafe'
          BY <2>1, <3>1, <4>1, <4>2
          DEF HeapInv, HeapTypes, MemorySafe, Header, Split, Blocks
        <4>5. HeapAt'
          BY <2>1, <2>2, <4>3 DEF HeapAt
        <4> QED BY <4>4, <4>5 DEF HeapInv
      <3> QED BY <3>3, <3>4
    <2>5. CASE PlainText
      <3>1. content.encoding = "text" /\ UNCHANGED body /\ doc' = body
            /\ heap' = heap \ {"encoding"}
        BY <2>5 DEF PlainText
      <3>2. heap' = Split \cup {"body"}
        BY <2>2, <2>3, <3>1 DEF Split, Header
      <3>3. Text' /\ "brpc" \notin heap'
        BY <2>1, <2>2, <3>1, <3>2 DEF Text, Split, Header
      <3>4. HeapTypes' /\ MemorySafe'
        BY <2>1, <2>2, <3>1, <3>2
        DEF HeapInv, HeapTypes, MemorySafe, Header, Split, Blocks
      <3>5. HeapAt'
        BY <2>1, <2>2, <3>3 DEF HeapAt
      <3> QED BY <3>4, <3>5 DEF HeapInv
    <2> QED BY <1>3, <2>4, <2>5
  <1> QED BY <1>2, <1>3

(* A message that is parsed adds one block.                                *)
LEMMA HeapRead ==
  ASSUME HeapInv, error = NULL, ReadXml, wire[taken].kind \in Kinds \cup {"call"}
  PROVE  HeapInv'
  <1>1. stage = "xml" /\ stage' = "dispatch" /\ UNCHANGED <<content, body, doc>>
    BY DEF ReadXml
  <1>2. HeapAt /\ Valid(content) /\ Text /\ "brpc" \notin heap
    BY <1>1 DEF HeapInv, HeapAt
  <1>3. /\ heap' \in {heap, heap \cup {"brpc"}}
        /\ "brpc" \in heap' <=> brpc' # NULL
    <2>1. wire[taken].kind # NULL
      BY DispatchAssumption DEF Names
    <2> QED BY <1>2, <2>1 DEF ReadXml
  <1>4. Text'
    BY <1>1, <1>2, <1>3 DEF Text
  <1>5. /\ error' \in {NULL, "null pointer"}
        /\ error' # NULL => doc = NULL
    BY DEF ReadXml
  <1>6. doc = NULL => ~Foreseen(content)
    <2>1. NULL \notin {"body", "plain"}
      BY DispatchAssumption DEF Names, Blocks
    <2> QED BY <1>2, <2>1 DEF Text, Valid, Foreseen
  <1>7. HeapTypes' /\ MemorySafe'
    BY <1>1, <1>3, <1>5, <1>6
    DEF HeapInv, HeapTypes, MemorySafe, Blocks, Foreseen
  <1>8. HeapAt'
    BY <1>1, <1>2, <1>3, <1>4 DEF HeapAt
  <1> QED BY <1>7, <1>8 DEF HeapInv

(* Everything is freed; twice only what was plain text.                    *)
LEMMA HeapFreed ==
  ASSUME HeapInv, error = NULL, CleanUp
  PROVE  HeapInv'
  <1> DEFINE blocks == <<IF brpc = NULL THEN NULL ELSE "brpc", doc, "headers",
                         body, "bm", "combined", "buffer", "rcl">>
  <1>1. /\ stage = "clean" /\ stage' = "idle"
        /\ doc = NULL => content.inflates # "partly"
        /\ Free(blocks)
        /\ content' = IF error' = NULL THEN NULL ELSE content
        /\ body' = NULL /\ doc' = NULL /\ brpc' = NULL
    BY DEF CleanUp
  <1>2. /\ DOMAIN blocks = 1..8
        /\ blocks[1] = IF brpc = NULL THEN NULL ELSE "brpc"
        /\ blocks[2] = doc /\ blocks[3] = "headers"
        /\ blocks[4] = body /\ blocks[5] = "bm" /\ blocks[6] = "combined"
        /\ blocks[7] = "buffer" /\ blocks[8] = "rcl"
    OBVIOUS
  <1> HIDE DEF blocks
  <1>3. HeapAt /\ Valid(content) /\ Text /\ ("brpc" \in heap <=> brpc # NULL)
    BY <1>1 DEF HeapInv, HeapAt
  <1>4. NULL \notin Blocks \cup {"text", "deflate"}
    BY DispatchAssumption DEF Names
  <1>5. heap' = {}
    <2>1. {blocks[i] : i \in DOMAIN blocks} =
            {blocks[1], blocks[2], blocks[3], blocks[4], blocks[5], blocks[6],
             blocks[7], blocks[8]}
      BY <1>2
    <2>2. heap \ {"brpc"} \subseteq {doc, body} \cup Split
      BY <1>3 DEF Text
    <2> QED
      BY <1>1, <1>2, <1>3, <2>1, <2>2 DEF Free, Split, Header
  <1>6. error' \in {NULL, "freed twice"}
    BY <1>1 DEF Free
  <1>7. CASE content.encoding = "deflate"
    <2>1. body = NULL /\ doc \in {NULL, "plain"}
          /\ heap \ {"brpc"} = Split \cup ({doc} \ {NULL})
      BY <1>3, <1>4, <1>7 DEF Text, Blocks
    <2>2. \A i \in DOMAIN blocks : blocks[i] # NULL => blocks[i] \in heap
      BY <1>2, <1>3, <2>1 DEF Split, Header
    <2>3. \A i \in DOMAIN blocks : \A j \in 1..(i - 1) :
            blocks[i] # NULL => blocks[j] # blocks[i]
      BY <1>2, <1>4, <2>1 DEF Blocks
    <2>4. error' = NULL
      BY <1>1, <2>2, <2>3 DEF Free
    <2> QED
      BY <1>1, <1>5, <2>4 DEF HeapInv, HeapTypes, MemorySafe, HeapAt
  <1>8. CASE content.encoding = "text"
    <2>1. ~Foreseen(content)
      BY <1>3, <1>8 DEF Valid, Foreseen
    <2>2. HeapTypes' /\ MemorySafe'
      BY <1>1, <1>5, <1>6, <2>1 DEF HeapInv, HeapTypes, MemorySafe, Foreseen
    <2>3. error' = NULL => HeapAt'
      BY <1>1, <1>5 DEF HeapAt
    <2> QED BY <2>2, <2>3 DEF HeapInv
  <1> QED BY <1>3, <1>7, <1>8 DEF Text

(* No step but these touches a block.                                      *)
LEMMA HeapStep ==
  ASSUME HeapInv, ProtocolInv, [DispatchNext]_vars
  PROVE  HeapInv'
  <1>1. CASE DispatchNext
    <2>1. error = NULL
      BY <1>1 DEF DispatchNext
    <2>2. CASE \/ Read \/ Server \/ Ask \/ LostConnection
               \/ \E u \in pending : Expire(u)
      <3>1. /\ UNCHANGED <<content, body, doc, brpc, heap, error>>
            /\ \/ UNCHANGED stage
               \/ stage = "idle" /\ stage' = "expiring"
        <4>1. CASE Read \/ Ask \/ LostConnection
          BY <4>1 DEF Read, Ask, LostConnection, local, histories
        <4>2. CASE Server
          BY <4>2 DEF Server, ServerReplies, ServerCalls, SendsMessage, local,
            histories
        <4>3. CASE \E u \in pending : Expire(u)
          BY <4>3 DEF Expire, Idle
        <4> QED BY <2>2, <4>1, <4>2, <4>3
      <3> QED BY <2>1, <3>1, HeapKept
    <2>3. CASE Ignore \/ DispatchReply \/ DispatchCall \/ AnswerCall
      <3>1. /\ UNCHANGED <<content, body, doc, brpc, heap, error>>
            /\ stage \in Decoded /\ stage' \in Decoded
        BY <2>3 DEF Ignore, DispatchReply, DispatchCall, AnswerCall, local,
          histories, Decoded
      <3> QED BY <3>1, HeapKept
    <2>4. CASE HandlersReturn
      <3>1. /\ UNCHANGED <<content, body, doc, brpc, heap, error>>
            /\ \/ stage \in Decoded /\ stage' \in Decoded
               \/ stage = "expiring" /\ stage' = "idle"
        BY <2>4 DEF HandlersReturn, Decoded
      <3> QED BY <2>1, <3>1, HeapKept
    <2>5. CASE ReadXml
      <3>1. taken >= 1
        BY <2>5 DEF ReadXml, ProtocolInv, InHand
      <3>2. wire[taken] \in Message
        BY <3>1 DEF ProtocolInv, ProtocolTypes
      <3> QED BY <2>1, <2>5, <3>2, HeapRead DEF Message
    <2> QED
      BY <1>1, <2>1, <2>2, <2>3, <2>4, <2>5, HeapTake, HeapRcl, HeapFails,
        HeapSplit, HeapFreed
      DEF DispatchNext, Callback, Decode
  <1>2. CASE UNCHANGED vars
    <2>1. UNCHANGED <<content, body, doc, brpc, heap, error, stage>>
      BY <1>2 DEF vars, local
    <2> QED BY <2>1, HeapKept
  <1> QED BY <1>1, <1>2

(* Both invariants hold, for all values of the constants.                  *)
LEMMA DispatchInvariant == DispatchSpec => [](ProtocolInv /\ HeapInv)
  <1>1. DispatchInit => ProtocolInv /\ HeapInv
    <2> SUFFICES ASSUME DispatchInit PROVE ProtocolInv /\ HeapInv
      OBVIOUS
    <2>1. ProtocolInv
      BY ProtocolInit
    <2>2. HeapInv
      BY DEF DispatchInit, HeapInv, HeapTypes, HeapAt, MemorySafe
    <2> QED BY <2>1, <2>2
  <1>2. (ProtocolInv /\ HeapInv) /\ [DispatchNext]_vars => (ProtocolInv /\ HeapInv)'
    BY ProtocolStep, HeapStep
  <1> QED BY <1>1, <1>2, PTL DEF DispatchSpec

(* The variables keep their types.                                         *)
THEOREM DispatchTypeCorrect == DispatchSpec => []DispatchTypeOK
  <1>1. ProtocolInv /\ HeapInv => DispatchTypeOK
    BY DEF ProtocolInv, ProtocolTypes, HeapInv, HeapTypes, DispatchTypeOK
  <1> QED BY <1>1, DispatchInvariant, PTL

(* No message that the callback was written for misuses memory, and none   *)
(* leaves a block behind.                                                  *)
THEOREM MemoryIsSafe == DispatchSpec => []MemorySafe
  <1>1. HeapInv => MemorySafe
    BY DEF HeapInv
  <1> QED BY <1>1, DispatchInvariant, PTL

-----------------------------------------------------------------------------
(* The calls of the server are answered.                                   *)

(* Whether a message is readable was decided when it was taken; one that   *)
(* is has been parsed by the time it is dispatched.                        *)
ReadableInHand ==
  /\ stage \notin {"idle", "expiring"} =>
       (taken \in unreadable <=> ~Readable(content))
  /\ stage \in Decoded => (brpc # NULL <=> doc # NULL /\ content.xml)
  /\ stage = "replying" => brpc \in Kinds
  /\ stage = "calling" => brpc = "call"

(* The calls that have had their turn, and could be read.                  *)
HadTurn(i) == i < taken \/ stage \in {"idle", "expiring", "clean"}

Due == {wire[i].uuid : i \in {j \in 1..taken :
          wire[j].kind = "call" /\ j \notin unreadable /\ HadTurn(j)}}

(* A call in plain text is answered as well, before its body is freed      *)
(* twice.                                                                  *)
InPlainText == IF stage = "clean" /\ body = "body" /\ doc = "body"
               THEN {uuid} ELSE {}

AnsweredInTurn ==
  error = NULL /\ socket = "open" =>
    Due \subseteq answered /\ answered \subseteq Due \cup InPlainText

AnswersInv == ReadableInHand /\ AnsweredInTurn

-----------------------------------------------------------------------------
Over == {"idle", "expiring", "clean"}

(* Nothing becomes due but by the end of a message.                        *)
LEMMA DueKept ==
  ASSUME ProtocolInv,
         UNCHANGED <<taken, unreadable>>,
         \A i \in 1..taken : wire'[i] = wire[i],
         stage \in Over <=> stage' \in Over
  PROVE  Due' = Due
  BY DEF Due, HadTurn, Over

(* Steps outside the loop body, and those that leave it where it is.       *)
LEMMA AnswersKept ==
  ASSUME ProtocolInv, AnswersInv, error = NULL,
         UNCHANGED <<taken, local, answered, unreadable>>,
         \A i \in 1..taken : wire'[i] = wire[i],
         socket' = "open" => socket = "open",
         \/ UNCHANGED stage
         \/ stage = "idle" /\ stage' = "expiring"
  PROVE  AnswersInv'
  <1>1. Due' = Due
    BY DueKept DEF Over
  <1>2. InPlainText' = InPlainText
    BY DEF InPlainText, local
  <1>3. Readable(content)' = Readable(content)
    BY DEF Readable, local
  <1>4. ReadableInHand'
    BY <1>3 DEF AnswersInv, ReadableInHand, local, Decoded
  <1> QED BY <1>1, <1>2, <1>4 DEF AnswersInv, AnsweredInTurn

(* Between two messages, and while handlers run.                           *)
LEMMA AnswersOutside ==
  ASSUME ProtocolInv, AnswersInv, error = NULL,
         \/ Read \/ Server \/ Ask \/ LostConnection
         \/ \E u \in pending : Expire(u)
  PROVE  AnswersInv'
  <1>1. CASE Read \/ LostConnection
    <2>1. /\ UNCHANGED <<taken, local, answered, unreadable, wire, stage>>
          /\ socket' = "open" => socket = "open"
      BY <1>1, DispatchAssumption DEF Read, LostConnection, local, histories, Names
    <2> QED BY <2>1, AnswersKept
  <1>2. CASE Ask
    <2>1. UNCHANGED <<taken, local, answered, unreadable, wire, stage>>
      BY <1>2 DEF Ask, local, histories
    <2>2. socket' = "open" => socket = "open"
      BY <1>2, DispatchAssumption DEF Ask, SendChunks, Names
    <2> QED BY <2>1, <2>2, AnswersKept
  <1>3. CASE Server
    <2>1. PICK m \in Message : SendsMessage(m.kind, m.uuid)
      <3>1. CASE ServerCalls
        <4> DEFINE m == [kind |-> "call", uuid |-> called + 1]
        <4>1. m \in Message /\ SendsMessage(m.kind, m.uuid)
          BY <3>1 DEF ServerCalls, Message, ProtocolInv, ProtocolTypes
        <4> QED BY <4>1
      <3>2. ASSUME NEW u \in 1..(next_uuid - 1), NEW kind \in Kinds,
                   ServerReplies(u, kind)
            PROVE  \E m \in Message : SendsMessage(m.kind, m.uuid)
        <4> DEFINE m == [kind |-> kind, uuid |-> u]
        <4>1. m \in Message /\ m.kind = kind /\ m.uuid = u
          BY DEF Message
        <4>2. SendsMessage(m.kind, m.uuid)
          BY <3>2, <4>1 DEF ServerReplies
        <4> QED BY <4>1, <4>2
      <3> QED BY <1>3, <3>1, <3>2 DEF Server
    <2>2. /\ wire' = Append(wire, [kind |-> m.kind, uuid |-> m.uuid])
          /\ UNCHANGED <<taken, local, answered, unreadable, stage, socket>>
      BY <2>1 DEF SendsMessage, local, histories
    <2>3. [kind |-> m.kind, uuid |-> m.uuid] \in Message
      BY DEF Message
    <2>4. \A i \in 1..Len(wire) : wire'[i] = wire[i]
      BY <2>2, <2>3, Appended DEF ProtocolInv, ProtocolTypes
    <2>5. \A i \in 1..taken : wire'[i] = wire[i]
      BY <2>4 DEF ProtocolInv, ProtocolTypes
    <2> QED BY <2>2, <2>5, AnswersKept
  <1>4. CASE \E u \in pending : Expire(u)
    <2>1. /\ UNCHANGED <<taken, content, body, doc, brpc, answered, unreadable,
                         wire, socket>>
          /\ stage = "idle" /\ stage' = "expiring"
      BY <1>4 DEF Expire, Idle
    <2>2. Due' = Due
      BY <2>1, DueKept DEF Over
    <2>3. InPlainText' = InPlainText
      BY <2>1 DEF InPlainText
    <2>4. ReadableInHand'
      BY <2>1 DEF ReadableInHand, Decoded
    <2> QED BY <2>1, <2>2, <2>3, <2>4 DEF AnswersInv, AnsweredInTurn
  <1> QED BY <1>1, <1>2, <1>3, <1>4

(* The next message: those before it keep their turn.                      *)
LEMMA AnswersTake ==
  ASSUME ProtocolInv, AnswersInv, error = NULL, Take
  PROVE  AnswersInv'
  <1>1. /\ stage = "idle" /\ stage' = "rcl"
        /\ taken' = taken + 1
        /\ unreadable' = IF Readable(content') THEN unreadable
                         ELSE unreadable \cup {taken'}
        /\ UNCHANGED <<wire, socket, error, answered>>
    BY DEF Take
  <1>2. taken \in Nat /\ unreadable \subseteq 1..taken
    BY DEF ProtocolInv, ProtocolTypes
  <1>3. Due' = Due
    <2>1. \A j \in 1..(taken + 1) : HadTurn(j)' <=> j \in 1..taken
      BY <1>1, <1>2 DEF HadTurn
    <2>2. \A j \in 1..taken : HadTurn(j) /\ (j \in unreadable' <=> j \in unreadable)
      BY <1>1, <1>2 DEF HadTurn
    <2>3. (1..taken) \subseteq 1..(taken + 1)
      BY <1>2
    <2> QED BY <1>1, <2>1, <2>2, <2>3 DEF Due
  <1>4. InPlainText = {}
    BY <1>1 DEF InPlainText
  <1>5. AnsweredInTurn'
    BY <1>1, <1>3, <1>4 DEF AnswersInv, AnsweredInTurn
  <1>6. ReadableInHand'
    <2>1. Readable(content)' <=> Readable(content')
      BY DEF Readable
    <2>2. taken' \notin unreadable
      BY <1>1, <1>2
    <2> QED BY <1>1, <2>1, <2>2 DEF ReadableInHand, Decoded
  <1> QED BY <1>5, <1>6 DEF AnswersInv

-----------------------------------------------------------------------------
(* The decoders: a message that is dropped could not be read.              *)
LEMMA AnswersDecode ==
  ASSUME ProtocolInv, HeapInv, AnswersInv, error = NULL, Decode
  PROVE  AnswersInv'
  <1>1. CASE RclFails
    <2>1. /\ stage = "rcl" /\ stage' = "idle" /\ content.short
          /\ UNCHANGED <<taken, wire, socket, answered, unreadable>>
      BY <1>1 DEF RclFails, RclStatus, histories
    <2>2. taken \in unreadable /\ taken \in Nat
      BY <2>1 DEF AnswersInv, ReadableInHand, Readable, ProtocolInv, ProtocolTypes
    <2>3. Due' = Due
      BY <2>1, <2>2 DEF Due, HadTurn
    <2>4. InPlainText = {}
      BY <2>1 DEF InPlainText
    <2>5. ReadableInHand'
      BY <2>1 DEF ReadableInHand, Decoded
    <2> QED
      BY <1>1, <2>1, <2>3, <2>4, <2>5 DEF AnswersInv, AnsweredInTurn
  <1>2. CASE ReadXml
    <2>1. /\ stage = "xml" /\ stage' = "dispatch"
          /\ brpc' = IF doc # NULL /\ content.xml THEN wire[taken].kind ELSE NULL
          /\ UNCHANGED <<taken, wire, socket, content, body, doc, answered,
                         unreadable>>
      BY <1>2 DEF ReadXml, histories
    <2>2. wire[taken].kind # NULL
      <3>1. taken \in DOMAIN wire
        BY <2>1 DEF ProtocolInv, ProtocolTypes, InHand
      <3>2. wire[taken] \in Message
        BY <3>1 DEF ProtocolInv, ProtocolTypes
      <3> QED BY <3>2, DispatchAssumption DEF Message, Names
    <2>3. Due' = Due
      BY <2>1, DueKept DEF Over
    <2>4. InPlainText = {}
      BY <2>1 DEF InPlainText
    <2>5. Readable(content)' = Readable(content)
      BY <2>1 DEF Readable
    <2>6. ReadableInHand'
      BY <2>1, <2>2, <2>5 DEF AnswersInv, ReadableInHand, Decoded
    <2> QED BY <2>1, <2>3, <2>4, <2>6 DEF AnswersInv, AnsweredInTurn
  <1>3. CASE \/ DecodeRcl \/ HeadersFail \/ DecodeHeaders \/ NoEncoding
             \/ Inflate \/ PlainText
    <2>1. /\ stage \in {"rcl", "headers", "encoding"}
          /\ stage' \in {"headers", "encoding", "xml"}
          /\ UNCHANGED <<taken, wire, socket, content, answered, unreadable>>
      BY <1>3 DEF DecodeRcl, HeadersFail, DecodeHeaders, NoEncoding, Inflate,
        PlainText, local, histories
    <2>2. Due' = Due
      BY <2>1, DueKept DEF Over
    <2>3. InPlainText = {}
      BY <2>1 DEF InPlainText
    <2>4. Readable(content)' = Readable(content)
      BY <2>1 DEF Readable
    <2>5. ReadableInHand'
      BY <2>1, <2>4 DEF AnswersInv, ReadableInHand, Decoded
    <2> QED BY <2>1, <2>2, <2>3, <2>5 DEF AnswersInv, AnsweredInTurn
  <1> QED BY <1>1, <1>2, <1>3 DEF Decode

-----------------------------------------------------------------------------
(* A message in hand has its last turn: it is due if it is a call that     *)
(* could be read.                                                          *)
LEMMA DueNow ==
  ASSUME ProtocolInv, stage \notin Over, stage' \in Over,
         UNCHANGED <<taken, wire, unreadable>>
  PROVE  Due' = Due \cup (IF wire[taken].kind = "call" /\ taken \notin unreadable
                          THEN {wire[taken].uuid} ELSE {})
  <1>1. taken \in Nat /\ taken >= 1
    BY DEF ProtocolInv, ProtocolTypes, InHand, Over
  <1>2. /\ \A j \in 1..taken : HadTurn(j) <=> j # taken
        /\ \A j \in 1..taken : HadTurn(j)'
    BY <1>1 DEF HadTurn, Over
  <1>3. taken \in 1..taken
    BY <1>1
  <1> QED BY <1>2, <1>3 DEF Due

(* No XML, or a reply: no call has been passed over.                       *)
LEMMA AnswersIgnore ==
  ASSUME ProtocolInv, HeapInv, AnswersInv, error = NULL,
         Ignore \/ HandlersReturn
  PROVE  AnswersInv'
  <1>1. CASE Ignore \/ stage = "replying"
    <2>1. /\ stage \in {"dispatch", "replying"} /\ stage' = "clean"
          /\ UNCHANGED <<taken, wire, socket, content, uuid, body, doc, brpc,
                         answered, unreadable>>
      BY <1>1 DEF Ignore, HandlersReturn, local, histories
    <2>2. wire[taken].kind = "call" => taken \in unreadable
      <3>1. CASE brpc \in Kinds
        BY <2>1, <3>1, DispatchAssumption
        DEF ProtocolInv, InHand, Kinds, Names
      <3>2. CASE brpc = NULL
        <4>1. Valid(content) /\ Text
          BY <2>1 DEF HeapInv, HeapAt
        <4>2. doc = NULL \/ ~content.xml
          BY <2>1, <3>2 DEF AnswersInv, ReadableInHand, Decoded
        <4>3. ~Readable(content)
          BY <4>1, <4>2, DispatchAssumption DEF Text, Readable, Names, Blocks
        <4> QED BY <2>1, <4>3 DEF AnswersInv, ReadableInHand
      <3> QED
        BY <1>1, <2>1, <3>1, <3>2 DEF Ignore, AnswersInv, ReadableInHand
    <2>3. Due' = Due
      BY <2>1, <2>2, DueNow DEF Over
    <2>4. InPlainText = {}
      BY <2>1 DEF InPlainText
    <2>5. Readable(content)' = Readable(content)
      BY <2>1 DEF Readable
    <2>6. ReadableInHand'
      BY <2>1, <2>5 DEF AnswersInv, ReadableInHand, Decoded
    <2> QED BY <2>1, <2>3, <2>4, <2>6 DEF AnswersInv, AnsweredInTurn
  <1>2. CASE HandlersReturn /\ stage = "expiring"
    <2>1. /\ stage' = "idle"
          /\ UNCHANGED <<taken, wire, socket, answered, unreadable>>
      BY <1>2 DEF HandlersReturn, histories
    <2>2. Due' = Due
      BY <1>2, <2>1, DueKept DEF Over
    <2>3. InPlainText = {}
      BY <1>2 DEF InPlainText
    <2>4. ReadableInHand'
      BY <2>1 DEF ReadableInHand, Decoded
    <2> QED BY <1>2, <2>1, <2>2, <2>3, <2>4 DEF AnswersInv, AnsweredInTurn
  <1> QED BY <1>1, <1>2 DEF HandlersReturn

(* A handler is called.                                                    *)
LEMMA AnswersDispatch ==
  ASSUME ProtocolInv, AnswersInv, error = NULL, DispatchReply \/ DispatchCall
  PROVE  AnswersInv'
  <1>1. /\ stage = "dispatch" /\ stage' \in {"replying", "calling"}
        /\ stage' = "replying" => brpc \in Kinds
        /\ stage' = "calling" => brpc = "call"
        /\ UNCHANGED <<taken, wire, socket, content, uuid, body, doc, brpc,
                       answered, unreadable>>
    BY DEF DispatchReply, DispatchCall, local, histories
  <1>2. Due' = Due
    BY <1>1, DueKept DEF Over
  <1>3. InPlainText = {}
    BY <1>1 DEF InPlainText
  <1>4. Readable(content)' = Readable(content)
    BY <1>1 DEF Readable
  <1>5. ReadableInHand'
    BY <1>1, <1>4 DEF AnswersInv, ReadableInHand, Decoded
  <1> QED BY <1>1, <1>2, <1>3, <1>5 DEF AnswersInv, AnsweredInTurn

(* The result is sent, or the socket is closed: a call that was not to be  *)
(* read and was answered all the same came in plain text.                  *)
LEMMA AnswersCall ==
  ASSUME ProtocolInv, HeapInv, AnswersInv, error = NULL, AnswerCall
  PROVE  AnswersInv'
  <1>1. /\ stage = "calling" /\ stage' = "clean"
        /\ UNCHANGED <<taken, wire, content, uuid, body, doc, brpc, unreadable>>
    BY DEF AnswerCall, local
  <1>2. socket' = "open" => socket = "open" /\ answered' = answered \cup {uuid}
    BY DispatchAssumption DEF AnswerCall, SendChunks, Names
  <1>3. brpc = "call" /\ doc # NULL /\ content.xml
    BY <1>1, DispatchAssumption DEF AnswersInv, ReadableInHand, Decoded, Names
  <1>4. wire[taken].kind = "call" /\ wire[taken].uuid = uuid
    BY <1>1, <1>3, DispatchAssumption DEF ProtocolInv, InHand, Names
  <1>5. Due' = Due \cup (IF taken \notin unreadable THEN {uuid} ELSE {})
    BY <1>1, <1>4, DueNow DEF Over
  <1>6. taken \in unreadable => InPlainText' = {uuid}
    <2>1. Valid(content) /\ Text
      BY <1>1 DEF HeapInv, HeapAt
    <2>2. taken \in unreadable => ~Readable(content)
      BY <1>1 DEF AnswersInv, ReadableInHand
    <2>3. taken \in unreadable => body = "body" /\ doc = "body"
      BY <1>3, <2>1, <2>2 DEF Valid, Text, Readable
    <2> QED BY <1>1, <2>3 DEF InPlainText
  <1>7. InPlainText = {}
    BY <1>1 DEF InPlainText
  <1>8. AnsweredInTurn'
    BY <1>2, <1>5, <1>6, <1>7 DEF AnswersInv, AnsweredInTurn, AnswerCall
  <1>9. Readable(content)' = Readable(content)
    BY <1>1 DEF Readable
  <1>10. ReadableInHand'
    BY <1>1, <1>9 DEF AnswersInv, ReadableInHand, Decoded
  <1> QED BY <1>8, <1>10 DEF AnswersInv

(* A message in plain text is freed twice; after any other only those      *)
(* calls have been answered that are due.                                  *)
LEMMA AnswersCleanUp ==
  ASSUME ProtocolInv, AnswersInv, error = NULL, CleanUp
  PROVE  AnswersInv'
  <1> DEFINE blocks == <<IF brpc = NULL THEN NULL ELSE "brpc", doc, "headers",
                         body, "bm", "combined", "buffer", "rcl">>
  <1>1. /\ stage = "clean" /\ stage' = "idle"
        /\ Free(blocks)
        /\ UNCHANGED <<taken, wire, socket, answered, unreadable>>
    BY DEF CleanUp, histories
  <1>2. /\ DOMAIN blocks = 1..8
        /\ blocks[2] = doc /\ blocks[4] = body
    OBVIOUS
  <1> HIDE DEF blocks
  <1>3. CASE body = "body" /\ doc = "body"
    <2>1. blocks[4] # NULL
      BY <1>2, <1>3, DispatchAssumption DEF Names, Blocks
    <2>2. 4 \in DOMAIN blocks /\ 2 \in 1..(4 - 1) /\ blocks[2] = blocks[4]
      BY <1>2, <1>3
    <2>3. error' # NULL
      BY <1>1, <2>1, <2>2, DispatchAssumption DEF Free, Names
    <2> QED BY <1>1, <2>3 DEF AnswersInv, AnsweredInTurn, ReadableInHand, Decoded
  <1>4. CASE ~(body = "body" /\ doc = "body")
    <2>1. Due' = Due
      BY <1>1, DueKept DEF Over
    <2>2. InPlainText = {}
      BY <1>4 DEF InPlainText
    <2>3. ReadableInHand'
      BY <1>1 DEF ReadableInHand, Decoded
    <2> QED BY <1>1, <2>1, <2>2, <2>3 DEF AnswersInv, AnsweredInTurn
  <1> QED BY <1>3, <1>4

-----------------------------------------------------------------------------
(* Every step keeps both sides' view of the calls.                         *)
LEMMA AnswersStep ==
  ASSUME ProtocolInv, HeapInv, AnswersInv, [DispatchNext]_vars
  PROVE  AnswersInv'
  <1>1. CASE UNCHANGED vars
    <2>1. UNCHANGED <<taken, wire, socket, stage, content, uuid, body, doc,
                      brpc, error, answered, unreadable>>
      BY <1>1 DEF vars, local, histories
    <2>2. Due' = Due /\ InPlainText' = InPlainText
            /\ Readable(content)' = Readable(content)
      BY <2>1 DEF Due, HadTurn, InPlainText, Readable
    <2> QED
      BY <2>1, <2>2 DEF AnswersInv, ReadableInHand, AnsweredInTurn
  <1>2. CASE DispatchNext /\ CopyFails
    <2>1. UNCHANGED <<taken, wire, socket, stage, content, uuid, body, doc,
                      brpc, answered, unreadable>>
      BY <1>2 DEF CopyFails, local, histories
    <2>2. error = NULL /\ error' # NULL
      BY <1>2, DispatchAssumption DEF DispatchNext, CopyFails, Names
    <2>3. Readable(content)' = Readable(content)
      BY <2>1 DEF Readable
    <2> QED
      BY <2>1, <2>2, <2>3 DEF AnswersInv, ReadableInHand, AnsweredInTurn
  <1>3. CASE DispatchNext /\ ~CopyFails
    <2>1. error = NULL
      BY <1>3 DEF DispatchNext
    <2> QED
      BY <1>3, <2>1, AnswersOutside, AnswersTake, AnswersDecode, AnswersIgnore,
        AnswersDispatch, AnswersCall, AnswersCleanUp
      DEF DispatchNext, Callback
  <1> QED BY <1>1, <1>2, <1>3

(* The calls that could be read have been answered, each before the next   *)
(* message is taken, for any messages between them.                        *)
THEOREM EveryCallAnswered == DispatchSpec => []CallsAnswered
  <1>1. DispatchInit => AnswersInv
    <2> SUFFICES ASSUME DispatchInit PROVE AnswersInv
      OBVIOUS
    <2>1. stage = "idle" /\ taken = 0 /\ answered = {}
      BY DEF DispatchInit
    <2>2. Due = {}
      BY <2>1 DEF Due
    <2> QED
      BY <2>1, <2>2 DEF AnswersInv, ReadableInHand, AnsweredInTurn, Decoded
  <1>2. ProtocolInv /\ HeapInv /\ AnswersInv /\ [DispatchNext]_vars => AnswersInv'
    BY AnswersStep
  <1>3. AnswersInv => CallsAnswered
    <2> SUFFICES ASSUME AnswersInv, stage = "idle", socket = "open", error = NULL
                 PROVE  answered = {wire[i].uuid : i \in {j \in 1..taken :
                          wire[j].kind = "call" /\ j \notin unreadable}}
      BY DEF CallsAnswered
    <2>1. answered = Due
      BY DEF AnswersInv, AnsweredInTurn, InPlainText
    <2> QED BY <2>1 DEF Due, HadTurn
  <1> QED BY <1>1, <1>2, <1>3, DispatchInvariant, PTL DEF DispatchSpec
=============================================================================
