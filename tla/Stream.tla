------------------------------- MODULE Stream -------------------------------
(***************************************************************************)
(* The framed stream between the client and the server (libcmf, and        *)
(* libballyhoo's input callback and writing functions).                    *)
(*                                                                         *)
(* In: the server's frames are bytes in a stream; the socket gives any     *)
(* part of them at a time.  The input callback appends what it reads to    *)
(* inbuf, decodes the frames that are complete, and keeps the frames of    *)
(* each message until the last of them arrives.  A frame stands for its    *)
(* header and payload; it is named by its offset in the stream.            *)
(*                                                                         *)
(* Out: a message is split into chunks that are written one by one.        *)
(*                                                                         *)
(* A handler of a message may write; when that fails the socket is closed  *)
(* under the callback.  libpurple keeps the first error it is told.        *)
(***************************************************************************)
EXTENDS Integers, Sequences

CONSTANTS
  Header,     \* bytes of a frame before its payload
  ChunkSize,  \* LIBCMF_CHUNK_SIZE
  InbufLen,   \* inbuf_len
  Ids,        \* the ids of the server's messages
  NULL,       \* none of them
  Sizes,      \* the payloads of the server's frames
  Lengths,    \* of the messages the client sends
  MaxFrames,  \* bound on the server's frames
  MaxSends    \* bound on the client's messages

ASSUME StreamAssumption ==
  /\ Header \in Nat \ {0}
  /\ ChunkSize \in Nat \ {0}
  /\ InbufLen \in Nat /\ InbufLen > Header + 1
  /\ NULL \notin Ids
  /\ Sizes \subseteq Nat
  /\ Lengths \subseteq Nat \ {0}
  /\ MaxFrames \in Nat /\ MaxSends \in Nat

VARIABLES
  sent,            \* the frames the server has sent
  open,            \* the server's unfinished messages, by id
  completed,       \* the messages it has finished: their frames
  written,         \* bytes it has written
  start,           \* where in the stream inbuf begins
  inbuf_used,
  decoded_chunks,  \* the frames of unfinished messages, by id
  delivered,       \* the messages given to librcl_decode
  pc,              \* of the input callback
  gsc,             \* the socket is not closed
  error,           \* the error libpurple was told first
  cmf_index,       \* _cmf_static_index
  wrote            \* the chunks that the client has written

servervars == <<sent, open, completed, written>>
readvars == <<start, inbuf_used, decoded_chunks, delivered>>
writevars == <<cmf_index, wrote>>
svars == <<servervars, readvars, pc, gsc, error, writevars>>

Errors == {"none", "space", "lost", "disconnected"}

STypeOK ==
  /\ sent \in Seq([at : Nat, id : Ids \cup {NULL}, size : Nat, end : BOOLEAN,
                   ok : BOOLEAN])
  /\ open \in [Ids -> Seq(Nat)]
  /\ completed \in Seq(Seq(Nat))
  /\ written \in Nat
  /\ start \in Nat
  /\ inbuf_used \in 0..(InbufLen - 1)
  /\ start + inbuf_used <= written
  /\ decoded_chunks \in [Ids -> Seq(Nat)]
  /\ delivered \in Seq(Seq(Nat))
  /\ pc \in {"idle", "read", "decode", "handle"}
  /\ gsc \in BOOLEAN
  /\ error \in Errors
  /\ cmf_index \in Nat
  /\ wrote \in Seq([id : Nat, begin : BOOLEAN, end : BOOLEAN, offset : Nat,
                    size : Nat, length : Nat])

SInit ==
  /\ sent = <<>> /\ open = [id \in Ids |-> <<>>] /\ completed = <<>>
  /\ written = 0
  /\ start = 0 /\ inbuf_used = 0
  /\ decoded_chunks = [id \in Ids |-> <<>>] /\ delivered = <<>>
  /\ pc = "idle" /\ gsc = TRUE /\ error = "none"
  /\ cmf_index = 1 /\ wrote = <<>>

-----------------------------------------------------------------------------
(* The server sends a frame of a message.                                  *)
ServerSends(id, size, end) ==
  /\ Len(sent) < MaxFrames
  /\ sent' = Append(sent, [at |-> written, id |-> id, size |-> size,
                           end |-> end, ok |-> TRUE])
  /\ written' = written + Header + size
  /\ IF end
     THEN /\ completed' = Append(completed, Append(open[id], written))
          /\ open' = [open EXCEPT ![id] = <<>>]
     ELSE /\ open' = [open EXCEPT ![id] = Append(@, written)]
          /\ UNCHANGED completed
  /\ UNCHANGED <<readvars, pc, gsc, error, writevars>>

(* Or one whose header is malformed (its first bit is set), which has no   *)
(* id, size or end.                                                        *)
ServerSendsMalformed ==
  /\ Len(sent) < MaxFrames
  /\ sent' = Append(sent, [at |-> written, id |-> NULL, size |-> 0,
                           end |-> TRUE, ok |-> FALSE])
  /\ written' = written + Header
  /\ UNCHANGED <<open, completed, readvars, pc, gsc, error,
                 writevars>>

-----------------------------------------------------------------------------
Tell(reason) == error' = IF error = "none" THEN reason ELSE error

(* libpurple calls the input callback when there is something to read; it  *)
(* returns at once when the socket is closed.                              *)
Input ==
  /\ pc = "idle"
  /\ gsc
  /\ start + inbuf_used < written
  /\ pc' = "read"
  /\ UNCHANGED <<servervars, readvars, gsc, error, writevars>>

(* Mutant: two bytes of inbuf are spared.                                  *)
RemainingLess == InbufLen - inbuf_used - 2

Remaining == InbufLen - inbuf_used - 1

OutOfSpace ==
  /\ pc = "read"
  /\ Remaining <= 0
  /\ Tell("space")
  /\ pc' = "idle"
  /\ UNCHANGED <<servervars, readvars, gsc, writevars>>

(* purple_ssl_read returns some of the bytes, which have arrived.          *)
Read ==
  /\ pc = "read"
  /\ gsc
  /\ \E len \in 1..Remaining :
       /\ start + inbuf_used + len <= written
       /\ inbuf_used' = inbuf_used + len
  /\ pc' = "decode"
  /\ UNCHANGED <<servervars, start, decoded_chunks, delivered, gsc,
                 error, writevars>>

(* EAGAIN: the others have not.                                            *)
WouldBlock ==
  /\ pc = "read"
  /\ Remaining > 0
  /\ gsc
  /\ pc' = "idle"
  /\ UNCHANGED <<servervars, readvars, gsc, error, writevars>>

(* The socket fails or ends, or a handler has closed it (purple_ssl_read   *)
(* of NULL is 0).                                                          *)
LostConnection ==
  /\ pc = "read"
  /\ Remaining > 0
  /\ Tell("lost")
  /\ gsc' = FALSE
  /\ pc' = "idle"
  /\ UNCHANGED <<servervars, readvars, writevars>>

(* libcmf_decode returns 1: the header at the start of inbuf is complete   *)
(* and well-formed, and so is the payload.                                 *)
(* Mutant: the bytes of the header are not counted.                        *)
PayloadOnly(frame) ==
  frame.at = start /\ frame.ok /\ inbuf_used >= frame.size

Complete(frame) ==
  frame.at = start /\ frame.ok /\ inbuf_used >= Header + frame.size

(* The frame is removed from inbuf.                                        *)
(* Mutant: without its header.                                             *)
RemovedPayload(frame) ==
  /\ start' = start + frame.size
  /\ inbuf_used' = inbuf_used - frame.size

Removed(frame) ==
  /\ start' = start + Header + frame.size
  /\ inbuf_used' = inbuf_used - (Header + frame.size)

(* A frame that is not the last of its message is kept.                    *)
DecodeChunk(frame) ==
  /\ pc = "decode"
  /\ Complete(frame)
  /\ ~frame.end
  /\ Removed(frame)
  /\ decoded_chunks' = [decoded_chunks EXCEPT ![frame.id] = Append(@, start)]
  /\ UNCHANGED <<servervars, delivered, pc, gsc, error, writevars>>

(* The last one: the message is put together, given to librcl_decode and   *)
(* handled.                                                                *)
(* Mutant: the frames are kept.                                            *)
KeepFrames(frame) ==
  /\ pc = "decode"
  /\ Complete(frame)
  /\ frame.end
  /\ Removed(frame)
  /\ delivered' = Append(delivered, Append(decoded_chunks[frame.id], start))
  /\ pc' = "handle"
  /\ UNCHANGED <<servervars, decoded_chunks, gsc, error, writevars>>

DecodeEnd(frame) ==
  /\ pc = "decode"
  /\ Complete(frame)
  /\ frame.end
  /\ Removed(frame)
  /\ delivered' = Append(delivered, Append(decoded_chunks[frame.id], start))
  /\ decoded_chunks' = [decoded_chunks EXCEPT ![frame.id] = <<>>]
  /\ pc' = "handle"
  /\ UNCHANGED <<servervars, gsc, error, writevars>>

(* Nothing in inbuf can be decoded: back to reading.                       *)
(* Mutant: cont is not cleared.                                            *)
TryAgain ==
  /\ pc = "decode"
  /\ \A i \in DOMAIN sent : ~Complete(sent[i])
  /\ pc' = IF inbuf_used > 0 THEN "decode" ELSE "read"
  /\ UNCHANGED <<servervars, readvars, gsc, error, writevars>>

UnableToDecode ==
  /\ pc = "decode"
  /\ \A i \in DOMAIN sent : ~Complete(sent[i])
  /\ pc' = "read"
  /\ UNCHANGED <<servervars, readvars, gsc, error, writevars>>

HandlerReturns ==
  /\ pc = "handle"
  /\ pc' = "decode"
  /\ UNCHANGED <<servervars, readvars, gsc, error, writevars>>

-----------------------------------------------------------------------------
(* The chunks of a message: libcmf_encode_priority's loop.  The last byte  *)
(* of the data is not part of them.                                        *)
Smaller(a, b) == IF a <= b THEN a ELSE b

(* Mutant: the last chunk of a whole number of chunks is not the end.      *)
EndsLate(length, id) ==
  [k \in 1..((length + ChunkSize - 1) \div ChunkSize) |->
     LET i == (k - 1) * ChunkSize IN
       [id |-> id, begin |-> i = 0, end |-> i + ChunkSize > length,
        offset |-> i, size |-> Smaller(length - i - 1, ChunkSize),
        length |-> length]]

Encode(length, id) ==
  [k \in 1..((length + ChunkSize - 1) \div ChunkSize) |->
     LET i == (k - 1) * ChunkSize IN
       [id |-> id, begin |-> i = 0, end |-> i + ChunkSize >= length,
        offset |-> i, size |-> Smaller(length - i - 1, ChunkSize),
        length |-> length]]

(* libballyhoo_send_chunks: the chunks are written one by one; when one    *)
(* cannot be, the socket is closed.  By the user, a timer or a handler.    *)
Send(length) ==
  /\ pc \in {"idle", "handle"}
  /\ cmf_index <= MaxSends
  /\ cmf_index' = cmf_index + 1
  /\ LET chunks == Encode(length, cmf_index) IN
       \/ /\ gsc
          /\ wrote' = wrote \o chunks
          /\ UNCHANGED <<gsc, error>>
       \/ /\ \E n \in 0..(IF gsc THEN Len(chunks) - 1 ELSE 0) :
               wrote' = wrote \o SubSeq(chunks, 1, n)
          /\ Tell("disconnected")
          /\ gsc' = FALSE
  /\ UNCHANGED <<servervars, readvars, pc>>

-----------------------------------------------------------------------------
Callback ==
  \/ Input \/ OutOfSpace \/ Read \/ WouldBlock
  \/ \E i \in DOMAIN sent : DecodeChunk(sent[i]) \/ DecodeEnd(sent[i])
  \/ UnableToDecode \/ HandlerReturns

SNext ==
  \/ \E id \in Ids, size \in Sizes, end \in BOOLEAN :
       ServerSends(id, size, end)
  \/ ServerSendsMalformed
  \/ Callback
  \/ LostConnection
  \/ \E length \in Lengths : Send(length)

SSpec == SInit /\ [][SNext]_svars

(* libpurple calls back, the callback's code goes on, and bytes arrive: a  *)
(* read that is repeated while there are some gets some.                   *)
SFairSpec ==
  SSpec /\ WF_svars(Callback \/ LostConnection) /\ SF_svars(Read)

-----------------------------------------------------------------------------
(* The messages that the callback puts together are those the server       *)
(* completed, whole and in order, however their frames are interleaved and *)
(* wherever the reads cut them.                                            *)
InChannel == INSTANCE Channel WITH
  completed <- completed, delivered <- delivered
DeliversInOrder == InChannel!Spec

(* inbuf always begins with the header of a frame: decoding never takes    *)
(* payload for a header, and never loses its place.                        *)
FrameInSync ==
  start # written => \E i \in DOMAIN sent : sent[i].at = start

(* The callback runs out of space only before a frame that cannot be       *)
(* decoded at all: one that is malformed or does not fit into inbuf.       *)
SpaceForFrames ==
  error = "space" =>
    \E i \in DOMAIN sent :
      /\ sent[i].at = start
      /\ ~sent[i].ok \/ Header + sent[i].size > InbufLen - 1

(* What the client has written is whole messages, the chunks of each one   *)
(* in order, complete and marked as its begin and end; only the message    *)
(* whose writing closed the socket is cut short.                           *)
WritesWhole ==
  \A k \in DOMAIN wrote :
    LET c == wrote[k] IN
      /\ c.size <= ChunkSize
      /\ c.begin <=> c.offset = 0
      /\ c.end <=> c.offset + c.size = c.length - 1 /\ c.size < ChunkSize
      /\ IF k = 1 THEN c.begin
         ELSE LET b == wrote[k - 1] IN
           IF b.end THEN c.begin /\ c.id > b.id
           ELSE /\ c.id = b.id /\ c.length = b.length
                /\ c.offset = b.offset + b.size
      /\ k = Len(wrote) /\ gsc => c.end

(* A message that the server has completed is delivered, unless the        *)
(* connection fails or a frame before its end cannot be decoded.           *)
MessagesDelivered ==
  \A k \in 1..MaxFrames :
    (Len(completed) >= k) ~>
      \/ Len(delivered) >= k
      \/ error # "none"
      \/ \E i \in DOMAIN sent :
           /\ Len(completed) >= k
           /\ sent[i].at <= completed[k][Len(completed[k])]
           /\ ~sent[i].ok \/ Header + sent[i].size > InbufLen - 1
=============================================================================
