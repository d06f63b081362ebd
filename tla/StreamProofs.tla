---------------------------- MODULE StreamProofs ----------------------------
(***************************************************************************)
(* The framed stream for frames, messages and buffers of any size.         *)
(***************************************************************************)
EXTENDS Stream, TLAPS

Frame == [at : Nat, id : Ids \cup {NULL}, size : Nat, end : BOOLEAN,
          ok : BOOLEAN]
Chunk == [id : Nat, begin : BOOLEAN, end : BOOLEAN, offset : Nat,
          size : Nat, length : Nat]

(* Where in the stream a frame ends.                                       *)
End(frame) == frame.at + Header + frame.size

(* The server's frames are one after the other, without a gap, up to what  *)
(* it has written; those with an id are well-formed.                       *)
Laid ==
  /\ \A i \in DOMAIN sent :
       /\ sent[i].ok => sent[i].id \in Ids
       /\ End(sent[i]) <= written
       /\ End(sent[i]) # written => \E j \in DOMAIN sent : sent[j].at = End(sent[i])
  /\ \A i, j \in DOMAIN sent : i < j => End(sent[i]) <= sent[j].at

(* The callback reads only when it has decoded what it can.                *)
CaughtUp == pc \in {"idle", "read"} => \A i \in DOMAIN sent : ~Complete(sent[i])

(* The ids of the chunks that are written have been used.                  *)
IdsUsed == \A k \in DOMAIN wrote : wrote[k].id < cmf_index

InInv == STypeOK /\ Laid /\ FrameInSync /\ CaughtUp /\ SpaceForFrames
OutInv == IdsUsed /\ WritesWhole

-----------------------------------------------------------------------------
(* The chunks of a message begin inside it.                                *)
LEMMA ChunkInside ==
  ASSUME NEW length \in Nat \ {0}, NEW C \in Nat \ {0},
         NEW k \in 1..((length + C - 1) \div C)
  PROVE  (k - 1) * C < length
  OBVIOUS

(* A chunk is the last one just when no more of the message is left.       *)
LEMMA LastChunk ==
  ASSUME NEW length \in Nat \ {0}, NEW C \in Nat \ {0},
         NEW k \in 1..((length + C - 1) \div C)
  PROVE  (k - 1) * C + C >= length <=> k = (length + C - 1) \div C
  OBVIOUS

(* A message has a chunk.                                                  *)
LEMMA SomeChunk ==
  ASSUME NEW length \in Nat \ {0}, NEW C \in Nat \ {0}
  PROVE  (length + C - 1) \div C \in Nat \ {0}
  OBVIOUS

(* The chunks are those of the whole message: what WritesWhole asks.       *)
WholeMessage(chunks, length, id) ==
  /\ chunks \in Seq(Chunk)
  /\ Len(chunks) \in Nat \ {0}
  /\ \A k \in 1..Len(chunks) :
       /\ chunks[k].id = id /\ chunks[k].length = length
       /\ chunks[k].size <= ChunkSize
       /\ chunks[k].begin <=> chunks[k].offset = 0
       /\ chunks[k].begin <=> k = 1
       /\ chunks[k].end <=> /\ chunks[k].offset + chunks[k].size = length - 1
                            /\ chunks[k].size < ChunkSize
       /\ chunks[k].end <=> k = Len(chunks)
       /\ k > 1 =>
            chunks[k].offset = chunks[k - 1].offset + chunks[k - 1].size

(* Encode makes the chunks of the whole message.                           *)
LEMMA EncodeWhole ==
  ASSUME NEW length \in Nat \ {0}, NEW id \in Nat
  PROVE  WholeMessage(Encode(length, id), length, id)
  <1> SUFFICES ASSUME NEW chunks, chunks = Encode(length, id)
               PROVE  WholeMessage(chunks, length, id)
    OBVIOUS
  <1> DEFINE n == (length + ChunkSize - 1) \div ChunkSize
  <1> DEFINE At(k) == (k - 1) * ChunkSize
  <1> USE StreamAssumption
  <1>1. n \in Nat \ {0}
    BY SomeChunk
  <1>3. chunks = [k \in 1..n |-> chunks[k]]
    BY DEF Encode
  <1>4. \A k \in 1..n : At(k) \in Nat /\ At(k) < length
    BY ChunkInside
  <1>5. \A k \in 1..n : At(k) + ChunkSize >= length <=> k = n
    BY LastChunk
  <1>6. \A k \in 1..n : At(k) = 0 <=> k = 1
    BY <1>1
  <1>7. \A k \in 1..n : k > 1 => At(k) = At(k - 1) + ChunkSize
    BY <1>1
  <1>2. ASSUME NEW k \in 1..n
        PROVE  /\ chunks[k].id = id /\ chunks[k].length = length
               /\ chunks[k].begin <=> At(k) = 0
               /\ chunks[k].end <=> At(k) + ChunkSize >= length
               /\ chunks[k].offset = At(k)
               /\ chunks[k].size = Smaller(length - At(k) - 1, ChunkSize)
               /\ chunks[k] \in Chunk
    <2>1. chunks[k] = [id |-> id, begin |-> At(k) = 0,
                       end |-> At(k) + ChunkSize >= length,
                       offset |-> At(k),
                       size |-> Smaller(length - At(k) - 1, ChunkSize),
                       length |-> length]
      BY DEF Encode
    <2>2. At(k) \in Nat /\ At(k) < length
      BY <1>4
    <2> HIDE DEF At
    <2>3. Smaller(length - At(k) - 1, ChunkSize) \in Nat
      BY <2>2 DEF Smaller
    <2> DEFINE begin == At(k) = 0
    <2> DEFINE end == At(k) + ChunkSize >= length
    <2> DEFINE size == Smaller(length - At(k) - 1, ChunkSize)
    <2>4. begin \in BOOLEAN /\ end \in BOOLEAN /\ size \in Nat
      BY <2>3
    <2>5. chunks[k] = [id |-> id, begin |-> begin, end |-> end,
                       offset |-> At(k), size |-> size, length |-> length]
      BY <2>1
    <2> HIDE DEF begin, end, size
    <2>6. chunks[k] \in Chunk
      BY <2>2, <2>4, <2>5 DEF Chunk
    <2>7. /\ chunks[k].id = id /\ chunks[k].length = length
          /\ chunks[k].begin = begin /\ chunks[k].end = end
          /\ chunks[k].offset = At(k) /\ chunks[k].size = size
      BY <2>5
    <2> QED
      BY <2>6, <2>7 DEF begin, end, size
  <1> HIDE DEF n, At
  <1>9. chunks \in Seq(Chunk) /\ Len(chunks) = n
    BY <1>1, <1>2, <1>3
  <1>10. ASSUME NEW k \in 1..n
         PROVE  /\ chunks[k].id = id /\ chunks[k].length = length
                /\ chunks[k].size <= ChunkSize
                /\ chunks[k].begin <=> chunks[k].offset = 0
                /\ chunks[k].begin <=> k = 1
                /\ chunks[k].end <=>
                     /\ chunks[k].offset + chunks[k].size = length - 1
                     /\ chunks[k].size < ChunkSize
                /\ chunks[k].end <=> k = n
                /\ k > 1 =>
                     chunks[k].offset = chunks[k - 1].offset + chunks[k - 1].size
    <2>1. At(k) \in Nat /\ At(k) < length
      BY <1>4
    <2>2. /\ chunks[k].id = id /\ chunks[k].length = length
          /\ chunks[k].size <= ChunkSize
          /\ chunks[k].begin <=> chunks[k].offset = 0
          /\ chunks[k].begin <=> k = 1
          /\ chunks[k].end <=>
               /\ chunks[k].offset + chunks[k].size = length - 1
               /\ chunks[k].size < ChunkSize
          /\ chunks[k].end <=> k = n
      BY <2>1, <1>2, <1>5, <1>6 DEF Smaller
    <2>3. ASSUME k > 1
          PROVE  chunks[k].offset = chunks[k - 1].offset + chunks[k - 1].size
      <3> DEFINE j == k - 1
      <3>1. j \in 1..n /\ j # n
        BY <2>3, <1>1
      <3>2. At(k) = At(j) + ChunkSize
        BY <2>3, <1>7
      <3> HIDE DEF j
      <3>3. At(j) \in Nat /\ At(j) + ChunkSize < length
        BY <3>1, <1>4, <1>5
      <3>4. chunks[j].offset = At(j) /\ chunks[j].size = ChunkSize
        BY <3>1, <3>3, <1>2 DEF Smaller
      <3>5. chunks[k].offset = chunks[j].offset + chunks[j].size
        BY <3>2, <3>4, <1>2
      <3> QED
        BY <3>5 DEF j
    <2> QED
      BY <2>2, <2>3
  <1> QED
    BY <1>1, <1>9, <1>10 DEF WholeMessage

-----------------------------------------------------------------------------
(* Appending to a sequence.                                                *)
LEMMA AppendType ==
  ASSUME NEW S, NEW q \in Seq(S), NEW x \in S
  PROVE  Append(q, x) \in Seq(S)
  OBVIOUS

(* The places of a sequence with one more.                                 *)
LEMMA AppendProperties ==
  ASSUME NEW S, NEW q \in Seq(S), NEW x \in S
  PROVE  /\ Len(q) \in Nat /\ DOMAIN q = 1..Len(q)
         /\ DOMAIN Append(q, x) = 1..(Len(q) + 1)
         /\ \A i \in 1..Len(q) : Append(q, x)[i] = q[i]
         /\ Append(q, x)[Len(q) + 1] = x
  OBVIOUS

(* Updating a function.                                                    *)
LEMMA ExceptType ==
  ASSUME NEW S, NEW T, NEW f \in [S -> T], NEW x, NEW t \in T
  PROVE  [f EXCEPT ![x] = t] \in [S -> T]
  OBVIOUS

(* The initial state is well-typed.                                        *)
LEMMA TypeInit == SInit => STypeOK
  BY StreamAssumption DEF SInit, STypeOK, Errors

(* The error told first is an error.                                       *)
LEMMA TypeTell ==
  ASSUME STypeOK, NEW reason \in Errors, Tell(reason)
  PROVE  error' \in Errors
  BY DEF STypeOK, Tell

(* A message is written whole, or some first chunks of it and the socket   *)
(* is closed.                                                              *)
LEMMA SendWrites ==
  ASSUME STypeOK, NEW length \in Lengths, Send(length)
  PROVE  /\ \E n \in 0..Len(Encode(length, cmf_index)) :
              /\ wrote' = wrote \o SubSeq(Encode(length, cmf_index), 1, n)
              /\ n # 0 => gsc
              /\ gsc' => gsc /\ n = Len(Encode(length, cmf_index))
         /\ wrote' \in Seq(Chunk)
         /\ gsc' \in BOOLEAN
         /\ error' \in Errors
  <1> USE StreamAssumption
  <1>1. length \in Nat \ {0} /\ cmf_index \in Nat /\ gsc \in BOOLEAN
        /\ wrote \in Seq(Chunk)
    BY DEF STypeOK, Chunk
  <1>2. PICK chunks : chunks = Encode(length, cmf_index)
    OBVIOUS
  <1>3. chunks \in Seq(Chunk) /\ Len(chunks) \in Nat \ {0}
    BY <1>1, <1>2, EncodeWhole DEF WholeMessage
  <1>4. CASE gsc /\ wrote' = wrote \o chunks /\ UNCHANGED <<gsc, error>>
    <2>1. SubSeq(chunks, 1, Len(chunks)) = chunks
      BY <1>3
    <2>2. wrote' \in Seq(Chunk)
      BY <1>1, <1>3, <1>4
    <2>3. gsc' \in BOOLEAN /\ error' \in Errors
      BY <1>1, <1>4 DEF STypeOK
    <2>4. Len(chunks) \in 0..Len(chunks)
      BY <1>3
    <2> QED
      BY <1>2, <1>4, <2>1, <2>2, <2>3, <2>4
  <1>5. ASSUME NEW n \in 0..(IF gsc THEN Len(chunks) - 1 ELSE 0),
               wrote' = wrote \o SubSeq(chunks, 1, n),
               Tell("disconnected"), gsc' = FALSE
        PROVE  /\ n \in 0..Len(chunks)
               /\ n # 0 => gsc
               /\ wrote' \in Seq(Chunk)
               /\ error' \in Errors
    <2>1. n \in 0..Len(chunks) /\ (n # 0 => gsc)
      BY <1>3, <1>5
    <2>2. SubSeq(chunks, 1, n) \in Seq(Chunk)
      BY <1>3, <2>1
    <2>3. wrote' \in Seq(Chunk)
      BY <1>1, <1>5, <2>2
    <2>4. error' \in Errors
      BY <1>5, TypeTell DEF Errors
    <2> QED
      BY <2>1, <2>3, <2>4
  <1> QED
    BY <1>2, <1>4, <1>5 DEF Send

(* A step preserves the types; the decoded frame has an id.                *)
LEMMA TypeNext == STypeOK /\ Laid /\ [SNext]_svars => STypeOK'
  <1> SUFFICES ASSUME STypeOK, Laid, [SNext]_svars
               PROVE  STypeOK'
    OBVIOUS
  <1> USE StreamAssumption
  <1>1. ASSUME NEW id \in Ids, NEW size \in Sizes, NEW end \in BOOLEAN,
               ServerSends(id, size, end)
        PROVE  STypeOK'
    <2>1. /\ sent' \in Seq(Frame)
          /\ written' \in Nat /\ start + inbuf_used <= written'
      BY <1>1 DEF ServerSends, STypeOK, Frame
    <2>2. /\ open \in [Ids -> Seq(Nat)] /\ completed \in Seq(Seq(Nat))
          /\ written \in Nat
      BY DEF STypeOK
    <2>3. PICK q \in Seq(Nat) : q = Append(open[id], written)
      BY <2>2, AppendType
    <2>4. <<>> \in Seq(Nat)
      OBVIOUS
    <2>5. completed' = completed \/ completed' = Append(completed, q)
      BY <1>1, <2>3 DEF ServerSends
    <2>6. \/ open' = [open EXCEPT ![id] = <<>>]
          \/ open' = [open EXCEPT ![id] = q]
      BY <1>1, <2>3 DEF ServerSends
    <2>7. open' \in [Ids -> Seq(Nat)] /\ completed' \in Seq(Seq(Nat))
      BY <2>2, <2>4, <2>5, <2>6, AppendType, ExceptType
    <2> QED
      BY <1>1, <2>1, <2>7
      DEF ServerSends, STypeOK, Frame, readvars, writevars
  <1>2. CASE ServerSendsMalformed
    <2>1. /\ sent' \in Seq(Frame)
          /\ written' \in Nat /\ start + inbuf_used <= written'
      BY <1>2 DEF ServerSendsMalformed, STypeOK, Frame
    <2> QED
      BY <1>2, <2>1
      DEF ServerSendsMalformed, STypeOK, Frame, readvars, writevars
  <1>3. CASE Input \/ WouldBlock \/ UnableToDecode \/ HandlerReturns
    BY <1>3 DEF Input, WouldBlock, UnableToDecode, HandlerReturns, STypeOK,
                servervars, readvars, writevars
  <1>4. CASE OutOfSpace
    BY <1>4, TypeTell DEF OutOfSpace, STypeOK, Errors, servervars, readvars,
                          writevars
  <1>5. CASE Read
    BY <1>5 DEF Read, Remaining, STypeOK, servervars, writevars
  <1>6. CASE LostConnection
    BY <1>6, TypeTell DEF LostConnection, STypeOK, Errors, servervars,
                          readvars, writevars
  <1>7. ASSUME NEW i \in DOMAIN sent, DecodeChunk(sent[i]) \/ DecodeEnd(sent[i])
        PROVE  STypeOK'
    <2>1. PICK frame \in Frame : frame = sent[i]
      <3>1. sent \in Seq(Frame) /\ i \in DOMAIN sent
        BY <1>7 DEF STypeOK, Frame
      <3> QED
        BY <3>1
    <2>2. /\ Complete(frame) /\ Removed(frame)
          /\ UNCHANGED <<servervars, gsc, error, writevars>>
          /\ pc' = pc \/ pc' = "handle"
      BY <1>7, <2>1 DEF DecodeChunk, DecodeEnd
    <2>3. frame.id \in Ids /\ frame.size \in Nat
      BY <2>1, <2>2 DEF Complete, Laid, Frame
    <2>4. /\ start' \in Nat /\ inbuf_used' \in 0..(InbufLen - 1)
          /\ start' + inbuf_used' = start + inbuf_used
      <3>1. /\ start \in Nat /\ inbuf_used \in 0..(InbufLen - 1)
        BY DEF STypeOK
      <3>2. inbuf_used >= Header + frame.size
        BY <2>2 DEF Complete
      <3> QED
        BY <3>1, <3>2, <2>2, <2>3 DEF Removed
    <2>5. /\ decoded_chunks \in [Ids -> Seq(Nat)] /\ delivered \in Seq(Seq(Nat))
          /\ start \in Nat /\ <<>> \in Seq(Nat)
      BY DEF STypeOK
    <2>6. PICK q \in Seq(Nat) : q = Append(decoded_chunks[frame.id], start)
      BY <2>3, <2>5, AppendType
    <2>7. CASE DecodeChunk(frame)
      <3>1. decoded_chunks' = [decoded_chunks EXCEPT ![frame.id] = q]
        BY <2>6, <2>7 DEF DecodeChunk
      <3>2. decoded_chunks' \in [Ids -> Seq(Nat)] /\ delivered' \in Seq(Seq(Nat))
        BY <3>1, <2>5, <2>7, ExceptType DEF DecodeChunk
      <3> QED
        BY <3>2, <2>2, <2>4 DEF STypeOK, servervars, writevars
    <2>8. CASE DecodeEnd(frame)
      <3>1. /\ delivered' = Append(delivered, q)
            /\ decoded_chunks' = [decoded_chunks EXCEPT ![frame.id] = <<>>]
        BY <2>6, <2>8 DEF DecodeEnd
      <3>2. decoded_chunks' \in [Ids -> Seq(Nat)] /\ delivered' \in Seq(Seq(Nat))
        BY <3>1, <2>5, AppendType, ExceptType
      <3> QED
        BY <3>2, <2>2, <2>4 DEF STypeOK, servervars, writevars
    <2> QED
      BY <1>7, <2>1, <2>7, <2>8
  <1>8. ASSUME NEW length \in Lengths, Send(length)
        PROVE  STypeOK'
    <2>1. wrote' \in Seq(Chunk) /\ gsc' \in BOOLEAN /\ error' \in Errors
      BY <1>8, SendWrites
    <2>2. cmf_index' \in Nat /\ UNCHANGED <<servervars, readvars, pc>>
      BY <1>8 DEF Send, STypeOK
    <2> QED
      BY <2>1, <2>2 DEF STypeOK, Chunk, servervars, readvars
  <1>9. CASE UNCHANGED svars
    BY <1>9 DEF STypeOK, svars, servervars, readvars, writevars
  <1> QED
    BY <1>1, <1>2, <1>3, <1>4, <1>5, <1>6, <1>7, <1>8, <1>9 DEF SNext, Callback

-----------------------------------------------------------------------------
(* The frames of a well-typed state.                                       *)
LEMMA FrameTypes ==
  ASSUME STypeOK, NEW i \in DOMAIN sent
  PROVE  /\ sent[i].at \in Nat /\ sent[i].size \in Nat
         /\ sent[i].ok \in BOOLEAN
         /\ End(sent[i]) \in Nat /\ sent[i].at < End(sent[i])
  <1>1. sent \in Seq(Frame)
    BY DEF STypeOK, Frame
  <1>2. sent[i] \in Frame
    BY <1>1
  <1> QED
    BY <1>2, StreamAssumption DEF Frame, End

(* No two frames begin at the same offset.                                 *)
LEMMA FrameUnique ==
  ASSUME STypeOK, Laid, NEW i \in DOMAIN sent, NEW j \in DOMAIN sent,
         sent[i].at = sent[j].at
  PROVE  i = j
  <1>1. DOMAIN sent = 1..Len(sent) /\ Len(sent) \in Nat
    BY DEF STypeOK
  <1>2. ~(i < j) /\ ~(j < i)
    BY FrameTypes DEF Laid
  <1> QED
    BY <1>1, <1>2

(* The server writes a frame after all the others.                         *)
LEMMA Appended ==
  ASSUME STypeOK, Laid, FrameInSync, NEW frame \in Frame,
         sent' = Append(sent, frame), frame.at = written,
         frame.ok => frame.id \in Ids,
         written' = End(frame), start' = start
  PROVE  Laid' /\ FrameInSync'
  <1> DEFINE n == Len(sent) + 1
  <1>1. /\ n \in Nat /\ DOMAIN sent = 1..(n - 1) /\ DOMAIN sent' = 1..n
        /\ \A i \in DOMAIN sent : sent'[i] = sent[i]
        /\ sent'[n] = frame
    <2>1. sent \in Seq(Frame)
      BY DEF STypeOK, Frame
    <2> QED
      BY <2>1, AppendProperties
  <1> HIDE DEF n
  <1>2. /\ written \in Nat /\ written' \in Nat /\ written < written'
    BY StreamAssumption DEF STypeOK, Frame, End
  <1>3. ASSUME NEW i \in DOMAIN sent'
        PROVE  /\ sent'[i].ok => sent'[i].id \in Ids
               /\ End(sent'[i]) <= written'
               /\ End(sent'[i]) # written' =>
                    \E j \in DOMAIN sent' : sent'[j].at = End(sent'[i])
    <2>1. CASE i = n
      BY <2>1, <1>1, <1>2
    <2>2. CASE i # n
      <3>1. i \in DOMAIN sent /\ sent'[i] = sent[i]
        BY <2>2, <1>1
      <3>2. /\ sent[i].ok => sent[i].id \in Ids
            /\ End(sent[i]) \in Nat /\ End(sent[i]) <= written
            /\ End(sent[i]) # written =>
                 \E j \in DOMAIN sent : sent[j].at = End(sent[i])
        BY <3>1, FrameTypes DEF Laid
      <3>3. CASE End(sent[i]) = written
        BY <3>1, <3>2, <3>3, <1>1, <1>2
      <3>4. CASE End(sent[i]) # written
        BY <3>1, <3>2, <3>4, <1>1, <1>2
      <3> QED
        BY <3>3, <3>4
    <2> QED
      BY <2>1, <2>2
  <1>4. ASSUME NEW i \in DOMAIN sent', NEW j \in DOMAIN sent', i < j
        PROVE  End(sent'[i]) <= sent'[j].at
    <2>1. i \in DOMAIN sent /\ sent'[i] = sent[i] /\ End(sent[i]) <= written
      BY <1>1, <1>4 DEF Laid
    <2>2. CASE j = n
      BY <2>1, <2>2, <1>1
    <2>3. CASE j # n
      BY <2>1, <2>3, <1>1, <1>4 DEF Laid
    <2> QED
      BY <2>2, <2>3
  <1>5. \E i \in DOMAIN sent' : sent'[i].at = start
    <2>1. CASE start = written
      BY <2>1, <1>1
    <2>2. CASE start # written
      BY <2>2, <1>1 DEF FrameInSync
    <2> QED
      BY <2>1, <2>2
  <1> QED
    BY <1>3, <1>4, <1>5 DEF Laid, FrameInSync, End

(* A frame is decoded: the next one begins where it ends.                  *)
LEMMA Advanced ==
  ASSUME STypeOK, Laid, NEW i \in DOMAIN sent, Complete(sent[i]),
         Removed(sent[i]), UNCHANGED <<sent, written, error>>,
         SpaceForFrames
  PROVE  Laid' /\ FrameInSync' /\ SpaceForFrames'
  <1>1. Laid'
    BY DEF Laid, End
  <1>2. start' = End(sent[i]) /\ inbuf_used >= Header + sent[i].size
    BY FrameTypes, StreamAssumption DEF STypeOK, Complete, Removed, End
  <1>3. FrameInSync'
    BY <1>2 DEF Laid, FrameInSync, End
  <1>4. ASSUME NEW j \in DOMAIN sent, sent[j].at = start
        PROVE  ~(~sent[j].ok \/ Header + sent[j].size > InbufLen - 1)
    <2>1. sent[i].at = start /\ sent[i].ok
      BY DEF Complete
    <2>2. j = i
      BY <1>4, <2>1, FrameUnique
    <2> QED
      <3>1. inbuf_used <= InbufLen - 1 /\ inbuf_used \in Nat
        BY StreamAssumption DEF STypeOK
      <3>2. sent[i].size \in Nat
        BY FrameTypes
      <3> QED
        BY <1>2, <2>1, <2>2, <3>1, <3>2, StreamAssumption
  <1>5. error # "space"
    <2> SUFFICES ASSUME error = "space"
                 PROVE  FALSE
      OBVIOUS
    <2>1. PICK j \in DOMAIN sent :
            /\ sent[j].at = start
            /\ ~sent[j].ok \/ Header + sent[j].size > InbufLen - 1
      BY DEF SpaceForFrames
    <2> QED
      BY <2>1, <1>4
  <1> QED
    BY <1>1, <1>3, <1>5 DEF SpaceForFrames

(* A step that neither sends nor decodes a frame, nor runs out of space.   *)
LEMMA Kept ==
  ASSUME Laid, FrameInSync, SpaceForFrames, UNCHANGED <<sent, written, start>>,
         error' = "space" => error = "space"
  PROVE  Laid' /\ FrameInSync' /\ SpaceForFrames'
  BY DEF Laid, FrameInSync, SpaceForFrames, End

(* inbuf is full: of a frame that does not fit.                            *)
LEMMA SpaceNeeded ==
  ASSUME STypeOK, FrameInSync, CaughtUp, OutOfSpace
  PROVE  \E i \in DOMAIN sent :
           /\ sent[i].at = start
           /\ ~sent[i].ok \/ Header + sent[i].size > InbufLen - 1
  <1>1. inbuf_used = InbufLen - 1 /\ inbuf_used > 0 /\ start # written
    BY StreamAssumption DEF OutOfSpace, Remaining, STypeOK
  <1>2. PICK i \in DOMAIN sent : sent[i].at = start
    BY <1>1 DEF FrameInSync
  <1>3. ~Complete(sent[i])
    BY DEF CaughtUp, OutOfSpace
  <1> QED
    BY <1>1, <1>2, <1>3, FrameTypes, StreamAssumption DEF Complete

(* A step preserves CaughtUp.                                              *)
LEMMA CaughtUpNext ==
  STypeOK /\ CaughtUp /\ [SNext]_svars => CaughtUp'
  <1> SUFFICES ASSUME STypeOK, CaughtUp, [SNext]_svars,
                      pc' \in {"idle", "read"},
                      NEW i \in DOMAIN sent', Complete(sent[i])'
               PROVE  FALSE
    BY DEF CaughtUp
  <1>1. ASSUME NEW frame \in Frame, sent' = Append(sent, frame),
               frame.at = written, UNCHANGED <<start, inbuf_used, pc>>
        PROVE  FALSE
    <2>1. sent \in Seq(Frame) /\ written \in Nat
      BY DEF STypeOK, Frame
    <2>2. CASE i \in DOMAIN sent
      <3>1. sent'[i] = sent[i]
        BY <1>1, <2>1, <2>2, AppendProperties
      <3> QED
        BY <1>1, <2>2, <3>1 DEF CaughtUp, Complete
    <2>3. CASE i \notin DOMAIN sent
      <3>1. sent'[i] = frame
        BY <1>1, <2>1, <2>3, AppendProperties
      <3>2. inbuf_used >= Header + frame.size /\ start = written
        BY <1>1, <3>1 DEF Complete
      <3>3. frame.size \in Nat
        BY DEF Frame
      <3> QED
        BY <3>2, <3>3, StreamAssumption DEF STypeOK
    <2> QED
      BY <2>2, <2>3
  <1>2. CASE /\ pc \in {"idle", "read"}
             /\ UNCHANGED <<sent, start, inbuf_used>>
    BY <1>2 DEF CaughtUp, Complete
  <1>3. ASSUME NEW id \in Ids, NEW size \in Sizes, NEW end \in BOOLEAN,
               ServerSends(id, size, end)
        PROVE  FALSE
    <2> DEFINE frame == [at |-> written, id |-> id, size |-> size,
                         end |-> end, ok |-> TRUE]
    <2>1. frame \in Frame /\ frame.at = written
      BY <1>3, StreamAssumption DEF STypeOK, Frame
    <2>2. sent' = Append(sent, frame) /\ UNCHANGED <<start, inbuf_used, pc>>
      BY <1>3 DEF ServerSends, readvars
    <2> HIDE DEF frame
    <2> QED
      BY <2>1, <2>2, <1>1
  <1>4. CASE ServerSendsMalformed
    <2> DEFINE frame == [at |-> written, id |-> NULL, size |-> 0,
                         end |-> TRUE, ok |-> FALSE]
    <2>1. frame \in Frame /\ frame.at = written
      BY DEF STypeOK, Frame
    <2>2. sent' = Append(sent, frame) /\ UNCHANGED <<start, inbuf_used, pc>>
      BY <1>4 DEF ServerSendsMalformed, readvars
    <2> HIDE DEF frame
    <2> QED
      BY <2>1, <2>2, <1>1
  <1>5. CASE Input \/ OutOfSpace \/ WouldBlock \/ LostConnection
    BY <1>2, <1>5 DEF Input, OutOfSpace, WouldBlock, LostConnection,
                      servervars, readvars
  <1>6. CASE Read \/ HandlerReturns
    BY <1>6 DEF Read, HandlerReturns
  <1>7. CASE UnableToDecode
    BY <1>7 DEF UnableToDecode, Complete, servervars, readvars
  <1>8. ASSUME NEW j \in DOMAIN sent, DecodeChunk(sent[j]) \/ DecodeEnd(sent[j])
        PROVE  FALSE
    BY <1>8 DEF DecodeChunk, DecodeEnd
  <1>9. ASSUME NEW length \in Lengths, Send(length)
        PROVE  FALSE
    BY <1>2, <1>9 DEF Send, servervars, readvars
  <1>10. CASE UNCHANGED svars
    BY <1>2, <1>10 DEF svars, servervars, readvars
  <1> QED
    BY <1>3, <1>4, <1>5, <1>6, <1>7, <1>8, <1>9, <1>10 DEF SNext, Callback

(* A step keeps the frames laid out, inbuf in sync with them, and space    *)
(* for every frame that fits.                                              *)
LEMMA InNext == InInv /\ [SNext]_svars => InInv'
  <1> SUFFICES ASSUME STypeOK, Laid, FrameInSync, CaughtUp, SpaceForFrames,
                      [SNext]_svars
               PROVE  Laid' /\ FrameInSync' /\ SpaceForFrames'
    BY TypeNext, CaughtUpNext DEF InInv
  <1>1. ASSUME NEW frame \in Frame, sent' = Append(sent, frame),
               frame.at = written, frame.ok => frame.id \in Ids,
               written' = End(frame), UNCHANGED <<start, error>>
        PROVE  Laid' /\ FrameInSync' /\ SpaceForFrames'
    <2>1. Laid' /\ FrameInSync'
      BY <1>1, Appended
    <2>2. sent \in Seq(Frame)
      BY DEF STypeOK, Frame
    <2>3. \A i \in DOMAIN sent : i \in DOMAIN sent' /\ sent'[i] = sent[i]
      BY <1>1, <2>2, AppendProperties
    <2> QED
      BY <1>1, <2>1, <2>3 DEF SpaceForFrames
  <1>2. ASSUME NEW id \in Ids, NEW size \in Sizes, NEW end \in BOOLEAN,
               ServerSends(id, size, end)
        PROVE  Laid' /\ FrameInSync' /\ SpaceForFrames'
    <2> DEFINE frame == [at |-> written, id |-> id, size |-> size,
                         end |-> end, ok |-> TRUE]
    <2>1. /\ frame \in Frame /\ frame.at = written
          /\ frame.id \in Ids
      BY <1>2, StreamAssumption DEF STypeOK, Frame
    <2>2. /\ sent' = Append(sent, frame) /\ written' = End(frame)
          /\ UNCHANGED <<start, error>>
      BY <1>2 DEF ServerSends, readvars, End
    <2> HIDE DEF frame
    <2> QED
      BY <2>1, <2>2, <1>1
  <1>3. CASE ServerSendsMalformed
    <2> DEFINE frame == [at |-> written, id |-> NULL, size |-> 0,
                         end |-> TRUE, ok |-> FALSE]
    <2>1. frame \in Frame /\ frame.at = written /\ ~frame.ok
      BY DEF STypeOK, Frame
    <2>2. /\ sent' = Append(sent, frame) /\ written' = End(frame)
          /\ UNCHANGED <<start, error>>
      BY <1>3, StreamAssumption DEF ServerSendsMalformed, readvars, End, STypeOK
    <2> HIDE DEF frame
    <2> QED
      BY <2>1, <2>2, <1>1
  <1>4. CASE Input \/ Read \/ WouldBlock \/ UnableToDecode \/ HandlerReturns
    BY <1>4, Kept DEF Input, Read, WouldBlock, UnableToDecode, HandlerReturns,
                      servervars, readvars
  <1>5. CASE OutOfSpace
    <2>1. UNCHANGED <<sent, written, start>>
      BY <1>5 DEF OutOfSpace, servervars, readvars
    <2>2. SpaceForFrames'
      BY <1>5, <2>1, SpaceNeeded DEF SpaceForFrames
    <2> QED
      BY <2>1, <2>2 DEF Laid, FrameInSync, End
  <1>6. CASE LostConnection
    BY <1>6, Kept DEF LostConnection, Tell, servervars, readvars
  <1>7. ASSUME NEW i \in DOMAIN sent, DecodeChunk(sent[i]) \/ DecodeEnd(sent[i])
        PROVE  Laid' /\ FrameInSync' /\ SpaceForFrames'
    BY <1>7, Advanced DEF DecodeChunk, DecodeEnd, servervars
  <1>8. ASSUME NEW length \in Lengths, Send(length)
        PROVE  Laid' /\ FrameInSync' /\ SpaceForFrames'
    BY <1>8, Kept DEF Send, Tell, servervars, readvars
  <1>9. CASE UNCHANGED svars
    BY <1>9, Kept DEF svars, servervars, readvars
  <1> QED
    BY <1>2, <1>3, <1>4, <1>5, <1>6, <1>7, <1>8, <1>9 DEF SNext, Callback

(* At first there are no frames.                                           *)
LEMMA InInit == SInit => InInv
  BY TypeInit
  DEF SInit, InInv, Laid, FrameInSync, CaughtUp, SpaceForFrames, End

-----------------------------------------------------------------------------
(* Two sequences of chunks, the first one written and the second one being *)
(* written.                                                                *)
LEMMA ConcatProperties ==
  ASSUME NEW S, NEW q \in Seq(S), NEW r \in Seq(S), NEW n \in 0..Len(r)
  PROVE  /\ Len(q) \in Nat
         /\ DOMAIN q = 1..Len(q)
         /\ DOMAIN (q \o SubSeq(r, 1, n)) = 1..(Len(q) + n)
         /\ Len(q \o SubSeq(r, 1, n)) = Len(q) + n
         /\ \A i \in 1..Len(q) : (q \o SubSeq(r, 1, n))[i] = q[i]
         /\ \A j \in 1..n : (q \o SubSeq(r, 1, n))[Len(q) + j] = r[j]
  OBVIOUS

(* What WritesWhole says of the chunk at k.                                *)
WholeAt(k) ==
  LET c == wrote[k] IN
    /\ c.size <= ChunkSize
    /\ c.begin <=> c.offset = 0
    /\ c.end <=> c.offset + c.size = c.length - 1 /\ c.size < ChunkSize
    /\ IF k = 1 THEN c.begin
       ELSE LET b == wrote[k - 1] IN
         IF b.end THEN c.begin /\ c.id > b.id
         ELSE /\ c.id = b.id /\ c.length = b.length
              /\ c.offset = b.offset + b.size
    /\ k = Len(wrote) /\ gsc => c.end

(* Writing a message keeps what is written whole.                          *)
LEMMA SendWhole ==
  ASSUME STypeOK, OutInv, NEW length \in Lengths, Send(length)
  PROVE  OutInv'
  <1> USE StreamAssumption
  <1>1. /\ length \in Nat \ {0} /\ cmf_index \in Nat
        /\ wrote \in Seq(Chunk) /\ Len(wrote) \in Nat
    BY DEF STypeOK, Chunk
  <1>2. PICK chunks : chunks = Encode(length, cmf_index)
    OBVIOUS
  <1> DEFINE m == Len(wrote)
  <1>3. WholeMessage(chunks, length, cmf_index)
    BY <1>1, <1>2, EncodeWhole
  <1>4. PICK n \in 0..Len(chunks) :
          /\ wrote' = wrote \o SubSeq(chunks, 1, n)
          /\ n # 0 => gsc
          /\ gsc' => gsc /\ n = Len(chunks)
    BY <1>2, SendWrites
  <1>5. /\ DOMAIN wrote = 1..m
        /\ DOMAIN wrote' = 1..(m + n) /\ Len(wrote') = m + n
        /\ \A i \in 1..m : wrote'[i] = wrote[i]
        /\ \A j \in 1..n : wrote'[m + j] = chunks[j]
    BY <1>1, <1>3, <1>4, ConcatProperties DEF WholeMessage
  <1>6. n \in Nat /\ m \in Nat
    BY <1>1, <1>3 DEF WholeMessage
  <1>7. \A i \in 1..m : wrote[i].id \in Nat /\ wrote[i].id < cmf_index
    <2>1. \A i \in 1..m : wrote[i] \in Chunk
      BY <1>1
    <2>2. \A i \in 1..m : wrote[i].id < cmf_index
      BY <1>5 DEF OutInv, IdsUsed
    <2> QED
      BY <2>1, <2>2 DEF Chunk
  <1>8. m > 0 /\ gsc => wrote[m].end
    BY <1>5, <1>6 DEF OutInv, WritesWhole
  <1> HIDE DEF m
  <1>9. cmf_index' = cmf_index + 1
    BY DEF Send
  <1>10. IdsUsed'
    <2> SUFFICES ASSUME NEW k \in 1..(m + n)
                 PROVE  wrote'[k].id < cmf_index + 1
      BY <1>5, <1>9 DEF IdsUsed
    <2>1. CASE k \in 1..m
      BY <2>1, <1>1, <1>5, <1>7
    <2>2. CASE k \notin 1..m
      <3>1. PICK j \in 1..n : k = m + j
        BY <2>2, <1>6
      <3>2. wrote'[k] = chunks[j] /\ j \in 1..Len(chunks)
        BY <3>1, <1>3, <1>5, <1>6 DEF WholeMessage
      <3>3. chunks[j].id = cmf_index
        BY <3>2, <1>3 DEF WholeMessage
      <3> QED
        BY <3>2, <3>3, <1>1
    <2> QED
      BY <2>1, <2>2
  <1>11. ASSUME NEW k \in 1..(m + n)
         PROVE  WholeAt(k)'
    <2>1. CASE k \in 1..m
      <3>1. WholeAt(k)
        BY <2>1, <1>5 DEF OutInv, WritesWhole, WholeAt
      <3>2. wrote'[k] = wrote[k] /\ (k # 1 => wrote'[k - 1] = wrote[k - 1])
        BY <2>1, <1>5, <1>6
      <3>3. k = Len(wrote') /\ gsc' => wrote[k].end
        BY <2>1, <1>3, <1>4, <1>5, <1>6 DEF WholeMessage
      <3> QED
        BY <3>1, <3>2, <3>3 DEF WholeAt
    <2>2. CASE k = m + 1 /\ n > 0
      <3>1. wrote'[k] = chunks[1] /\ 1 \in 1..Len(chunks)
        BY <2>2, <1>3, <1>5, <1>6 DEF WholeMessage
      <3>2. k # 1 => wrote'[k - 1] = wrote[m] /\ wrote[m].end
                     /\ wrote[m].id < cmf_index
        BY <2>2, <1>4, <1>5, <1>6, <1>7, <1>8
      <3>3. k = Len(wrote') /\ gsc' => chunks[1].end
        BY <2>2, <1>3, <1>4, <1>5, <1>6 DEF WholeMessage
      <3> QED
        BY <3>1, <3>2, <3>3, <1>1, <1>3, <1>7 DEF WholeAt, WholeMessage
    <2>3. CASE k > m + 1
      <3>1. PICK j \in 2..n : k = m + j
        BY <2>3, <1>6
      <3>2. /\ j \in 1..Len(chunks) /\ j - 1 \in 1..Len(chunks)
            /\ wrote'[k] = chunks[j] /\ wrote'[k - 1] = chunks[j - 1]
            /\ j > 1 /\ k # 1 /\ j - 1 # Len(chunks)
        BY <3>1, <1>3, <1>5, <1>6 DEF WholeMessage
      <3>3. k = Len(wrote') /\ gsc' => chunks[j].end
        BY <3>1, <3>2, <1>3, <1>4, <1>5, <1>6 DEF WholeMessage
      <3> QED
        BY <3>2, <3>3, <1>3 DEF WholeAt, WholeMessage
    <2> QED
      BY <2>1, <2>2, <2>3, <1>6
  <1> QED
    BY <1>5, <1>10, <1>11 DEF OutInv, WritesWhole, WholeAt

(* A step keeps what is written whole.                                     *)
LEMMA OutNext == STypeOK /\ OutInv /\ [SNext]_svars => OutInv'
  <1> SUFFICES ASSUME STypeOK, OutInv, [SNext]_svars
               PROVE  OutInv'
    OBVIOUS
  <1>1. ASSUME UNCHANGED writevars, gsc' => gsc
        PROVE  OutInv'
    BY <1>1 DEF OutInv, IdsUsed, WritesWhole, writevars
  <1>2. ASSUME NEW id \in Ids, NEW size \in Sizes, NEW end \in BOOLEAN,
               ServerSends(id, size, end)
        PROVE  OutInv'
    BY <1>1, <1>2 DEF ServerSends
  <1>3. CASE ServerSendsMalformed
    BY <1>1, <1>3 DEF ServerSendsMalformed
  <1>4. CASE Callback
    BY <1>1, <1>4 DEF Callback, Input, OutOfSpace, Read, WouldBlock,
                      DecodeChunk, DecodeEnd, UnableToDecode, HandlerReturns
  <1>5. CASE LostConnection
    BY <1>1, <1>5 DEF LostConnection
  <1>6. ASSUME NEW length \in Lengths, Send(length)
        PROVE  OutInv'
    BY <1>6, SendWhole
  <1>7. CASE UNCHANGED svars
    BY <1>1, <1>7 DEF svars
  <1> QED
    BY <1>2, <1>3, <1>4, <1>5, <1>6, <1>7 DEF SNext

(* Nothing is written at first.                                            *)
LEMMA OutInit == SInit => OutInv
  BY DEF SInit, OutInv, IdsUsed, WritesWhole

-----------------------------------------------------------------------------
(* The inductive invariant of both directions.                             *)
LEMMA Invariance == SSpec => [](InInv /\ OutInv)
  <1>1. SInit => InInv /\ OutInv
    BY InInit, OutInit
  <1>2. InInv /\ OutInv /\ [SNext]_svars => (InInv /\ OutInv)'
    BY InNext, OutNext DEF InInv
  <1> QED
    BY <1>1, <1>2, PTL DEF SSpec

(* Every variable of the stream keeps its type; what inbuf holds has been  *)
(* written by the server, and fits.                                        *)
THEOREM StreamTypeCorrect == SSpec => []STypeOK
  <1>1. InInv => STypeOK
    BY DEF InInv
  <1> QED
    BY Invariance, <1>1, PTL

(* inbuf always begins with the header of a frame, wherever the reads cut  *)
(* the stream.                                                             *)
THEOREM DecodesInSync == SSpec => []FrameInSync
  <1>1. InInv => FrameInSync
    BY DEF InInv
  <1> QED
    BY Invariance, <1>1, PTL

(* "Input buf is out of space" is told only at a frame that cannot be      *)
(* decoded at all, never at a burst of frames that fit.                    *)
THEOREM SpaceEnough == SSpec => []SpaceForFrames
  <1>1. InInv => SpaceForFrames
    BY DEF InInv
  <1> QED
    BY Invariance, <1>1, PTL

(* The client writes whole messages, of the chunks in order, for every     *)
(* length and chunk size; only the message that closed the socket is cut.  *)
THEOREM WritesAreWhole == SSpec => []WritesWhole
  <1>1. OutInv => WritesWhole
    BY DEF OutInv
  <1> QED
    BY Invariance, <1>1, PTL
=============================================================================
