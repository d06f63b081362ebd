---------------------------- MODULE StreamOrder -----------------------------
(***************************************************************************)
(* The framed stream implements the channel of messages.                   *)
(*                                                                         *)
(* The callback does, frame by frame, what the server has done: the state  *)
(* of its decoding is one that the server had been in.                     *)
(***************************************************************************)
EXTENDS StreamProofs

(* One frame takes the unfinished messages o and the finished ones d to o2 *)
(* and d2.                                                                 *)
Follows(o, d, o2, d2, frame) ==
  /\ ~frame.ok => o2 = o /\ d2 = d
  /\ frame.ok /\ frame.end =>
       /\ o2 = [o EXCEPT ![frame.id] = <<>>]
       /\ d2 = Append(d, Append(o[frame.id], frame.at))
  /\ frame.ok /\ ~frame.end =>
       /\ o2 = [o EXCEPT ![frame.id] = Append(o[frame.id], frame.at)]
       /\ d2 = d

Begins(q, r) == Len(q) <= Len(r) /\ \A i \in 1..Len(q) : q[i] = r[i]

Opens == [Ids -> Seq(Nat)]
Dones == Seq(Seq(Nat))

(* The server's states, one after each of its frames: the last one is the  *)
(* present one, and the one after p frames is the callback's.              *)
Replays(o, d, p) ==
  /\ o \in [0..Len(sent) -> Opens] /\ d \in [0..Len(sent) -> Dones]
  /\ \A k \in 1..Len(sent) : Follows(o[k - 1], d[k - 1], o[k], d[k], sent[k])
  /\ \A k \in 0..Len(sent) : Begins(d[k], completed)
  /\ o[Len(sent)] = open /\ d[Len(sent)] = completed
  /\ p \in 0..Len(sent)
  /\ o[p] = decoded_chunks /\ d[p] = delivered
  /\ p < Len(sent) => sent[p + 1].at = start
  /\ p = Len(sent) => start = written

Replayed ==
  \E o \in [0..Len(sent) -> Opens], d \in [0..Len(sent) -> Dones],
     p \in 0..Len(sent) : Replays(o, d, p)

OrderInv == InInv /\ Replayed

-----------------------------------------------------------------------------
(* After a frame comes the next one, and the last one ends the stream.     *)
LEMMA NextFrame ==
  ASSUME STypeOK, Laid, NEW i \in 1..Len(sent)
  PROVE  /\ i < Len(sent) => sent[i + 1].at = End(sent[i])
         /\ i = Len(sent) => written = End(sent[i])
  <1>1. Len(sent) \in Nat /\ DOMAIN sent = 1..Len(sent) /\ written \in Nat
    BY DEF STypeOK
  <1>2. \A j \in 1..Len(sent) :
          /\ sent[j].at \in Nat /\ End(sent[j]) \in Nat
          /\ sent[j].at < End(sent[j]) /\ End(sent[j]) <= written
    BY <1>1, FrameTypes DEF Laid
  <1>3. \A j, k \in 1..Len(sent) : j < k => End(sent[j]) <= sent[k].at
    BY <1>1 DEF Laid
  <1>4. End(sent[i]) # written => \E j \in 1..Len(sent) : sent[j].at = End(sent[i])
    BY <1>1 DEF Laid
  <1>5. ASSUME NEW j \in 1..Len(sent), sent[j].at = End(sent[i])
        PROVE  j = i + 1
    <2>1. i < j
      BY <1>1, <1>2, <1>3, <1>5
    <2>2. ~(i + 1 < j)
      <3> SUFFICES ASSUME i + 1 < j
                   PROVE  FALSE
        OBVIOUS
      <3>1. i + 1 \in 1..Len(sent) /\ i < i + 1
        BY <1>1
      <3>2. End(sent[i]) <= sent[i + 1].at /\ End(sent[i + 1]) <= sent[j].at
        BY <3>1, <1>3
      <3> QED
        BY <3>1, <3>2, <1>2, <1>5
    <2> QED
      BY <2>1, <2>2, <1>1
  <1>6. CASE i < Len(sent)
    <2>1. i + 1 \in 1..Len(sent) /\ i < i + 1
      BY <1>1, <1>6
    <2>2. End(sent[i]) # written
      BY <2>1, <1>2, <1>3
    <2> QED
      BY <2>2, <1>4, <1>5, <1>6
  <1>7. CASE i = Len(sent)
    BY <1>1, <1>4, <1>5, <1>7
  <1> QED
    BY <1>1, <1>6, <1>7

(* Beginnings of a sequence that grows.                                    *)
LEMMA BeginsLemmas ==
  ASSUME NEW S, NEW q \in Seq(S), NEW r \in Seq(S), NEW x \in S
  PROVE  /\ Begins(q, q)
         /\ Begins(r, q) => Begins(r, Append(q, x))
         /\ Begins(Append(r, x), q) =>
              /\ Len(r) < Len(q)
              /\ x = q[Len(r) + 1]
  BY DEF Begins

-----------------------------------------------------------------------------
(* The server's next frame is one more step of what it has done.           *)
LEMMA ReplayedSend ==
  ASSUME STypeOK, STypeOK', Replayed, NEW frame \in Frame,
         sent' = Append(sent, frame), frame.at = written,
         Follows(open, completed, open', completed', frame),
         UNCHANGED <<start, decoded_chunks, delivered>>,
         Begins(completed, completed'),
         \A q \in Dones : Begins(q, completed) => Begins(q, completed')
  PROVE  Replayed'
  <1> DEFINE n == Len(sent)
  <1>1. /\ n \in Nat /\ DOMAIN sent = 1..n
        /\ Len(sent') = n + 1 /\ DOMAIN sent' = 1..(n + 1)
        /\ \A k \in 1..n : sent'[k] = sent[k]
        /\ sent'[n + 1] = frame
    <2>1. sent \in Seq(Frame) /\ sent' \in Seq(Frame)
      BY DEF STypeOK, Frame
    <2> QED
      BY <2>1, AppendProperties
  <1>2. PICK o \in [0..n -> Opens], d \in [0..n -> Dones], p \in 0..n :
          Replays(o, d, p)
    BY DEF Replayed
  <1>3. /\ \A k \in 1..n : Follows(o[k - 1], d[k - 1], o[k], d[k], sent[k])
        /\ \A k \in 0..n : Begins(d[k], completed)
        /\ o[n] = open /\ d[n] = completed
        /\ o[p] = decoded_chunks /\ d[p] = delivered
        /\ p < n => sent[p + 1].at = start
        /\ p = n => start = written
    BY <1>2 DEF Replays
  <1> HIDE DEF n
  <1>4. open' \in Opens /\ completed' \in Dones
    BY DEF STypeOK, Opens, Dones
  <1>5. PICK o2 \in [0..(n + 1) -> Opens] :
          (\A k \in 0..n : o2[k] = o[k]) /\ o2[n + 1] = open'
    <2> DEFINE f == [k \in 0..(n + 1) |-> IF k = n + 1 THEN open' ELSE o[k]]
    <2>1. f \in [0..(n + 1) -> Opens]
      BY <1>1, <1>2, <1>4
    <2>2. (\A k \in 0..n : f[k] = o[k]) /\ f[n + 1] = open'
      BY <1>1
    <2> HIDE DEF f
    <2> QED
      BY <2>1, <2>2
  <1>6. PICK d2 \in [0..(n + 1) -> Dones] :
          (\A k \in 0..n : d2[k] = d[k]) /\ d2[n + 1] = completed'
    <2> DEFINE f == [k \in 0..(n + 1) |-> IF k = n + 1 THEN completed' ELSE d[k]]
    <2>1. f \in [0..(n + 1) -> Dones]
      BY <1>1, <1>2, <1>4
    <2>2. (\A k \in 0..n : f[k] = d[k]) /\ f[n + 1] = completed'
      BY <1>1
    <2> HIDE DEF f
    <2> QED
      BY <2>1, <2>2
  <1>7. ASSUME NEW k \in 1..(n + 1)
        PROVE  Follows(o2[k - 1], d2[k - 1], o2[k], d2[k], sent'[k])
    <2>1. CASE k = n + 1
      <3>1. /\ k - 1 = n /\ n \in 0..n
        BY <2>1, <1>1
      <3>2. /\ o2[k - 1] = open /\ d2[k - 1] = completed
            /\ o2[k] = open' /\ d2[k] = completed' /\ sent'[k] = frame
        BY <3>1, <2>1, <1>1, <1>3, <1>5, <1>6
      <3> QED
        BY <3>2
    <2>2. CASE k # n + 1
      <3>1. k \in 1..n /\ k \in 0..n /\ k - 1 \in 0..n
        BY <2>2, <1>1
      <3>2. /\ o2[k - 1] = o[k - 1] /\ d2[k - 1] = d[k - 1]
            /\ o2[k] = o[k] /\ d2[k] = d[k] /\ sent'[k] = sent[k]
        BY <3>1, <1>1, <1>5, <1>6
      <3> QED
        BY <3>1, <3>2, <1>3
    <2> QED
      BY <2>1, <2>2
  <1>8. ASSUME NEW k \in 0..(n + 1)
        PROVE  Begins(d2[k], completed')
    <2>1. CASE k = n + 1
      BY <2>1, <1>4, <1>6, BeginsLemmas DEF Dones, Begins
    <2>2. CASE k # n + 1
      <3>1. k \in 0..n
        BY <2>2, <1>1
      <3> QED
        BY <3>1, <1>2, <1>3, <1>6
    <2> QED
      BY <2>1, <2>2
  <1>9. p \in 0..n /\ p \in 0..(n + 1) /\ p # n + 1
    BY <1>1
  <1>10. sent'[p + 1].at = start
    <2>1. CASE p = n
      BY <2>1, <1>1, <1>3
    <2>2. CASE p # n
      <3>1. p + 1 \in 1..n /\ p < n
        BY <2>2, <1>9, <1>1
      <3> QED
        BY <3>1, <1>1, <1>3
    <2> QED
      BY <2>1, <2>2
  <1>11. /\ \A k \in 1..(n + 1) :
              Follows(o2[k - 1], d2[k - 1], o2[k], d2[k], sent'[k])
         /\ \A k \in 0..(n + 1) : Begins(d2[k], completed')
         /\ o2[n + 1] = open' /\ d2[n + 1] = completed'
         /\ o2[p] = decoded_chunks' /\ d2[p] = delivered'
         /\ p < n + 1 => sent'[p + 1].at = start'
         /\ p = n + 1 => start' = written'
    BY <1>3, <1>5, <1>6, <1>7, <1>8, <1>9, <1>10
  <1>12. /\ o2 \in [0..Len(sent') -> Opens] /\ d2 \in [0..Len(sent') -> Dones]
         /\ p \in 0..Len(sent')
    BY <1>1, <1>5, <1>6, <1>9
  <1>13. Replays(o2, d2, p)'
    BY <1>1, <1>11, <1>12 DEF Replays
  <1> QED
    BY <1>12, <1>13 DEF Replayed

(* Decoding a frame takes the callback to the server's next state; when it *)
(* ends a message, that is the next one that the server has finished.      *)
LEMMA ReplayedDecode ==
  ASSUME STypeOK, Laid, Replayed, NEW i \in DOMAIN sent,
         DecodeChunk(sent[i]) \/ DecodeEnd(sent[i])
  PROVE  /\ Replayed'
         /\ \/ UNCHANGED <<completed, delivered>>
            \/ InChannel!Deliver
  <1> DEFINE n == Len(sent)
  <1>1. n \in Nat /\ DOMAIN sent = 1..n
    BY DEF STypeOK
  <1>2. PICK o \in [0..n -> Opens], d \in [0..n -> Dones], p \in 0..n :
          Replays(o, d, p)
    BY DEF Replayed
  <1>3. /\ \A k \in 1..n : Follows(o[k - 1], d[k - 1], o[k], d[k], sent[k])
        /\ \A k \in 0..n : Begins(d[k], completed)
        /\ o[n] = open /\ d[n] = completed
        /\ o[p] = decoded_chunks /\ d[p] = delivered
        /\ p < n => sent[p + 1].at = start
        /\ p = n => start = written
    BY <1>2 DEF Replays
  <1>4. /\ Complete(sent[i]) /\ Removed(sent[i])
        /\ UNCHANGED <<sent, open, completed, written>>
    BY DEF DecodeChunk, DecodeEnd, servervars
  <1>5. /\ sent[i].at = start /\ sent[i].ok
        /\ start # written
        /\ start' = End(sent[i])
    <2>1. sent[i].size \in Nat /\ sent[i].at \in Nat
      BY FrameTypes
    <2>2. /\ start \in Nat /\ inbuf_used \in Nat /\ written \in Nat
          /\ start + inbuf_used <= written
      BY StreamAssumption DEF STypeOK
    <2> QED
      BY <1>4, <2>1, <2>2, StreamAssumption DEF Complete, Removed, End
  <1>6. i = p + 1 /\ p + 1 \in 1..n /\ p \in 0..n /\ p + 1 \in 0..n
    <2>1. p # n
      BY <1>3, <1>5
    <2>2. p + 1 \in 1..n /\ p < n
      <3> HIDE DEF n
      <3>1. p \in 0..n
        OBVIOUS
      <3> QED
        BY <3>1, <2>1, <1>1
    <2>3. sent[p + 1].at = sent[i].at
      BY <2>2, <1>3, <1>5
    <2>4. i = p + 1
      BY <2>2, <2>3, <1>1, FrameUnique
    <2> QED
      BY <2>2, <2>4
  <1>7. Follows(o[p], d[p], o[p + 1], d[p + 1], sent[i])
    <2>1. Follows(o[(p + 1) - 1], d[(p + 1) - 1], o[p + 1], d[p + 1], sent[p + 1])
      BY <1>3, <1>6
    <2>2. (p + 1) - 1 = p
      BY <1>6
    <2> QED
      BY <2>1, <2>2, <1>6
  <1>8. o[p + 1] = decoded_chunks' /\ d[p + 1] = delivered'
    BY <1>3, <1>5, <1>7 DEF DecodeChunk, DecodeEnd, Follows
  <1>9. /\ p + 1 < n => sent[p + 1 + 1].at = start'
        /\ p + 1 = n => start' = written
    BY <1>1, <1>5, <1>6, NextFrame
  <1>10. Replays(o, d, p + 1)'
    <2>1. p + 1 \in 0..Len(sent')
      BY <1>4, <1>6
    <2> QED
      BY <2>1, <1>2, <1>3, <1>4, <1>8, <1>9 DEF Replays
  <1>11. Replayed'
    BY <1>1, <1>2, <1>4, <1>6, <1>10 DEF Replayed
  <1>12. CASE DecodeChunk(sent[i])
    BY <1>4, <1>11, <1>12 DEF DecodeChunk
  <1>13. CASE DecodeEnd(sent[i])
    <2>1. PICK message : message = Append(decoded_chunks[sent[i].id], start)
      OBVIOUS
    <2>2. delivered' = Append(delivered, message)
      BY <2>1, <1>13 DEF DecodeEnd
    <2>3. message \in Seq(Nat)
      <3>1. sent[i].id \in Ids /\ start \in Nat
        BY <1>5 DEF Laid, STypeOK
      <3>2. decoded_chunks[sent[i].id] \in Seq(Nat)
        BY <3>1 DEF STypeOK
      <3> QED
        BY <2>1, <3>1, <3>2, AppendType
    <2>4. Begins(Append(delivered, message), completed)
      BY <2>2, <1>3, <1>6, <1>8
    <2>5. delivered \in Seq(Seq(Nat)) /\ completed \in Seq(Seq(Nat))
      BY DEF STypeOK
    <2>6. /\ Len(delivered) < Len(completed)
          /\ message = completed[Len(delivered) + 1]
      BY <2>3, <2>4, <2>5, BeginsLemmas
    <2> QED
      BY <2>2, <2>6, <1>4, <1>11 DEF InChannel!Deliver
  <1> QED
    BY <1>12, <1>13

(* A step that neither sends nor decodes a frame.                          *)
LEMMA ReplayedKept ==
  ASSUME Replayed, UNCHANGED <<servervars, start, decoded_chunks, delivered>>
  PROVE  Replayed'
  <1>1. PICK o \in [0..Len(sent) -> Opens], d \in [0..Len(sent) -> Dones],
             p \in 0..Len(sent) : Replays(o, d, p)
    BY DEF Replayed
  <1>2. Replays(o, d, p)'
    BY <1>1 DEF Replays, servervars
  <1> QED
    BY <1>2 DEF Replayed, servervars

-----------------------------------------------------------------------------
(* The server finishes at most one message with a frame.                   *)
LEMMA SendFollows ==
  ASSUME STypeOK, NEW id \in Ids, NEW size \in Sizes, NEW end \in BOOLEAN,
         ServerSends(id, size, end)
  PROVE  /\ Follows(open, completed, open', completed',
                    [at |-> written, id |-> id, size |-> size,
                     end |-> end, ok |-> TRUE])
         /\ Begins(completed, completed')
         /\ \A q \in Dones : Begins(q, completed) => Begins(q, completed')
         /\ UNCHANGED <<completed, delivered>> \/ InChannel!Complete
  <1> DEFINE message == Append(open[id], written)
  <1>1. completed \in Dones /\ message \in Seq(Nat)
    BY AppendType DEF STypeOK, Dones
  <1>2. Follows(open, completed, open', completed',
                [at |-> written, id |-> id, size |-> size,
                 end |-> end, ok |-> TRUE])
    BY DEF ServerSends, Follows
  <1>3. completed' = completed \/ completed' = Append(completed, message)
    BY DEF ServerSends
  <1>4. delivered' = delivered
    BY DEF ServerSends, readvars
  <1> HIDE DEF message
  <1>5. CASE completed' = completed
    BY <1>1, <1>2, <1>4, <1>5 DEF Begins, Dones
  <1>6. CASE completed' = Append(completed, message)
    <2>1. /\ Begins(completed, completed')
          /\ \A q \in Dones : Begins(q, completed) => Begins(q, completed')
      BY <1>1, <1>6, BeginsLemmas DEF Dones
    <2>2. /\ Len(completed') = Len(completed) + 1
          /\ SubSeq(completed', 1, Len(completed)) = completed
      BY <1>1, <1>6 DEF Dones
    <2> QED
      BY <2>1, <2>2, <1>2, <1>4 DEF InChannel!Complete
  <1> QED
    BY <1>3, <1>5, <1>6

(* A step keeps the callback on the server's way, and is a step of the     *)
(* channel or none.                                                        *)
LEMMA OrderNext ==
  OrderInv /\ [SNext]_svars =>
    /\ Replayed'
    /\ \/ InChannel!Complete \/ InChannel!Deliver
       \/ UNCHANGED <<completed, delivered>>
  <1> SUFFICES ASSUME STypeOK, STypeOK', Laid, Replayed, [SNext]_svars
               PROVE  /\ Replayed'
                      /\ \/ InChannel!Complete \/ InChannel!Deliver
                         \/ UNCHANGED <<completed, delivered>>
    BY InNext DEF OrderInv, InInv
  <1> DEFINE Step == \/ InChannel!Complete \/ InChannel!Deliver
                     \/ UNCHANGED <<completed, delivered>>
  <1>1. ASSUME NEW id \in Ids, NEW size \in Sizes, NEW end \in BOOLEAN,
               ServerSends(id, size, end)
        PROVE  Replayed' /\ Step
    <2> DEFINE frame == [at |-> written, id |-> id, size |-> size,
                         end |-> end, ok |-> TRUE]
    <2>1. frame \in Frame /\ frame.at = written
      BY <1>1, StreamAssumption DEF STypeOK, Frame
    <2>2. /\ sent' = Append(sent, frame)
          /\ UNCHANGED <<start, decoded_chunks, delivered>>
      BY <1>1 DEF ServerSends, readvars
    <2>3. /\ Follows(open, completed, open', completed', frame)
          /\ Begins(completed, completed')
          /\ \A q \in Dones : Begins(q, completed) => Begins(q, completed')
          /\ UNCHANGED <<completed, delivered>> \/ InChannel!Complete
      BY <1>1, SendFollows
    <2> HIDE DEF frame
    <2> QED
      BY <2>1, <2>2, <2>3, ReplayedSend
  <1>2. CASE ServerSendsMalformed
    <2> DEFINE frame == [at |-> written, id |-> NULL, size |-> 0,
                         end |-> TRUE, ok |-> FALSE]
    <2>1. frame \in Frame /\ frame.at = written /\ ~frame.ok
      BY DEF STypeOK, Frame
    <2>2. /\ sent' = Append(sent, frame)
          /\ UNCHANGED <<open, completed, start, decoded_chunks, delivered>>
      BY <1>2 DEF ServerSendsMalformed, readvars
    <2> HIDE DEF frame
    <2>3. completed \in Dones
      BY DEF STypeOK, Dones
    <2>4. Follows(open, completed, open', completed', frame)
      BY <2>1, <2>2 DEF Follows
    <2>5. Begins(completed, completed')
      BY <2>2, <2>3 DEF Begins, Dones
    <2> QED
      BY <2>1, <2>2, <2>4, <2>5, ReplayedSend
  <1>3. ASSUME UNCHANGED <<servervars, start, decoded_chunks, delivered>>
        PROVE  Replayed' /\ Step
    BY <1>3, ReplayedKept DEF servervars
  <1>4. CASE Input \/ OutOfSpace \/ Read \/ WouldBlock \/ UnableToDecode
             \/ HandlerReturns \/ LostConnection
    BY <1>3, <1>4 DEF Input, OutOfSpace, Read, WouldBlock, UnableToDecode,
                      HandlerReturns, LostConnection, readvars
  <1>5. ASSUME NEW i \in DOMAIN sent, DecodeChunk(sent[i]) \/ DecodeEnd(sent[i])
        PROVE  Replayed' /\ Step
    BY <1>5, ReplayedDecode
  <1>6. ASSUME NEW length \in Lengths, Send(length)
        PROVE  Replayed' /\ Step
    BY <1>3, <1>6 DEF Send, readvars
  <1>7. CASE UNCHANGED svars
    BY <1>3, <1>7 DEF svars, readvars
  <1> QED
    BY <1>1, <1>2, <1>4, <1>5, <1>6, <1>7 DEF SNext, Callback

(* At first the server has sent nothing, and nothing is delivered.         *)
LEMMA OrderInit == SInit => OrderInv /\ InChannel!Init
  <1> SUFFICES ASSUME SInit
               PROVE  Replayed /\ InChannel!Init
    BY InInit DEF OrderInv
  <1>1. InChannel!Init
    BY DEF SInit, InChannel!Init
  <1>2. /\ sent = <<>> /\ Len(sent) = 0
        /\ open \in Opens /\ completed \in Dones /\ completed = <<>>
        /\ decoded_chunks = open /\ delivered = completed /\ start = written
    BY DEF SInit, Opens, Dones
  <1>3. PICK o \in [0..0 -> Opens] : o[0] = open
    <2> DEFINE f == [k \in 0..0 |-> open]
    <2>1. f \in [0..0 -> Opens] /\ f[0] = open
      BY <1>2
    <2> HIDE DEF f
    <2> QED
      BY <2>1
  <1>4. PICK d \in [0..0 -> Dones] : d[0] = completed
    <2> DEFINE f == [k \in 0..0 |-> completed]
    <2>1. f \in [0..0 -> Dones] /\ f[0] = completed
      BY <1>2
    <2> HIDE DEF f
    <2> QED
      BY <2>1
  <1>5. Begins(completed, completed)
    BY <1>2 DEF Begins
  <1>6. Replays(o, d, 0)
    BY <1>2, <1>3, <1>4, <1>5 DEF Replays
  <1> QED
    BY <1>1, <1>2, <1>3, <1>4, <1>6 DEF Replayed

(* The stream implements the channel: the messages that the callback puts  *)
(* together are those that the server completed, whole, once each and in   *)
(* order, for any frames, ids, reads and size of inbuf.                    *)
THEOREM InOrder == SSpec => DeliversInOrder
  <1>1. OrderInv /\ [SNext]_svars => OrderInv'
    BY InNext, OrderNext DEF OrderInv
  <1>2. OrderInv /\ [SNext]_svars =>
          [InChannel!Complete \/ InChannel!Deliver]_<<completed, delivered>>
    BY OrderNext
  <1> QED
    BY OrderInit, <1>1, <1>2, PTL DEF SSpec, DeliversInOrder, InChannel!Spec
=============================================================================
