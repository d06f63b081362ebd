-------------------------- MODULE MessagingProofs ---------------------------
(***************************************************************************)
(* Contacts, sessions and messages for any number of contacts, sessions    *)
(* and messages, and any order of events, answers and faults: they run on  *)
(* the engine as the engine allows, and each handler is given the response *)
(* to the call it was made for.                                            *)
(***************************************************************************)
EXTENDS Messaging, DeferredProofs

(* The pairs of the queues that libgaldr builds.                           *)
PairOf(cb, err, data) == [cb |-> cb, err |-> err, user_data |-> data]

DefaultPair(call) == PairOf("default_cb", "default_err", call)
SesPair == PairOf("session_cb", "session_err", NULL)
DoSendPair(call) == PairOf("do_send_im", NULL, call)
DispatchPair(s, m) == PairOf("dispatch_message", NULL, <<"got", s, m>>)
ErrPair(call) == PairOf(NULL, "messaging_err", <<"contact", call[2], call[3]>>)
RefreshPair == PairOf("refresh_workspace_cb", NULL, NULL)
RetryPair(call) == PairOf("retry_cb", NULL, call)
GetContactsPair == PairOf("get_contacts_cb", "get_contacts_err", NULL)
ContactsPair == PairOf("contacts_cb", "contacts_err", NULL)

Handles == {HandlePair(d) : d \in Deferreds}
DoSends == {DoSendPair(c) : c \in SendCalls}
Dispatches == {DispatchPair(s, m) : s \in SessionIds, m \in 1..MaxMessages}
Errs == {ErrPair(c) : c \in SendCalls}
Retries == {RetryPair(c) : c \in Calls}
Finals == {DefaultPair(c) : c \in SendCalls}
Firsts == {DefaultPair(c) : c \in Calls \ SendCalls}
MPair == Handles \cup DoSends \cup Dispatches \cup Errs \cup Retries
         \cup Finals \cup Firsts
         \cup {SesPair, RefreshPair, GetContactsPair, ContactsPair}

(* The call whose response a session pair before p is to read.             *)
Content(p) ==
  IF p.cb = "do_send_im" THEN <<"create", p.user_data[2]>>
  ELSE <<"get", p.user_data[2]>>

(* What may follow the k-th pair of a queue.                               *)
Fits(q, k) ==
  /\ q[k] \in Firsts => /\ k + 2 \in DOMAIN q /\ q[k + 1] = SesPair
                        /\ Content(q[k + 2]) = q[k].user_data
  /\ q[k] = SesPair => k + 1 \in DOMAIN q /\ q[k + 1] \in DoSends \cup Dispatches
  /\ q[k] \in DoSends => k + 1 \in DOMAIN q /\ q[k + 1] \in Errs \cup Handles
  /\ q[k] \in Errs => k + 1 \in DOMAIN q /\ q[k + 1] \in Finals
  /\ q[k] = RefreshPair => k + 1 \in DOMAIN q /\ q[k + 1] \in Retries
  /\ q[k] \in Retries => k + 1 \in DOMAIN q /\ q[k + 1] \in Handles
  /\ q[k] = GetContactsPair => k + 1 \in DOMAIN q /\ q[k + 1] = ContactsPair
  /\ q[k] \in Dispatches \cup Finals \cup {ContactsPair} => k = Len(q)
  /\ q[k] \in Handles => k = Len(q) \/ q[k + 1] \in Handles

Shape(q) == \A k \in DOMAIN q : q[k] \in MPair /\ Fits(q, k)

(* Every queue is what is left of one that the code builds.                *)
QueuesShaped == \A d \in Deferreds : Shape(callbacks[d])

(* What an errback is given is a fault.                                    *)
ErrorsAreFaults ==
  \A i \in DOMAIN stack : stack[i].mode = "err" => stack[i].val \in Faults

EngineOK == DInv /\ Spent /\ QueuesShaped /\ ErrorsAreFaults

-----------------------------------------------------------------------------
(* The handlers of each kind of pair: no kind has another's.               *)
LEMMA PairKindsDiffer ==
  /\ \A p \in Handles : p.cb = HANDLE /\ p.err = HANDLE
  /\ \A p \in DoSends : p.cb = "do_send_im" /\ p.err = NULL /\ p.user_data \in SendCalls
  /\ \A p \in Dispatches : p.cb = "dispatch_message" /\ p.err = NULL
  /\ \A p \in Errs : p.cb = NULL /\ p.err = "messaging_err"
  /\ \A p \in Retries : p.cb = "retry_cb" /\ p.err = NULL /\ p.user_data \in Calls
  /\ \A p \in Finals : p.cb = "default_cb" /\ p.err = "default_err" /\ p.user_data \in SendCalls
  /\ \A p \in Firsts : /\ p.cb = "default_cb" /\ p.err = "default_err"
                       /\ p.user_data \in Calls \ SendCalls
  /\ SesPair.cb = "session_cb" /\ SesPair.err = "session_err"
  /\ RefreshPair.cb = "refresh_workspace_cb" /\ RefreshPair.err = NULL
  /\ GetContactsPair.cb = "get_contacts_cb" /\ GetContactsPair.err = "get_contacts_err"
  /\ ContactsPair.cb = "contacts_cb" /\ ContactsPair.err = "contacts_err"
  BY DEF PairOf, DefaultPair, SesPair, DoSendPair, DispatchPair, ErrPair,
    RefreshPair, RetryPair, GetContactsPair, ContactsPair, Handles, DoSends,
    Dispatches, Errs, Retries, Finals, Firsts, HandlePair

(* None of the names is NULL or the name of the handle functions.          *)
LEMMA NamesDiffer ==
  HANDLE \notin Names /\ NULL \notin Names /\ NULL # HANDLE
  BY BoundsAssumption, CallbacksAssumption DEF Names, HANDLE

(* One pair after another.                                                 *)
LEMMA ConcatPairs ==
  ASSUME NEW a, NEW b, NEW c
  PROVE  <<a>> \o <<b>> = <<a, b>> /\ <<a, b>> \o <<c>> = <<a, b, c>>
  <1>1. <<a>> \o <<b>> = Append(<<a>>, b) /\ <<a, b>> = Append(<<a>>, b)
    OBVIOUS
  <1>2. <<a, b>> \o <<c>> = Append(<<a, b>>, c) /\ <<a, b, c>> = Append(<<a, b>>, c)
    OBVIOUS
  <1> QED BY <1>1, <1>2

(* Two pairs after three.                                                  *)
LEMMA ConcatTwoToThree ==
  ASSUME NEW a, NEW b, NEW c, NEW d, NEW e
  PROVE  <<a, b, c>> \o <<d, e>> = <<a, b, c, d, e>>
  <1>1. <<a, b, c>> \o <<d, e>> = Append(Append(<<a, b, c>>, d), e)
    OBVIOUS
  <1>2. <<a, b, c, d>> = Append(<<a, b, c>>, d)
    OBVIOUS
  <1>3. <<a, b, c, d, e>> = Append(<<a, b, c, d>>, e)
    OBVIOUS
  <1> QED BY <1>1, <1>2, <1>3

(* The queues of the code, pair by pair.                                   *)
LEMMA ChainForms ==
  /\ ContactsChain = <<GetContactsPair, ContactsPair>>
  /\ \A call : CreateChain(call) =
       <<DefaultPair(<<"create", call[2]>>), SesPair, DoSendPair(call)>>
  /\ \A call : SendChain(call) = <<ErrPair(call), DefaultPair(call)>>
  /\ \A call : RefreshChain(call) = <<RefreshPair, RetryPair(call)>>
  /\ \A s, m : DispatchChain(s, m) =
       <<DefaultPair(<<"get", s>>), SesPair, DispatchPair(s, m)>>
  /\ \A call : CreateChain(call) \o SendChain(call) =
       <<DefaultPair(<<"create", call[2]>>), SesPair, DoSendPair(call),
         ErrPair(call), DefaultPair(call)>>
  <1>1. \A cb, err, data : Pairs(cb, err, data) = <<PairOf(cb, err, data)>>
    BY DEF Pairs, PairOf
  <1>2. ContactsChain = <<GetContactsPair, ContactsPair>>
    BY <1>1, ConcatPairs DEF ContactsChain, GetContactsPair, ContactsPair
  <1>3. \A call, next : SessionChain(call, <<next>>) = <<DefaultPair(call), SesPair, next>>
    <2>1. ASSUME NEW call, NEW next
          PROVE  SessionChain(call, <<next>>) = <<DefaultPair(call), SesPair, next>>
      <3>1. SessionChain(call, <<next>>) = (<<DefaultPair(call)>> \o <<SesPair>>) \o <<next>>
        BY <1>1 DEF SessionChain, AddRetry, SessionPair, DefaultPair, SesPair
      <3>2. <<DefaultPair(call)>> \o <<SesPair>> = <<DefaultPair(call), SesPair>>
        BY ConcatPairs
      <3>3. <<DefaultPair(call), SesPair>> \o <<next>> = <<DefaultPair(call), SesPair, next>>
        BY ConcatPairs
      <3> QED BY <3>1, <3>2, <3>3
    <2> QED BY <2>1
  <1>4. \A call : CreateChain(call) =
          <<DefaultPair(<<"create", call[2]>>), SesPair, DoSendPair(call)>>
    BY <1>1, <1>3 DEF CreateChain, DoSendPair
  <1>5. \A call : SendChain(call) = <<ErrPair(call), DefaultPair(call)>>
    BY <1>1, ConcatPairs DEF SendChain, AddRetry, ErrPair, DefaultPair
  <1>6. \A call : RefreshChain(call) = <<RefreshPair, RetryPair(call)>>
    BY <1>1, ConcatPairs DEF RefreshChain, RefreshPair, RetryPair
  <1>7. \A s, m : DispatchChain(s, m) =
          <<DefaultPair(<<"get", s>>), SesPair, DispatchPair(s, m)>>
    BY <1>1, <1>3 DEF DispatchChain, DispatchPair
  <1> QED BY <1>2, <1>4, <1>5, <1>6, <1>7, ConcatTwoToThree

(* A pair of one kind, with what has to follow it, fits.                   *)
LEMMA FitsByKind ==
  ASSUME NEW q, NEW k
  PROVE  /\ /\ q[k] \in Firsts /\ k + 2 \in DOMAIN q /\ q[k + 1] = SesPair
            /\ Content(q[k + 2]) = q[k].user_data
            => q[k] \in MPair /\ Fits(q, k)
         /\ q[k] = SesPair /\ k + 1 \in DOMAIN q /\ q[k + 1] \in DoSends \cup Dispatches
            => q[k] \in MPair /\ Fits(q, k)
         /\ q[k] \in DoSends /\ k + 1 \in DOMAIN q /\ q[k + 1] \in Errs \cup Handles
            => q[k] \in MPair /\ Fits(q, k)
         /\ q[k] \in Errs /\ k + 1 \in DOMAIN q /\ q[k + 1] \in Finals
            => q[k] \in MPair /\ Fits(q, k)
         /\ q[k] = RefreshPair /\ k + 1 \in DOMAIN q /\ q[k + 1] \in Retries
            => q[k] \in MPair /\ Fits(q, k)
         /\ q[k] \in Retries /\ k + 1 \in DOMAIN q /\ q[k + 1] \in Handles
            => q[k] \in MPair /\ Fits(q, k)
         /\ q[k] = GetContactsPair /\ k + 1 \in DOMAIN q /\ q[k + 1] = ContactsPair
            => q[k] \in MPair /\ Fits(q, k)
         /\ q[k] \in Dispatches \cup Finals \cup {ContactsPair} /\ k = Len(q)
            => q[k] \in MPair /\ Fits(q, k)
         /\ q[k] \in Handles /\ (k = Len(q) \/ q[k + 1] \in Handles)
            => q[k] \in MPair /\ Fits(q, k)
  <1>1. /\ HANDLE \notin Names /\ NULL \notin Names /\ NULL # HANDLE
        /\ \A p \in Firsts \cup Finals : p.cb = "default_cb"
        /\ \A p \in Firsts : p.user_data \notin SendCalls
        /\ \A p \in Finals : p.user_data \in SendCalls
        /\ \A p \in Handles : p.cb = HANDLE
        /\ \A p \in DoSends : p.cb = "do_send_im"
        /\ \A p \in Dispatches : p.cb = "dispatch_message"
        /\ \A p \in Errs : p.cb = NULL
        /\ \A p \in Retries : p.cb = "retry_cb"
        /\ SesPair.cb = "session_cb" /\ RefreshPair.cb = "refresh_workspace_cb"
        /\ GetContactsPair.cb = "get_contacts_cb" /\ ContactsPair.cb = "contacts_cb"
    BY PairKindsDiffer, NamesDiffer
  <1>2. q[k] \in Firsts \/ q[k] \in Finals \/ q[k] \in Handles \/ q[k] \in DoSends
          \/ q[k] \in Dispatches \/ q[k] \in Errs \/ q[k] \in Retries
          \/ q[k] \in {SesPair, RefreshPair, GetContactsPair, ContactsPair}
        => q[k] \in MPair
    BY DEF MPair
  <1>3. CASE q[k] \in Firsts
    BY <1>1, <1>2, <1>3 DEF Fits, Names
  <1>4. CASE q[k] \in Finals \cup Dispatches \cup {ContactsPair}
    BY <1>1, <1>2, <1>4 DEF Fits, Names
  <1>5. CASE q[k] \in Handles
    BY <1>1, <1>2, <1>5 DEF Fits, Names
  <1>6. CASE q[k] \in DoSends \cup Errs \cup Retries
    BY <1>1, <1>2, <1>6 DEF Fits, Names
  <1>7. CASE q[k] \in {SesPair, RefreshPair, GetContactsPair}
    BY <1>1, <1>2, <1>7 DEF Fits, Names
  <1> QED BY <1>3, <1>4, <1>5, <1>6, <1>7

(* What is left of a queue when its first pair has had its turn.           *)
LEMMA ShapeTail ==
  ASSUME NEW S, NEW q \in Seq(S), q # <<>>, Shape(q)
  PROVE  Shape(Tail(q))
  <1> DEFINE n == Len(q) - 1
  <1>1. /\ Len(q) \in Nat \ {0} /\ n \in Nat /\ DOMAIN q = 1..Len(q)
        /\ DOMAIN Tail(q) = 1..n /\ Len(Tail(q)) = n
        /\ \A i \in 1..n : Tail(q)[i] = q[i + 1] /\ i + 1 \in DOMAIN q
    BY TailProperties
  <1>2. ASSUME NEW k \in DOMAIN Tail(q)
        PROVE  Tail(q)[k] \in MPair /\ Fits(Tail(q), k)
    <2>1. k \in 1..n /\ Tail(q)[k] = q[k + 1] /\ k + 1 \in DOMAIN q
      BY <1>1, <1>2
    <2>2. q[k + 1] \in MPair /\ Fits(q, k + 1)
      BY <2>1 DEF Shape
    <2>3. /\ (k + 1) + 1 \in DOMAIN q => k + 1 \in 1..n /\ Tail(q)[k + 1] = q[(k + 1) + 1]
          /\ (k + 1) + 2 \in DOMAIN q => k + 2 \in 1..n /\ Tail(q)[k + 2] = q[(k + 1) + 2]
          /\ k = n <=> k + 1 = Len(q)
      <3>1. /\ (k + 1) + 1 \in 1..Len(q) => k + 1 \in 1..n
            /\ (k + 1) + 2 \in 1..Len(q) => k + 2 \in 1..n
            /\ k = n <=> k + 1 = Len(q)
        BY <1>1, <2>1
      <3>2. (k + 1) + 2 = (k + 2) + 1
        BY <2>1
      <3> QED BY <1>1, <3>1, <3>2
    <2>4. q[k + 1] \in Handles /\ k # n => (k + 1) + 1 \in DOMAIN q
      BY <1>1, <2>1
    <2>5. Fits(Tail(q), k)
      <3>1. /\ Tail(q)[k] \in Firsts =>
                 /\ k + 2 \in DOMAIN Tail(q) /\ Tail(q)[k + 1] = SesPair
                 /\ Content(Tail(q)[k + 2]) = Tail(q)[k].user_data
        <4>1. (k + 1) + 2 \in 1..Len(q) => (k + 1) + 1 \in 1..Len(q)
          BY <1>1, <2>1
        <4> QED BY <1>1, <2>1, <2>2, <2>3, <4>1 DEF Fits
      <3>2. /\ Tail(q)[k] \in Handles => k = Len(Tail(q)) \/ Tail(q)[k + 1] \in Handles
            /\ Tail(q)[k] \in Dispatches \cup Finals \cup {ContactsPair} => k = Len(Tail(q))
        BY <1>1, <2>1, <2>2, <2>3, <2>4 DEF Fits
      <3> QED BY <1>1, <2>1, <2>2, <2>3, <3>1, <3>2 DEF Fits
    <2> QED BY <2>1, <2>2, <2>5
  <1> QED BY <1>2 DEF Shape

(* The queues of deferreds that events build, and of those that handlers   *)
(* return.                                                                 *)
StartChains ==
  {<<>>, ContactsChain}
  \cup {CreateChain(call) \o SendChain(call) : call \in SendCalls}
  \cup {SendChain(call) : call \in SendCalls}
  \cup {DispatchChain(s, m) : s \in SessionIds, m \in 1..MaxMessages}
ReturnedChains ==
  {<<>>} \cup {CreateChain(call) : call \in SendCalls}
  \cup {RefreshChain(call) : call \in Calls}

(* Calls to send have a user, and the calls for sessions are others.       *)
LEMMA CallKinds ==
  /\ SendCalls \subseteq Calls
  /\ \A call \in SendCalls :
       /\ call[1] = "send" /\ call[2] \in Users /\ call[3] \in 1..MaxLists /\ call[4] \in Ims
       /\ call = <<"send", call[2], call[3], call[4]>>
       /\ <<"create", call[2]>> \in Calls \ SendCalls
  /\ \A s \in SessionIds : <<"get", s>> \in Calls \ SendCalls
  /\ \A call \in Calls : call[1] = "send" => call \in SendCalls
  /\ \A call \in Calls \ SendCalls :
       \/ call[1] = "create" /\ call[2] \in Users /\ call = <<"create", call[2]>>
       \/ call[1] = "get" /\ call[2] \in SessionIds /\ call = <<"get", call[2]>>
  BY DEF SendCalls, Calls

(* Queues of events are complete.                                          *)
LEMMA ShapeStart == \A chain \in StartChains : Shape(chain)
  <1>1. ASSUME NEW call \in SendCalls
        PROVE  /\ DefaultPair(<<"create", call[2]>>) \in Firsts
               /\ DefaultPair(<<"create", call[2]>>).user_data = <<"create", call[2]>>
               /\ Content(DoSendPair(call)) = <<"create", call[2]>>
               /\ DoSendPair(call) \in DoSends /\ ErrPair(call) \in Errs
               /\ DefaultPair(call) \in Finals
    BY CallKinds DEF Firsts, DoSends, Errs, Finals, Content, DoSendPair, DefaultPair, PairOf
  <1>2. Shape(<<>>)
    BY DEF Shape
  <1>3. Shape(ContactsChain)
    <2> DEFINE q == <<GetContactsPair, ContactsPair>>
    <2>1. /\ DOMAIN q = {1, 2} /\ Len(q) = 2 /\ q[1] = GetContactsPair /\ q[2] = ContactsPair
          /\ 1 + 1 = 2
      OBVIOUS
    <2> HIDE DEF q
    <2>2. /\ q[1] \in MPair /\ Fits(q, 1)
          /\ q[2] \in MPair /\ Fits(q, 2)
      BY <2>1, FitsByKind
    <2>3. Shape(q)
      BY <2>1, <2>2 DEF Shape
    <2> QED BY <2>3, ChainForms DEF q
  <1>4. ASSUME NEW call \in SendCalls
        PROVE  Shape(CreateChain(call) \o SendChain(call))
    <2> DEFINE q == <<DefaultPair(<<"create", call[2]>>), SesPair, DoSendPair(call),
                      ErrPair(call), DefaultPair(call)>>
    <2>1. /\ DOMAIN q = {1, 2, 3, 4, 5} /\ Len(q) = 5
          /\ q[1] = DefaultPair(<<"create", call[2]>>) /\ q[2] = SesPair
          /\ q[3] = DoSendPair(call) /\ q[4] = ErrPair(call) /\ q[5] = DefaultPair(call)
          /\ 1 + 1 = 2 /\ 1 + 2 = 3 /\ 2 + 1 = 3 /\ 3 + 1 = 4 /\ 4 + 1 = 5
      OBVIOUS
    <2> HIDE DEF q
    <2>2. q[1] \in MPair /\ Fits(q, 1)
      BY <2>1, <1>1, FitsByKind
    <2>3. /\ q[2] \in MPair /\ Fits(q, 2) /\ q[3] \in MPair /\ Fits(q, 3)
      BY <2>1, <1>1, FitsByKind
    <2>4. /\ q[4] \in MPair /\ Fits(q, 4) /\ q[5] \in MPair /\ Fits(q, 5)
      BY <2>1, <1>1, FitsByKind
    <2>5. Shape(q)
      BY <2>1, <2>2, <2>3, <2>4 DEF Shape
    <2> QED BY <2>5, ChainForms DEF q
  <1>5. ASSUME NEW call \in SendCalls
        PROVE  Shape(SendChain(call))
    <2> DEFINE q == <<ErrPair(call), DefaultPair(call)>>
    <2>1. /\ DOMAIN q = {1, 2} /\ Len(q) = 2 /\ q[1] = ErrPair(call)
          /\ q[2] = DefaultPair(call) /\ 1 + 1 = 2
      OBVIOUS
    <2> HIDE DEF q
    <2>2. /\ q[1] \in MPair /\ Fits(q, 1)
          /\ q[2] \in MPair /\ Fits(q, 2)
      BY <2>1, <1>1, FitsByKind
    <2>3. Shape(q)
      BY <2>1, <2>2 DEF Shape
    <2> QED BY <2>3, ChainForms DEF q
  <1>6. ASSUME NEW s \in SessionIds, NEW m \in 1..MaxMessages
        PROVE  Shape(DispatchChain(s, m))
    <2> DEFINE q == <<DefaultPair(<<"get", s>>), SesPair, DispatchPair(s, m)>>
    <2>1. /\ DOMAIN q = {1, 2, 3} /\ Len(q) = 3 /\ q[1] = DefaultPair(<<"get", s>>)
          /\ q[2] = SesPair /\ q[3] = DispatchPair(s, m)
          /\ 1 + 1 = 2 /\ 1 + 2 = 3 /\ 2 + 1 = 3
      OBVIOUS
    <2> HIDE DEF q
    <2>2. /\ q[1] \in Firsts /\ q[3] \in Dispatches /\ Content(q[3]) = q[1].user_data
      BY <2>1, CallKinds DEF Firsts, Dispatches, Content, DispatchPair, DefaultPair, PairOf
    <2>3. /\ q[1] \in MPair /\ Fits(q, 1)
      BY <2>1, <2>2, FitsByKind
    <2>4. /\ q[2] \in MPair /\ Fits(q, 2) /\ q[3] \in MPair /\ Fits(q, 3)
      BY <2>1, <2>2, FitsByKind
    <2>5. Shape(q)
      BY <2>1, <2>3, <2>4 DEF Shape
    <2> QED BY <2>5, ChainForms DEF q
  <1>7. \A chain \in {CreateChain(call) \o SendChain(call) : call \in SendCalls} : Shape(chain)
    BY <1>4
  <1>8. \A chain \in {SendChain(call) : call \in SendCalls} : Shape(chain)
    BY <1>5
  <1>9. \A chain \in {DispatchChain(s, m) : s \in SessionIds, m \in 1..MaxMessages} :
          Shape(chain)
    BY <1>6
  <1> QED BY <1>2, <1>3, <1>7, <1>8, <1>9 DEF StartChains

(* Queues that handlers return are complete with the handle pairs.         *)
LEMMA ShapeReturned ==
  ASSUME NEW chain \in ReturnedChains, NEW hs \in Seq(Handles), hs # <<>>
  PROVE  /\ Shape(chain \o hs) /\ chain \in Seq(MPair) /\ chain \o hs \in Seq(MPair)
         /\ DOMAIN (chain \o hs) = 1..(Len(chain) + Len(hs))
         /\ \A i \in 1..Len(chain) : (chain \o hs)[i] = chain[i]
         /\ \A i \in 1..Len(hs) : (chain \o hs)[Len(chain) + i] = hs[i]
  <1> DEFINE q == chain \o hs
             n == Len(chain)
             m == Len(hs)
  <1>1. /\ \A call \in SendCalls :
             /\ DefaultPair(<<"create", call[2]>>) \in Firsts
             /\ DefaultPair(<<"create", call[2]>>).user_data = <<"create", call[2]>>
             /\ Content(DoSendPair(call)) = <<"create", call[2]>>
             /\ DoSendPair(call) \in DoSends
        /\ \A call \in Calls : RetryPair(call) \in Retries
    BY CallKinds DEF Firsts, DoSends, Retries, Content, DoSendPair, DefaultPair, PairOf
  <1>2. /\ n \in {0, 2, 3}
        /\ n = 0 => chain = <<>>
        /\ n = 2 => chain[1] = RefreshPair /\ chain[2] \in Retries
        /\ n = 3 => /\ chain[1] \in Firsts /\ chain[2] = SesPair /\ chain[3] \in DoSends
                    /\ Content(chain[3]) = chain[1].user_data
        /\ chain \in Seq(MPair)
    <2>1. CASE chain = <<>>
      BY <2>1
    <2>2. ASSUME NEW call \in SendCalls, chain = CreateChain(call)
          PROVE  <1>2
      <3>1. chain = <<DefaultPair(<<"create", call[2]>>), SesPair, DoSendPair(call)>>
        BY <2>2, ChainForms
      <3>2. /\ Len(chain) = 3 /\ chain[1] = DefaultPair(<<"create", call[2]>>)
            /\ chain[2] = SesPair /\ chain[3] = DoSendPair(call)
        BY <3>1
      <3>3. chain \in Seq(MPair)
        BY <1>1, <3>1 DEF MPair
      <3> QED BY <1>1, <3>2, <3>3
    <2>3. ASSUME NEW call \in Calls, chain = RefreshChain(call)
          PROVE  <1>2
      <3>1. chain = <<RefreshPair, RetryPair(call)>>
        BY <2>3, ChainForms
      <3>2. Len(chain) = 2 /\ chain[1] = RefreshPair /\ chain[2] = RetryPair(call)
        BY <3>1
      <3>3. chain \in Seq(MPair)
        BY <1>1, <3>1 DEF MPair
      <3> QED BY <1>1, <3>2, <3>3
    <2> QED BY <2>1, <2>2, <2>3 DEF ReturnedChains
  <1>3. hs \in Seq(MPair) /\ m \in Nat \ {0} /\ \A i \in 1..m : hs[i] \in Handles
    BY DEF MPair
  <1>4. DOMAIN q = 1..(n + m)
    BY <1>2, <1>3, ConcatProperties
  <1>5. \A i \in 1..n : q[i] = chain[i]
    BY <1>2, <1>3, ConcatProperties
  <1>6. \A j \in 1..m : q[n + j] = hs[j]
    BY <1>2, <1>3, ConcatProperties
  <1>7. Len(q) = n + m /\ q \in Seq(MPair)
    BY <1>2, <1>3
  <1>8. q[n + 1] \in Handles /\ n + 1 \in DOMAIN q /\ n \in Nat
    <2>1. 1 \in 1..m
      BY <1>3
    <2> QED BY <1>2, <1>3, <1>4, <1>6, <2>1
  <1> HIDE DEF q, n, m
  <1>9. ASSUME NEW k \in 1..(n + m), k > n
        PROVE  q[k] \in MPair /\ Fits(q, k)
    <2>1. PICK j \in 1..m : k = n + j
      <3>1. k - n \in 1..m /\ k = n + (k - n)
        BY <1>3, <1>8, <1>9
      <3> QED BY <3>1
    <2>2. q[k] \in Handles
      BY <1>3, <1>6, <2>1
    <2>3. k = Len(q) \/ q[k + 1] \in Handles
      <3>1. k # n + m => j + 1 \in 1..m /\ k + 1 = n + (j + 1)
        BY <1>3, <1>8, <2>1
      <3> QED BY <1>3, <1>6, <1>7, <3>1
    <2> QED BY <2>2, <2>3, FitsByKind
  <1>10. ASSUME NEW k \in 1..(n + m), k <= n
         PROVE  q[k] \in MPair /\ Fits(q, k)
    <2>1. CASE n = 2
      <3>1. q[1] = RefreshPair /\ q[2] \in Retries /\ q[3] \in Handles
              /\ 2 \in DOMAIN q /\ 3 \in DOMAIN q
        BY <1>2, <1>3, <1>4, <1>5, <1>8, <2>1
      <3>2. 1 + 1 = 2 /\ 2 + 1 = 3 /\ (k = 1 \/ k = 2)
        BY <1>10, <2>1
      <3> QED BY <3>1, <3>2, FitsByKind
    <2>2. CASE n = 3
      <3>1. /\ q[1] \in Firsts /\ q[2] = SesPair /\ q[3] \in DoSends
            /\ Content(q[3]) = q[1].user_data /\ q[4] \in Handles
            /\ 2 \in DOMAIN q /\ 3 \in DOMAIN q /\ 4 \in DOMAIN q
        BY <1>2, <1>3, <1>4, <1>5, <1>8, <2>2
      <3>2. 1 + 1 = 2 /\ 1 + 2 = 3 /\ 2 + 1 = 3 /\ 3 + 1 = 4 /\ (k = 1 \/ k = 2 \/ k = 3)
        BY <1>10, <2>2
      <3> QED BY <3>1, <3>2, FitsByKind
    <2>3. n # 0
      BY <1>10
    <2> QED BY <1>2, <2>1, <2>2, <2>3
  <1>11. \A k \in 1..(n + m) : k > n \/ k <= n
    BY <1>3, <1>8
  <1>12. Shape(q)
    BY <1>4, <1>9, <1>10, <1>11 DEF Shape
  <1> QED BY <1>2, <1>4, <1>5, <1>6, <1>7, <1>12 DEF q, n, m

-----------------------------------------------------------------------------
(* What the engine does gives errbacks nothing but faults.                 *)
LEMMA ErrorsStep ==
  ASSUME DInv, ErrorsAreFaults, [DNext]_dvars
  PROVE  ErrorsAreFaults'
  <1>0. DTypeOK /\ stack \in Seq(Frame)
    BY DEF DInv, DTypeOK
  <1>1. ASSUME NEW d, NEW mode, NEW val, mode = "err" => val \in Faults, Fire(d, mode, val)
        PROVE  ErrorsAreFaults'
    <2>1. stack = <<>> /\ (stack' = stack \/ stack' = <<[dfr |-> d, mode |-> mode, val |-> val]>>)
      BY <1>1 DEF Fire, Enter, Idle
    <2> QED BY <1>1, <2>1 DEF ErrorsAreFaults
  <1>2. ASSUME NEW mode, NEW val, mode = "err" => val \in Faults, GoOn(mode, val), Running
        PROVE  ErrorsAreFaults'
    <2>1. /\ DOMAIN stack' = DOMAIN stack
          /\ \A i \in DOMAIN stack :
               IF i = Depth THEN stack'[i].mode = mode /\ stack'[i].val = val
               ELSE stack'[i] = stack[i]
      BY <1>0, <1>2 DEF GoOn
    <2> QED BY <1>2, <2>1 DEF ErrorsAreFaults
  <1>3. CASE Resume
    <2>1. /\ Running /\ \/ stack' = stack
                        \/ \E t : stack' = Append(stack, [dfr |-> t, mode |-> Top.mode,
                                                          val |-> Top.val])
      BY <1>3 DEF Resume, Enter
    <2>2. ASSUME NEW t, stack' = Append(stack, [dfr |-> t, mode |-> Top.mode, val |-> Top.val])
          PROVE  ErrorsAreFaults'
      <3>1. /\ Depth \in Nat \ {0} /\ DOMAIN stack = 1..Depth /\ Depth \in DOMAIN stack
        BY <1>0, <2>1, RunningFrames
      <3>2. /\ DOMAIN stack' = 1..(Depth + 1) /\ stack'[Depth + 1].mode = Top.mode
            /\ stack'[Depth + 1].val = Top.val
            /\ \A i \in 1..Depth : stack'[i] = stack[i]
        BY <1>0, <2>2 DEF Depth
      <3>3. \A i \in 1..(Depth + 1) : i \in 1..Depth \/ i = Depth + 1
        BY <3>1
      <3> QED BY <3>1, <3>2, <3>3 DEF ErrorsAreFaults, Top
    <2> QED BY <2>1, <2>2 DEF ErrorsAreFaults
  <1>4. CASE FinishInner
    <2>1. stack' = [i \in 1..(Depth - 1) |->
                      IF i = Depth - 1
                      THEN [dfr |-> stack[i].dfr, mode |-> "cb", val |-> Top.val]
                      ELSE stack[i]]
      BY <1>4 DEF FinishInner
    <2>2. DOMAIN stack = 1..Depth /\ Depth \in Nat
      BY <1>0, <1>4, RunningFrames DEF FinishInner
    <2>3. \A i \in 1..(Depth - 1) : i \in DOMAIN stack
      BY <2>2
    <2> QED BY <2>1, <2>3 DEF ErrorsAreFaults
  <1>5. CASE FinishBase \/ SkipPair \/ DropPending \/ UNCHANGED dvars
    <2>1. stack' = stack \/ stack' = <<>>
      BY <1>5 DEF FinishBase, SkipPair, DropPending, dvars
    <2> QED BY <2>1 DEF ErrorsAreFaults
  <1>6. CASE \E d \in Deferreds, chain \in Chains, registered \in BOOLEAN :
               Build(d, chain, registered) \/ Chain(d, chain, registered)
    <2>1. stack' = stack \/ stack' = <<>>
      BY <1>6 DEF Build, Chain
    <2> QED BY <2>1 DEF ErrorsAreFaults
  <1>7. CASE Respond
    BY <1>2, <1>7 DEF Respond, InHandler
  <1>8. ASSUME NEW f \in Faults, Fault(f)
        PROVE  ErrorsAreFaults'
    BY <1>2, <1>8 DEF Fault, InHandler
  <1> QED
    BY <1>1, <1>3, <1>4, <1>5, <1>6, <1>7, <1>8 DEF DNext, UserCode, Engine

(* Popping the innermost queue leaves the rest of it.                      *)
LEMMA ShapePopped ==
  ASSUME EngineOK, Running, Current # <<>>
  PROVE  /\ \A d \in Deferreds : Shape(Popped[d])
         /\ Top.dfr \in Deferreds /\ Top.dfr \in built
         /\ Current = callbacks[Top.dfr] /\ Current \in Seq(Pair)
         /\ 1 \in DOMAIN Current /\ Head(Current) = Current[1]
         /\ Current[1] \in MPair /\ Fits(Current, 1)
         /\ Popped[Top.dfr] = Tail(Current)
         /\ \A e \in Deferreds \ {Top.dfr} : Popped[e] = callbacks[e]
  <1>1. DTypeOK
    BY DEF EngineOK, DInv
  <1>2. Top.dfr \in Deferreds /\ Current \in Seq(Pair) /\ Depth \in DOMAIN stack
    BY <1>1, RunningFrames
  <1>3. /\ Popped[Top.dfr] = Tail(Current) /\ Current = callbacks[Top.dfr]
        /\ \A e \in Deferreds \ {Top.dfr} : Popped[e] = callbacks[e]
    BY <1>1, <1>2 DEF Popped, Current, DTypeOK
  <1>4. Shape(Current)
    BY <1>2, <1>3 DEF EngineOK, QueuesShaped
  <1>5. Shape(Tail(Current))
    BY <1>2, <1>4, ShapeTail
  <1>6. \A d \in Deferreds : Shape(Popped[d])
    BY <1>3, <1>5 DEF EngineOK, QueuesShaped
  <1>7. 1 \in DOMAIN Current /\ Head(Current) = Current[1]
    BY <1>2, TailProperties
  <1>8. Current[1] \in MPair /\ Fits(Current, 1)
    BY <1>4, <1>7 DEF Shape
  <1>9. Top.dfr \in built
    BY <1>2 DEF EngineOK, DInv, StackSound, Top
  <1> QED BY <1>2, <1>3, <1>6, <1>7, <1>8, <1>9

(* The pairs appended to a returned queue.                                 *)
LEMMA AppendedHandles ==
  ASSUME DTypeOK, Running
  PROVE  HandlePairs \in Seq(Handles) /\ HandlePairs # <<>>
  <1>1. Depth \in Nat \ {0} /\ \A i \in 1..Depth : stack[Depth + 1 - i].dfr \in Deferreds
    <2>1. \A i \in 1..Depth : Depth + 1 - i \in 1..Depth
      BY RunningFrames
    <2> QED BY <2>1, RunningFrames
  <1>2. HandlePairs \in [1..Depth -> Handles]
    BY <1>1 DEF HandlePairs, Handles
  <1>3. HandlePairs \in Seq(Handles) /\ Len(HandlePairs) = Depth
    BY <1>1, <1>2, SequenceFromFunction
  <1> QED BY <1>1, <1>3

EngineStep == [DNext]_dvars /\ EngineOK'

(* A step of the engine that leaves the queues in shape.                   *)
LEMMA EngineGoes ==
  ASSUME EngineOK, [DNext]_dvars, QueuesShaped'
  PROVE  EngineStep
  BY InvStep, SpentStep, ErrorsStep DEF EngineOK, EngineStep

(* The engine does not move.                                               *)
LEMMA EngineStill ==
  ASSUME EngineOK, UNCHANGED dvars
  PROVE  EngineStep
  <1>1. QueuesShaped'
    BY DEF dvars, EngineOK, QueuesShaped, Shape, Fits
  <1> QED BY <1>1, EngineGoes

(* An event builds a deferred.                                             *)
LEMMA EngineBuilds ==
  ASSUME EngineOK, NEW d, NEW chain \in StartChains, NEW registered \in BOOLEAN,
         Build(d, chain, registered)
  PROVE  EngineStep /\ d \in Deferreds
  <1>1. d \in Deferreds /\ callbacks' = [callbacks EXCEPT ![d] = chain]
    BY DEF Build, Allocate
  <1>2. chain \in Chains
    BY MessagingAssumption DEF StartChains, MessagingChains
  <1>3. [DNext]_dvars
    BY <1>1, <1>2 DEF DNext
  <1>4. /\ callbacks'[d] = chain
        /\ \A e \in Deferreds \ {d} : callbacks'[e] = callbacks[e]
    BY <1>1 DEF EngineOK, DInv, DTypeOK
  <1>5. QueuesShaped'
    BY <1>4, ShapeStart DEF EngineOK, QueuesShaped, Shape, Fits
  <1> QED BY <1>1, <1>3, <1>5, EngineGoes

(* An answer fires a deferred.                                             *)
LEMMA EngineFires ==
  ASSUME EngineOK, NEW d,
         Fire(d, "cb", RESPONSE) \/ \E f \in Faults : Fire(d, "err", f)
  PROVE  EngineStep /\ d \in Deferreds
  <1>1. d \in Deferreds /\ callbacks' = callbacks
    BY DEF Fire, EngineOK, DInv, DTypeOK
  <1>2. [DNext]_dvars
    BY <1>1 DEF DNext
  <1>3. QueuesShaped'
    BY <1>1 DEF EngineOK, QueuesShaped, Shape, Fits
  <1> QED BY <1>1, <1>2, <1>3, EngineGoes

(* A handler responds ...                                                  *)
LEMMA EngineResponds ==
  ASSUME EngineOK, Respond
  PROVE  EngineStep
  <1>1. [DNext]_dvars
    BY DEF DNext, UserCode
  <1>2. Running /\ Current # <<>> /\ callbacks' = Popped
    BY DEF Respond, InHandler
  <1>3. QueuesShaped'
    BY <1>2, ShapePopped DEF QueuesShaped, Shape, Fits
  <1> QED BY <1>1, <1>3, EngineGoes

(* ... or faults ...                                                       *)
LEMMA EngineFaults ==
  ASSUME EngineOK, NEW f \in Faults, Fault(f)
  PROVE  EngineStep
  <1>1. [DNext]_dvars
    BY DEF DNext, UserCode
  <1>2. Running /\ Current # <<>> /\ callbacks' \in {callbacks, Popped}
    BY DEF Fault, InHandler, FaultedQueue
  <1>3. QueuesShaped'
    BY <1>2, ShapePopped DEF EngineOK, QueuesShaped, Shape, Fits
  <1> QED BY <1>1, <1>3, EngineGoes

(* ... or returns a deferred.                                              *)
LEMMA EngineChains ==
  ASSUME EngineOK, NEW d, NEW chain \in ReturnedChains, Chain(d, chain, TRUE)
  PROVE  EngineStep /\ d \in Deferreds
  <1>1. /\ DTypeOK /\ Running /\ Current # <<>> /\ d \in Deferreds
        /\ callbacks' = [Popped EXCEPT ![d] = chain \o HandlePairs]
    BY DEF Chain, Allocate, InHandler, EngineOK, DInv
  <1>2. chain \in Chains
    <2>1. chain \in MessagingChains
      BY DEF ReturnedChains, MessagingChains
    <2> QED BY <2>1, MessagingAssumption
  <1>3. [DNext]_dvars
    BY <1>1, <1>2 DEF DNext, UserCode
  <1>4. Popped \in [Deferreds -> Seq(Pair)]
    BY <1>1, PoppedType
  <1>5. /\ callbacks'[d] = chain \o HandlePairs
        /\ \A e \in Deferreds \ {d} : callbacks'[e] = Popped[e]
    BY <1>1, <1>4
  <1>6. Shape(chain \o HandlePairs)
    BY <1>1, AppendedHandles, ShapeReturned
  <1>7. QueuesShaped'
    BY <1>1, <1>5, <1>6, ShapePopped DEF QueuesShaped, Shape, Fits
  <1> QED BY <1>1, <1>3, <1>7, EngineGoes

(* The loops of the engine go on.                                          *)
LEMMA EngineRuns ==
  ASSUME EngineOK, Engine
  PROVE  EngineStep
  <1>1. [DNext]_dvars
    BY DEF DNext
  <1>2. callbacks' = callbacks \/ (Running /\ Current # <<>> /\ callbacks' = Popped)
    BY DEF Engine, SkipPair, Resume, FinishInner, FinishBase
  <1>3. QueuesShaped'
    BY <1>2, ShapePopped DEF EngineOK, QueuesShaped, Shape, Fits
  <1> QED BY <1>1, <1>3, EngineGoes

-----------------------------------------------------------------------------
(* The pair whose handler is called.                                       *)
LEMMA CalledPair ==
  ASSUME EngineOK, NEW h \in Names, Calling(h)
  PROVE  /\ Running /\ Current # <<>> /\ Head(Current) = Current[1]
         /\ Current[1] \in MPair
         /\ \/ Top.mode = "cb" /\ Current[1].cb = h
            \/ Top.mode = "err" /\ Current[1].err = h /\ Top.val \in Faults
  <1>1. DTypeOK /\ Running /\ Current # <<>> /\ Handler = h
    BY DEF Calling, InHandler, EngineOK, DInv
  <1>2. /\ Top.mode \in {"cb", "err"} /\ Depth \in DOMAIN stack
    BY <1>1, RunningFrames
  <1>3. Top.mode = "err" => Top.val \in Faults
    BY <1>2 DEF EngineOK, ErrorsAreFaults, Top
  <1>4. Current[1] \in MPair /\ Head(Current) = Current[1]
    BY <1>1, ShapePopped
  <1>5. IF Top.mode = "cb" THEN Current[1].cb = h ELSE Current[1].err = h
    BY <1>1, <1>4 DEF Handler
  <1> QED BY <1>1, <1>2, <1>3, <1>4, <1>5

(* Which pair each callback and each errback belongs to.                   *)
LEMMA HandlerPairs ==
  ASSUME EngineOK
  PROVE  /\ Calling("default_cb") => Top.mode = "cb" /\ Current[1] \in Firsts \cup Finals
         /\ Calling("session_cb") => Top.mode = "cb" /\ Current[1] = SesPair
         /\ Calling("do_send_im") => Top.mode = "cb" /\ Current[1] \in DoSends
         /\ Calling("retry_cb") => Top.mode = "cb" /\ Current[1] \in Retries
         /\ Calling("refresh_workspace_cb") => Top.mode = "cb" /\ Current[1] = RefreshPair
         /\ Calling("dispatch_message") => Top.mode = "cb" /\ Current[1] \in Dispatches
         /\ Calling("get_contacts_cb") => Top.mode = "cb" /\ Current[1] = GetContactsPair
         /\ Calling("contacts_cb") => Top.mode = "cb" /\ Current[1] = ContactsPair
         /\ Calling("default_err") => /\ Top.mode = "err" /\ Top.val \in Faults
                                      /\ Current[1] \in Firsts \cup Finals
         /\ Calling("session_err") => /\ Top.mode = "err" /\ Top.val \in Faults
                                      /\ Current[1] = SesPair
         /\ Calling("messaging_err") => /\ Top.mode = "err" /\ Top.val \in Faults
                                        /\ Current[1] \in Errs
         /\ Calling("get_contacts_err") => /\ Top.mode = "err" /\ Top.val \in Faults
                                           /\ Current[1] = GetContactsPair
         /\ Calling("contacts_err") => /\ Top.mode = "err" /\ Top.val \in Faults
                                       /\ Current[1] = ContactsPair
         /\ \A h \in Names : Calling(h) => Running /\ Current # <<>> /\ Head(Current) = Current[1]
  <1>1. /\ HANDLE \notin Names /\ NULL \notin Names
    BY NamesDiffer
  <1>2. ASSUME NEW h \in Names, Calling(h)
        PROVE  /\ Running /\ Current # <<>> /\ Head(Current) = Current[1]
               /\ Current[1] \in MPair
               /\ \/ Top.mode = "cb" /\ Current[1].cb = h
                  \/ Top.mode = "err" /\ Current[1].err = h /\ Top.val \in Faults
    BY <1>2, CalledPair
  <1>3. /\ Calling("default_cb") => Top.mode = "cb" /\ Current[1] \in Firsts \cup Finals
        /\ Calling("session_cb") => Top.mode = "cb" /\ Current[1] = SesPair
        /\ Calling("do_send_im") => Top.mode = "cb" /\ Current[1] \in DoSends
        /\ Calling("retry_cb") => Top.mode = "cb" /\ Current[1] \in Retries
    BY <1>1, <1>2, PairKindsDiffer DEF MPair, Names
  <1>4. /\ Calling("refresh_workspace_cb") => Top.mode = "cb" /\ Current[1] = RefreshPair
        /\ Calling("dispatch_message") => Top.mode = "cb" /\ Current[1] \in Dispatches
        /\ Calling("get_contacts_cb") => Top.mode = "cb" /\ Current[1] = GetContactsPair
        /\ Calling("contacts_cb") => Top.mode = "cb" /\ Current[1] = ContactsPair
    BY <1>1, <1>2, PairKindsDiffer DEF MPair, Names
  <1>5. /\ Calling("default_err") => /\ Top.mode = "err" /\ Top.val \in Faults
                                     /\ Current[1] \in Firsts \cup Finals
        /\ Calling("session_err") => /\ Top.mode = "err" /\ Top.val \in Faults
                                     /\ Current[1] = SesPair
        /\ Calling("messaging_err") => /\ Top.mode = "err" /\ Top.val \in Faults
                                       /\ Current[1] \in Errs
    BY <1>1, <1>2, PairKindsDiffer DEF MPair, Names
  <1>6. /\ Calling("get_contacts_err") => /\ Top.mode = "err" /\ Top.val \in Faults
                                          /\ Current[1] = GetContactsPair
        /\ Calling("contacts_err") => /\ Top.mode = "err" /\ Top.val \in Faults
                                      /\ Current[1] = ContactsPair
    BY <1>1, <1>2, PairKindsDiffer DEF MPair, Names
  <1> QED BY <1>2, <1>3, <1>4, <1>5, <1>6

-----------------------------------------------------------------------------
Session == [users : SUBSET Contacts, last : 0..MaxMessages]

(* The contacts and their sessions.                                        *)
TypedSessions ==
  /\ list \in 1..MaxLists
  /\ session_id \in [Contacts -> SessionIds \cup {NULL}]
  /\ DOMAIN sessions \subseteq SessionIds
  /\ sessions \in [DOMAIN sessions -> Session]
  /\ stale \subseteq SessionIds \cup {"workspace", "refresh"}
  /\ faults \in 0..MaxFaults

(* The messages.                                                           *)
TypedMessages ==
  /\ sent \subseteq Ims
  /\ accepted \in Seq(Ims \X SessionIds)
  /\ delivered \in Seq(SessionIds)
  /\ shown \in Seq(DOMAIN delivered)
  /\ conversation \in [Users -> SessionIds \cup {NULL}]
  /\ marked \in [SessionIds -> 0..MaxMessages]

TypedRequests == \A d \in pending : request[d] \in Requests

(* A request is sent with a queue that begins by reading its response, or  *)
(* that reads none; a message is fetched a session when it arrives.        *)
Opens(chain, content) ==
  \/ chain = <<>>
  \/ \E call \in SendCalls : chain = SendChain(call)
  \/ \E call \in SendCalls : /\ chain = CreateChain(call) \o SendChain(call)
                             /\ content = <<"create", call[2]>>
  \/ \E s \in SessionIds, m \in 1..MaxMessages :
       /\ chain = DispatchChain(s, m) /\ content = <<"get", s>>
       /\ m = Len(delivered) + 1 /\ delivered' = Append(delivered, s)
  \/ chain = ContactsChain /\ content = <<"contacts">>

(* The ways in which a step can use the engine and its table of requests.  *)
Builds(d, chain, content) ==
  /\ Build(d, chain, TRUE) /\ Sends(d, content) /\ Idle /\ Opens(chain, content)
  /\ content = <<"contacts">> => /\ list < MaxLists
                                 /\ \A e \in pending : request[e] # <<"contacts">>
  /\ chain = ContactsChain => content = <<"contacts">>
BuildsAlone(d) == Build(d, <<>>, FALSE) /\ Idle /\ UNCHANGED request
Fires(d) ==
  /\ Fire(d, "cb", RESPONSE) \/ \E f \in Faults : Fire(d, "err", f)
  /\ UNCHANGED request
Responds ==
  /\ Respond /\ UNCHANGED request
  /\ \/ /\ Top.mode = "cb"
        /\ Current[1] \in Firsts \cup Finals \cup Dispatches
                            \cup {SesPair, RefreshPair, GetContactsPair}
     \/ Current[1] = ContactsPair
FaultsWith(f) ==
  /\ Fault(f) /\ UNCHANGED request
  /\ \/ Top.mode = "err" /\ Current[1] \in Firsts \cup Finals \cup Errs
     \/ Current[1] \in {SesPair, RefreshPair, GetContactsPair}
  /\ Current[1] \in Errs => f = Top.val
Refreshes(d, call) ==
  /\ Chain(d, RefreshChain(call), TRUE) /\ Sends(d, <<"refresh">>)
  /\ Top.mode = "err" /\ Top.val # "other"
  /\ Current[1] = DefaultPair(call) /\ Current[1] \in Firsts \cup Finals
MakesCall(d, call) ==
  /\ Chain(d, ChainOf(call), TRUE) /\ Sends(d, RequestOf(call))
  /\ \/ Current[1] = RetryPair(call) /\ Current[1] \in Retries
     \/ Current[1] = DoSendPair(call) /\ Current[1] \in DoSends
Keeps == UNCHANGED <<dvars, request>>

Uses ==
  \/ Keeps
  \/ \E d \in Deferreds, chain \in StartChains, content \in Requests :
       Builds(d, chain, content)
  \/ \E d \in Deferreds : BuildsAlone(d) \/ Fires(d)
  \/ Responds
  \/ \E f \in Faults : FaultsWith(f)
  \/ \E d \in Deferreds, call \in Calls : Refreshes(d, call) \/ MakesCall(d, call)
  \/ RunEngine

(* The request of a call, and the queue that goes with it.                 *)
LEMMA CallRequests ==
  ASSUME TypedSessions, NEW call \in Calls
  PROVE  /\ RequestOf(call) \in Requests /\ ChainOf(call) \in ReturnedChains
         /\ NeedsSession(call) => /\ call \in SendCalls /\ ChainOf(call) = CreateChain(call)
                                  /\ RequestOf(call) = <<"create", call[2]>>
         /\ ~NeedsSession(call) => ChainOf(call) = <<>>
         /\ call \notin SendCalls => RequestOf(call) = call /\ ~NeedsSession(call)
         /\ call \in SendCalls /\ ~NeedsSession(call) =>
              /\ session_id[Contact(call)] \in SessionIds
              /\ RequestOf(call) = <<"message", session_id[Contact(call)], call[4]>>
  <1>1. CASE NeedsSession(call)
    <2>1. call \in SendCalls
      BY <1>1, CallKinds DEF NeedsSession
    <2>2. RequestOf(call) = <<"create", call[2]>> /\ ChainOf(call) = CreateChain(call)
      BY <1>1 DEF RequestOf, ChainOf
    <2>3. RequestOf(call) \in Requests
      BY <2>1, <2>2, CallKinds DEF Requests
    <2> QED BY <1>1, <2>1, <2>2, <2>3 DEF ReturnedChains
  <1>2. CASE ~NeedsSession(call) /\ call \in SendCalls
    <2>1. call[1] = "send" /\ HasSession(Contact(call)) /\ call[4] \in Ims
      BY <1>2, CallKinds DEF NeedsSession
    <2>2. session_id[Contact(call)] \in SessionIds
      BY <2>1 DEF HasSession, Known, TypedSessions
    <2>3. RequestOf(call) = <<"message", session_id[Contact(call)], call[4]>>
      BY <1>2, <2>1 DEF RequestOf
    <2>4. ChainOf(call) = <<>>
      BY <1>2 DEF ChainOf
    <2> QED BY <1>2, <2>1, <2>2, <2>3, <2>4 DEF Requests, ReturnedChains
  <1>3. CASE call \notin SendCalls
    <2>1. call[1] # "send" /\ call \in Requests
      BY <1>3, CallKinds DEF Requests
    <2>2. ~NeedsSession(call)
      BY <2>1 DEF NeedsSession
    <2>3. RequestOf(call) = call /\ ChainOf(call) = <<>>
      BY <2>1, <2>2 DEF RequestOf, ChainOf
    <2> QED BY <1>3, <2>1, <2>2, <2>3 DEF ReturnedChains
  <1> QED BY <1>1, <1>2, <1>3

(* The events.                                                             *)
LEMMA EventsUse ==
  ASSUME EngineOK, TypedSessions, TypedMessages, Events
  PROVE  Uses
  <1>0. \A d, chain, r : Build(d, chain, r) => d \in Deferreds
    BY DEF Build, Allocate
  <1>1. ASSUME NEW u \in Users, NEW im \in Ims, SendIm(u, im)
        PROVE  Uses
    <2> DEFINE call == <<"send", u, list, im>>
    <2>1. call \in SendCalls /\ call \in Calls /\ call[2] = u
      BY DEF TypedSessions, SendCalls, Calls
    <2>2. PICK d \in Deferreds : /\ Build(d, ChainOf(call) \o SendChain(call), TRUE)
                                 /\ Sends(d, RequestOf(call))
      BY <1>0, <1>1 DEF SendIm, BuildRequest
    <2>3. Idle
      BY <1>1 DEF SendIm
    <2>4. ContactsChain[1] # SendChain(call)[1]
            /\ ContactsChain[1] # (CreateChain(call) \o SendChain(call))[1]
      <3>1. ContactsChain[1] = GetContactsPair /\ SendChain(call)[1] = ErrPair(call)
              /\ (CreateChain(call) \o SendChain(call))[1] = DefaultPair(<<"create", call[2]>>)
        BY ChainForms
      <3>2. GetContactsPair.cb = "get_contacts_cb" /\ ErrPair(call).cb = NULL
              /\ DefaultPair(<<"create", call[2]>>).cb = "default_cb"
        BY DEF GetContactsPair, ErrPair, DefaultPair, PairOf
      <3> QED BY <3>1, <3>2, NamesDiffer DEF Names
    <2> HIDE DEF call
    <2>5. CASE NeedsSession(call)
      <3>1. /\ ChainOf(call) = CreateChain(call) /\ RequestOf(call) = <<"create", call[2]>>
            /\ RequestOf(call) \in Requests
        BY <2>1, <2>5, CallRequests
      <3>2. CreateChain(call) \o SendChain(call) \in StartChains
        BY <2>1 DEF StartChains
      <3>3. RequestOf(call) # <<"contacts">>
        BY <3>1
      <3>4. Builds(d, CreateChain(call) \o SendChain(call), RequestOf(call))
        BY <2>1, <2>2, <2>3, <2>4, <3>1, <3>3 DEF Builds, Opens
      <3> QED BY <3>1, <3>2, <3>4 DEF Uses
    <2>6. CASE ~NeedsSession(call)
      <3>1. /\ ChainOf(call) = <<>> /\ RequestOf(call) \in Requests
            /\ RequestOf(call) = <<"message", session_id[Contact(call)], call[4]>>
        BY <2>1, <2>6, CallRequests
      <3>2. ChainOf(call) \o SendChain(call) = SendChain(call)
        <4>1. SendChain(call) = <<ErrPair(call), DefaultPair(call)>>
          BY ChainForms
        <4>2. SendChain(call) \in Seq({ErrPair(call), DefaultPair(call)})
          BY <4>1
        <4> QED BY <3>1, <4>2
      <3>3. SendChain(call) \in StartChains
        BY <2>1 DEF StartChains
      <3>4. RequestOf(call) # <<"contacts">> /\ SendChain(call) # ContactsChain
        BY <2>4, <3>1
      <3>5. Opens(SendChain(call), RequestOf(call))
        BY <2>1 DEF Opens
      <3>6. Builds(d, SendChain(call), RequestOf(call))
        BY <2>2, <2>3, <3>2, <3>4, <3>5 DEF Builds
      <3> QED BY <3>1, <3>3, <3>6 DEF Uses
    <2> QED BY <2>5, <2>6
  <1>2. ASSUME NEW u \in Users, MarkAsRead(u)
        PROVE  Uses
    <2> DEFINE s == conversation[u]
    <2>0. <<>> # ContactsChain /\ <<>> \in StartChains
      BY ChainForms DEF StartChains
    <2>1. CASE sessions[s].last > 0
      <3>1. PICK d \in Deferreds : /\ Build(d, <<>>, TRUE)
                                   /\ Sends(d, <<"read", s, sessions[s].last>>)
        BY <1>0, <1>2, <2>1 DEF MarkAsRead, BuildRequest
      <3>2. <<"read", s, sessions[s].last>> \in Requests
        <4>1. s \in SessionIds /\ sessions[s] \in Session
          BY <1>2 DEF MarkAsRead, Known, TypedSessions
        <4>2. sessions[s].last \in 0..MaxMessages
          BY <4>1 DEF Session
        <4>3. sessions[s].last \in 1..MaxMessages
          BY <2>1, <4>2
        <4> QED BY <4>1, <4>3 DEF Requests
      <3>3. <<"read", s, sessions[s].last>> # <<"contacts">>
        OBVIOUS
      <3>4. Builds(d, <<>>, <<"read", s, sessions[s].last>>)
        BY <1>2, <2>0, <3>1, <3>3 DEF Builds, Opens, MarkAsRead
      <3> QED BY <2>0, <3>2, <3>4 DEF Uses
    <2>2. CASE ~(sessions[s].last > 0)
      <3>1. PICK d \in Deferreds : Build(d, <<>>, FALSE) /\ UNCHANGED request
        BY <1>0, <1>2, <2>2 DEF MarkAsRead
      <3> QED BY <1>2, <3>1 DEF Uses, BuildsAlone, MarkAsRead
    <2> QED BY <2>1, <2>2
  <1>3. ASSUME NEW s \in SessionIds, MessageReceived(s)
        PROVE  Uses
    <2> DEFINE m == Len(delivered) + 1
    <2>1. CASE Known(s)
      BY <1>3, <2>1 DEF MessageReceived, Uses, Keeps
    <2>2. CASE ~Known(s)
      <3>1. PICK d \in Deferreds : Build(d, DispatchChain(s, m), TRUE) /\ Sends(d, <<"get", s>>)
        BY <1>0, <1>3, <2>2 DEF MessageReceived, BuildRequest
      <3>2. m \in 1..MaxMessages
        BY <1>3, BoundsAssumption DEF MessageReceived, TypedMessages
      <3>3. DispatchChain(s, m) # ContactsChain
        <4>1. Len(DispatchChain(s, m)) = 3 /\ Len(ContactsChain) = 2
          BY ChainForms
        <4> QED BY <4>1
      <3>7. m = Len(delivered) + 1 /\ delivered' = Append(delivered, s)
        BY <1>3 DEF MessageReceived
      <3> HIDE DEF m
      <3>4. <<"get", s>> \in Requests /\ <<"get", s>> # <<"contacts">>
        BY DEF Requests
      <3>5. DispatchChain(s, m) \in StartChains
        BY <3>2 DEF StartChains
      <3>6. Builds(d, DispatchChain(s, m), <<"get", s>>)
        BY <1>3, <3>1, <3>2, <3>3, <3>4, <3>7 DEF Builds, Opens, MessageReceived
      <3> QED BY <3>4, <3>5, <3>6 DEF Uses
    <2> QED BY <2>1, <2>2
  <1>4. ASSUME NEW s \in SessionIds, SessionCreated(s)
        PROVE  Uses
    BY <1>4 DEF SessionCreated, Uses, Keeps
  <1>5. CASE RefreshContacts
    <2>1. PICK d \in Deferreds : Build(d, ContactsChain, TRUE) /\ Sends(d, <<"contacts">>)
      BY <1>0, <1>5 DEF RefreshContacts, BuildRequest
    <2>2. ContactsChain \in StartChains /\ <<"contacts">> \in Requests
      BY DEF StartChains, Requests
    <2>3. Builds(d, ContactsChain, <<"contacts">>)
      BY <1>5, <2>1 DEF Builds, Opens, RefreshContacts
    <2> QED BY <2>2, <2>3 DEF Uses
  <1> QED BY <1>1, <1>2, <1>3, <1>4, <1>5 DEF Events

(* The handlers.                                                           *)
LEMMA HandlersUse ==
  ASSUME EngineOK, TypedSessions, Handlers
  PROVE  Uses
  <1>0. /\ \A d, chain, r : Chain(d, chain, r) => d \in Deferreds
        /\ "text" \in Faults
        /\ \A p \in Firsts \cup Finals \cup {SesPair, RefreshPair, GetContactsPair} : p \notin Errs
    BY MessagingAssumption, PairKindsDiffer, NamesDiffer DEF Chain, Allocate, Names
  <1>1. CASE PassOn
    <2>1. CASE Respond
      <3>1. Calling("default_cb") \/ Calling("contacts_cb") \/ Calling("contacts_err")
        <4>1. ~(Fault(Top.val) /\ (Calling("session_err") \/ Calling("get_contacts_err")))
          <5>1. DTypeOK /\ Running => Depth \in DOMAIN stack /\ stack \in Seq(Frame)
            BY RunningFrames DEF DTypeOK
          <5>2. Respond => stack'[Depth].mode = "cb"
            BY <5>1 DEF EngineOK, DInv, Respond, InHandler, GoOn
          <5>3. \A f : Fault(f) => stack'[Depth].mode = "err"
            BY <5>1 DEF EngineOK, DInv, Fault, InHandler, GoOn
          <5> QED BY <2>1, <5>2, <5>3
        <4> QED BY <1>1, <4>1 DEF PassOn
      <3>2. UNCHANGED request
        BY <1>1 DEF PassOn, ownvars
      <3>3. Responds
        BY <2>1, <3>1, <3>2, HandlerPairs DEF Responds
      <3> QED BY <3>3 DEF Uses
    <2>2. CASE ~Respond
      <3>1. Fault(Top.val) /\ (Calling("session_err") \/ Calling("get_contacts_err"))
        BY <1>1, <2>2 DEF PassOn
      <3>2. UNCHANGED request
        BY <1>1 DEF PassOn, ownvars
      <3>3. Top.val \in Faults /\ FaultsWith(Top.val)
        BY <3>1, <3>2, HandlerPairs DEF FaultsWith
      <3> QED BY <3>3 DEF Uses
    <2> QED BY <2>1, <2>2
  <1>2. CASE Invalid
    <2>1. FaultsWith("text")
      BY <1>2, <1>0, HandlerPairs DEF FaultsWith, Invalid
    <2> QED BY <1>0, <2>1 DEF Uses
  <1>3. CASE DefaultErr
    <2>1. /\ Current[1] \in Firsts \cup Finals /\ Head(Current) = Current[1]
          /\ Top.mode = "err"
      BY <1>3, HandlerPairs DEF DefaultErr, Names
    <2> DEFINE call == Head(Current).user_data
    <2>2. call \in Calls /\ Current[1] = DefaultPair(call)
      <3>1. \A p \in Firsts \cup Finals : p.user_data \in Calls /\ p = DefaultPair(p.user_data)
        BY CallKinds DEF Firsts, Finals, DefaultPair, PairOf
      <3> QED BY <2>1, <3>1
    <2>3. CASE Fault("text") /\ UNCHANGED request
      BY <1>0, <2>1, <2>3 DEF Uses, FaultsWith
    <2>4. CASE /\ ChainRequest(RefreshChain(call), <<"refresh">>)
               /\ TRUE \in ReadsAs1003(Top.val)
      <3>1. PICK d \in Deferreds : /\ Chain(d, RefreshChain(call), TRUE)
                                   /\ Sends(d, <<"refresh">>)
        BY <1>0, <2>4 DEF ChainRequest
      <3>2. Top.val # "other"
        BY <2>4 DEF ReadsAs1003
      <3>3. Refreshes(d, call)
        BY <2>1, <2>2, <3>1, <3>2 DEF Refreshes
      <3> QED BY <2>2, <3>3 DEF Uses
    <2> QED BY <1>3, <2>3, <2>4 DEF DefaultErr
  <1>4. CASE MakeCall
    <2> DEFINE call == Head(Current).user_data
    <2>1. /\ Head(Current) = Current[1] /\ Current[1] \in Retries \cup DoSends
      BY <1>4, HandlerPairs DEF MakeCall, Names
    <2>2. /\ call \in Calls
          /\ \/ Current[1] = RetryPair(call) /\ Current[1] \in Retries
             \/ Current[1] = DoSendPair(call) /\ Current[1] \in DoSends
      <3>1. /\ \A p \in Retries : p.user_data \in Calls /\ p = RetryPair(p.user_data)
            /\ \A p \in DoSends : p.user_data \in Calls /\ p = DoSendPair(p.user_data)
        BY CallKinds DEF Retries, DoSends, RetryPair, DoSendPair, PairOf
      <3> QED BY <2>1, <3>1
    <2>3. PICK d \in Deferreds : Chain(d, ChainOf(call), TRUE) /\ Sends(d, RequestOf(call))
      BY <1>0, <1>4 DEF MakeCall, ChainRequest
    <2>4. MakesCall(d, call)
      BY <2>2, <2>3 DEF MakesCall
    <2> QED BY <2>2, <2>4 DEF Uses
  <1>5. CASE RefreshWorkspaceCb \/ SessionCb \/ DispatchMessage \/ GetContactsCb
    <2>1. Responds
      BY <1>5, HandlerPairs
      DEF Responds, RefreshWorkspaceCb, SessionCb, DispatchMessage, GetContactsCb
    <2> QED BY <2>1 DEF Uses
  <1>6. CASE MessagingErr
    <2>1. Top.val \in Faults /\ FaultsWith(Top.val)
      BY <1>6, HandlerPairs DEF FaultsWith, MessagingErr
    <2> QED BY <2>1 DEF Uses
  <1> QED BY <1>1, <1>2, <1>3, <1>4, <1>5, <1>6 DEF Handlers

(* Every step uses the engine in one of these ways.                        *)
LEMMA StepsUse ==
  ASSUME EngineOK, TypedSessions, TypedMessages, [MNext]_mvars
  PROVE  Uses
  <1>1. CASE Answers
    <2>1. PICK d \in Deferreds : Reply(d) \/ ExpiredReply(d) \/ OtherFault(d)
      BY <1>1 DEF Answers
    <2>2. "1003" \in Faults /\ "other" \in Faults
      BY MessagingAssumption
    <2>3. Fires(d)
      BY <2>1, <2>2 DEF Fires, Reply, ExpiredReply, OtherFault
    <2> QED BY <2>3 DEF Uses
  <1>2. CASE UNCHANGED mvars
    BY <1>2 DEF mvars, ownvars, Uses, Keeps
  <1> QED BY <1>1, <1>2, EventsUse, HandlersUse DEF MNext, Uses

(* Each of these ways is one of the engine's own, and keeps its queues in  *)
(* shape.                                                                  *)
LEMMA UsesGo ==
  ASSUME EngineOK, TypedSessions, Uses
  PROVE  EngineStep
  <1>1. ASSUME NEW d \in Deferreds, NEW chain \in StartChains, NEW content \in Requests,
               Builds(d, chain, content)
        PROVE  EngineStep
    BY <1>1, EngineBuilds DEF Builds
  <1>2. ASSUME NEW d \in Deferreds, BuildsAlone(d) \/ Fires(d)
        PROVE  EngineStep
    <2>1. <<>> \in StartChains
      BY DEF StartChains
    <2> QED BY <1>2, <2>1, EngineBuilds, EngineFires DEF BuildsAlone, Fires
  <1>3. CASE Responds
    BY <1>3, EngineResponds DEF Responds
  <1>4. ASSUME NEW f \in Faults, FaultsWith(f)
        PROVE  EngineStep
    BY <1>4, EngineFaults DEF FaultsWith
  <1>5. ASSUME NEW d \in Deferreds, NEW call \in Calls, Refreshes(d, call) \/ MakesCall(d, call)
        PROVE  EngineStep
    <2>1. RefreshChain(call) \in ReturnedChains /\ ChainOf(call) \in ReturnedChains
      BY CallRequests DEF ReturnedChains
    <2> QED BY <1>5, <2>1, EngineChains DEF Refreshes, MakesCall
  <1>6. CASE RunEngine
    BY <1>6, EngineRuns DEF RunEngine
  <1>7. CASE Keeps
    BY <1>7, EngineStill DEF Keeps
  <1> QED BY <1>1, <1>2, <1>3, <1>4, <1>5, <1>6, <1>7 DEF Uses

-----------------------------------------------------------------------------
(* The event that is being handled has a request in the table.             *)
BasePending == stack # <<>> => Base \in pending

(* Handlers and the engine's loops keep the event's request until they     *)
(* leave the stack.                                                        *)
LEMMA BaseStep ==
  ASSUME EngineOK, BasePending, TypedSessions, Uses
  PROVE  BasePending'
  <1>0. DTypeOK /\ stack \in Seq(Frame)
    BY DEF EngineOK, DInv, DTypeOK
  <1>1. CASE UNCHANGED <<stack, pending>>
    BY <1>1 DEF BasePending, Base
  <1>2. CASE stack' = <<>>
    BY <1>2 DEF BasePending
  <1>3. CASE stack # <<>> /\ pending' = pending /\ stack'[1].dfr = stack[1].dfr
    BY <1>3 DEF BasePending, Base
  <1>4. ASSUME NEW mode, NEW val, GoOn(mode, val), Running, UNCHANGED pending
        PROVE  BasePending'
    <2>1. stack'[1].dfr = stack[1].dfr
      BY <1>0, <1>4, GoOnSameDeferreds, RunningFrames
    <2> QED BY <1>3, <1>4, <2>1 DEF Running
  <1>5. ASSUME NEW d \in Deferreds, Fires(d)
        PROVE  BasePending'
    <2>1. /\ d \in pending /\ pending' = pending
          /\ \/ stack' = stack
             \/ \E mode, val : stack' = Append(<<>>, [dfr |-> d, mode |-> mode, val |-> val])
          /\ stack = <<>>
      BY <1>5 DEF Fires, Fire, Enter, Idle
    <2>2. CASE stack' = stack
      BY <1>1, <2>1, <2>2
    <2>3. ASSUME NEW mode, NEW val,
                 stack' = Append(<<>>, [dfr |-> d, mode |-> mode, val |-> val])
          PROVE  BasePending'
      <3>1. stack'[1].dfr = d
        BY <2>3
      <3> QED BY <2>1, <3>1 DEF BasePending, Base
    <2> QED BY <2>1, <2>2, <2>3
  <1>6. CASE Engine
    <2>1. CASE SkipPair
      BY <1>1, <2>1 DEF SkipPair
    <2>2. CASE Resume
      <3>1. /\ Running /\ pending' = pending
            /\ stack' = stack \/ \E f : stack' = Append(stack, f)
        BY <2>2 DEF Resume, Enter
      <3>2. \A f : Append(stack, f)[1] = stack[1]
        BY <1>0, <3>1, RunningFrames DEF Depth
      <3> QED BY <1>1, <1>3, <3>1, <3>2 DEF Running
    <2>3. CASE FinishInner
      <3>1. Running /\ pending' = pending /\ 1 \in 1..(Depth - 1)
        BY <1>0, <2>3, RunningFrames DEF FinishInner
      <3>2. stack'[1].dfr = stack[1].dfr
        BY <2>3, <3>1 DEF FinishInner
      <3> QED BY <1>3, <3>1, <3>2 DEF Running
    <2> QED BY <1>2, <1>6, <2>1, <2>2, <2>3 DEF Engine, FinishBase
  <1>7. CASE Keeps \/ (\E d \in Deferreds : BuildsAlone(d))
               \/ (\E d, chain, content : Builds(d, chain, content))
    BY <1>1, <1>7 DEF Keeps, BuildsAlone, Builds, Build, dvars, BasePending, Idle
  <1>8. CASE Responds \/ \E f \in Faults : FaultsWith(f)
    BY <1>4, <1>8 DEF Responds, FaultsWith, Respond, Fault, InHandler
  <1>9. CASE \E d \in Deferreds, call \in Calls : Refreshes(d, call) \/ MakesCall(d, call)
    BY <1>2, <1>9 DEF Refreshes, MakesCall, Chain
  <1> QED BY <1>5, <1>6, <1>7, <1>8, <1>9 DEF Uses, RunEngine

-----------------------------------------------------------------------------
(* The queues of a deferred that is allocated.                             *)
NewQueue(e) ==
  \/ \E chain \in StartChains, content \in Requests : Builds(e, chain, content)
  \/ BuildsAlone(e)
  \/ \E call \in Calls : Refreshes(e, call) \/ MakesCall(e, call)

(* What a step does to the tables: a queue stays or loses the first pair   *)
(* of the innermost activation, a request that stays keeps its content,    *)
(* and only the request of the event leaves the table.                     *)
Tables ==
  /\ \A e \in built' : e \in built \/ NewQueue(e)
  /\ \A e \in built' \cap built :
       \/ callbacks'[e] = callbacks[e]
       \/ /\ e = Top.dfr /\ Running /\ Current # <<>>
          /\ callbacks'[e] = Tail(Current) /\ Current = callbacks[e]
  /\ \A e \in pending' : e \in pending \/ NewQueue(e)
  /\ \A e \in pending' \cap pending : request'[e] = request[e]
  /\ \A e \in pending : e \in pending' \/ (stack # <<>> /\ e = Base)
  /\ \A e \in Deferreds : NewQueue(e) => e \notin built

(* Every step that uses the engine does this and no more.                  *)
LEMMA UsesTables ==
  ASSUME EngineOK, TypedSessions, Uses
  PROVE  Tables
  <1>0. /\ DTypeOK /\ stack \in Seq(Frame) /\ built \subseteq Deferreds
        /\ pending \subseteq built /\ callbacks \in [Deferreds -> Seq(Pair)]
    BY DEF EngineOK, DInv, DTypeOK, PendingSound
  <1>1. /\ DTypeOK' /\ built' \subseteq Deferreds /\ pending' \subseteq Deferreds
    BY UsesGo DEF EngineStep, EngineOK, DInv, DTypeOK
  <1>2. ASSUME Running, Current # <<>>
        PROVE  /\ \A e \in Deferreds : \/ Popped[e] = callbacks[e]
                                       \/ /\ e = Top.dfr /\ Popped[e] = Tail(Current)
                                          /\ Current = callbacks[e]
               /\ Popped \in [Deferreds -> Seq(Pair)]
    BY <1>0, <1>2, ShapePopped, PoppedType
  <1>3. \A e \in Deferreds : NewQueue(e) => e \notin built
    BY DEF NewQueue, Builds, BuildsAlone, Refreshes, MakesCall, Build, Chain, Allocate
  <1>4. ASSUME built' \subseteq built, UNCHANGED <<pending, request>>,
               \/ callbacks' = callbacks
               \/ Running /\ Current # <<>> /\ callbacks' = Popped
        PROVE  Tables
    BY <1>0, <1>2, <1>3, <1>4 DEF Tables
  <1>5. ASSUME NEW d \in Deferreds, NEW chain \in StartChains, NEW content \in Requests,
               Builds(d, chain, content)
        PROVE  Tables
    <2>1. /\ built' = built \cup {d} /\ pending' = pending \cup {d} /\ d \notin built
          /\ callbacks' = [callbacks EXCEPT ![d] = chain]
      BY <1>5 DEF Builds, Build, Allocate
    <2>2. \A e \in pending : request'[e] = request[e]
      BY <1>0, <1>5, <2>1 DEF Builds, Sends
    <2>3. NewQueue(d)
      BY <1>5 DEF NewQueue
    <2> QED BY <1>0, <1>3, <2>1, <2>2, <2>3 DEF Tables
  <1>6. ASSUME NEW d \in Deferreds, BuildsAlone(d)
        PROVE  Tables
    <2>1. /\ built' = built \cup {d} /\ pending' = pending /\ d \notin built
          /\ callbacks' = [callbacks EXCEPT ![d] = <<>>] /\ request' = request
      BY <1>6 DEF BuildsAlone, Build, Allocate
    <2>2. NewQueue(d)
      BY <1>6 DEF NewQueue
    <2> QED BY <1>0, <1>3, <2>1, <2>2 DEF Tables
  <1>7. ASSUME NEW d \in Deferreds, NEW call \in Calls, Refreshes(d, call) \/ MakesCall(d, call)
        PROVE  Tables
    <2>1. PICK chain, content : Chain(d, chain, TRUE) /\ Sends(d, content)
      BY <1>7 DEF Refreshes, MakesCall
    <2>2. /\ built' = built \cup {d} /\ d \notin built
          /\ pending' = (pending \ {Base}) \cup {d}
          /\ Running /\ Current # <<>>
          /\ callbacks' = [Popped EXCEPT ![d] = chain \o HandlePairs]
      BY <2>1 DEF Chain, Allocate, InHandler, Answered
    <2>3. \A e \in pending' \cap pending : request'[e] = request[e]
      BY <1>0, <2>1, <2>2 DEF Sends
    <2>4. NewQueue(d)
      BY <1>7 DEF NewQueue
    <2>5. \A e \in built : callbacks'[e] = Popped[e]
      BY <1>0, <1>2, <2>2
    <2>6. stack # <<>>
      BY <2>2 DEF Running
    <2> QED BY <1>0, <1>2, <1>3, <2>2, <2>3, <2>4, <2>5, <2>6 DEF Tables
  <1>8. CASE RunEngine
    <2>1. /\ built' \subseteq built /\ pending' \subseteq pending
          /\ \A e \in pending : e \in pending' \/ (stack # <<>> /\ e = Base)
          /\ \/ callbacks' = callbacks
             \/ Running /\ Current # <<>> /\ callbacks' = Popped
      BY <1>8 DEF RunEngine, Engine, SkipPair, Resume, FinishInner, FinishBase, Answered, Running
    <2>2. \A e \in pending' : request'[e] = request[e]
      BY <1>1, <1>8 DEF RunEngine
    <2> QED BY <1>0, <1>2, <1>3, <2>1, <2>2 DEF Tables
  <1>9. CASE Keeps \/ Responds \/ (\E f \in Faults : FaultsWith(f))
              \/ \E d \in Deferreds : Fires(d)
    <2>1. built' \subseteq built /\ UNCHANGED <<pending, request>>
      BY <1>9 DEF Keeps, Responds, FaultsWith, Fires, Fire, Respond, Fault, dvars
    <2>2. \/ callbacks' = callbacks
          \/ Running /\ Current # <<>> /\ callbacks' = Popped
      BY <1>9 DEF Keeps, Responds, FaultsWith, Fires, Fire, Respond, Fault, FaultedQueue,
                  InHandler, dvars
    <2> QED BY <1>4, <2>1, <2>2
  <1> QED BY <1>5, <1>6, <1>7, <1>8, <1>9 DEF Uses

-----------------------------------------------------------------------------
(* An activation that waits for one above it has nothing left but handle   *)
(* pairs.                                                                  *)
HandlesBelow ==
  \A i \in DOMAIN stack :
    i < Depth => LET q == callbacks[stack[i].dfr] IN q = <<>> \/ q[1] \in Handles

(* Only a handle pair begins an activation on top of another.              *)
LEMMA BelowStep ==
  ASSUME EngineOK, HandlesBelow, TypedSessions, Uses
  PROVE  HandlesBelow'
  <1>0. /\ DTypeOK /\ stack \in Seq(Frame) /\ built \subseteq Deferreds
        /\ callbacks \in [Deferreds -> Seq(Pair)] /\ StackSound
    BY DEF EngineOK, DInv, DTypeOK
  <1>1. ASSUME Running, Current # <<>>, callbacks' = callbacks \/ callbacks' = Popped
        PROVE  \A i \in 1..Depth : i < Depth => callbacks'[stack[i].dfr] = callbacks[stack[i].dfr]
    <2>1. \A i \in 1..Depth : i < Depth => stack[i].dfr # Top.dfr
      BY <1>0, <1>1, RunningFrames DEF StackSound, Top
    <2>2. \A i \in 1..Depth : stack[i].dfr \in Deferreds
      BY <1>0, <1>1, RunningFrames
    <2> QED BY <1>1, <2>1, <2>2, ShapePopped
  <1>2. ASSUME NEW mode, NEW val, Running, Current # <<>>, GoOn(mode, val),
               callbacks' = callbacks \/ callbacks' = Popped
        PROVE  HandlesBelow'
    <2>1. /\ DOMAIN stack' = DOMAIN stack /\ DOMAIN stack = 1..Depth
          /\ \A i \in DOMAIN stack : stack'[i].dfr = stack[i].dfr
      BY <1>0, <1>2, GoOnSameDeferreds, RunningFrames
    <2>2. Depth' = Depth
      BY <1>0, <1>2 DEF GoOn, Depth
    <2> QED BY <1>1, <1>2, <2>1, <2>2 DEF HandlesBelow
  <1>3. CASE stack' = <<>>
    BY <1>3 DEF HandlesBelow
  <1>4. CASE UNCHANGED <<stack, callbacks>>
    BY <1>4 DEF HandlesBelow, Depth
  <1>5. ASSUME stack = <<>>, callbacks' # callbacks => stack' = stack,
               stack' = stack \/ \E f : stack' = Append(stack, f)
        PROVE  HandlesBelow'
    <2>1. CASE stack' = stack
      BY <1>5, <2>1 DEF HandlesBelow
    <2>2. ASSUME NEW f, stack' = Append(stack, f)
          PROVE  HandlesBelow'
      <3>1. DOMAIN stack' = {1} /\ Depth' = 1
        BY <1>5, <2>2 DEF Depth
      <3> QED BY <3>1 DEF HandlesBelow
    <2> QED BY <1>5, <2>1, <2>2
  <1>6. CASE Engine
    <2>1. CASE SkipPair
      <3>1. /\ Running /\ Current # <<>> /\ callbacks' = Popped /\ stack' = stack
            /\ Depth' = Depth /\ DOMAIN stack = 1..Depth
        BY <1>0, <2>1, RunningFrames DEF SkipPair, Depth
      <3> QED BY <1>1, <3>1 DEF HandlesBelow
    <2>2. CASE Resume
      <3>1. /\ Running /\ Current # <<>> /\ callbacks' = Popped
            /\ stack' = stack \/ \E f : stack' = Append(stack, f)
        BY <2>2 DEF Resume, Enter
      <3>2. \A i \in 1..Depth : i < Depth => callbacks'[stack[i].dfr] = callbacks[stack[i].dfr]
        BY <1>1, <3>1
      <3>3. CASE stack' = stack
        <4>1. Depth' = Depth /\ DOMAIN stack = 1..Depth
          BY <1>0, <3>1, <3>3, RunningFrames DEF Depth
        <4> QED BY <3>2, <3>3, <4>1 DEF HandlesBelow
      <3>4. ASSUME NEW f, stack' = Append(stack, f)
            PROVE  HandlesBelow'
        <4>1. /\ Depth \in Nat \ {0} /\ DOMAIN stack = 1..Depth
          BY <1>0, <3>1, RunningFrames
        <4>2. /\ Depth' = Depth + 1 /\ DOMAIN stack' = 1..(Depth + 1)
              /\ \A i \in 1..Depth : stack'[i] = stack[i]
          BY <1>0, <3>4, <4>1 DEF Depth
        <4>3. LET q == callbacks'[Top.dfr] IN q = <<>> \/ q[1] \in Handles
          <5>1. /\ callbacks'[Top.dfr] = Tail(Current) /\ Current \in Seq(Pair)
                /\ Current[1] \in MPair /\ Fits(Current, 1) /\ Head(Current) = Current[1]
            BY <3>1, ShapePopped
          <5>2. Current[1] \in Handles
            <6>1. Current[1].cb = HANDLE \/ Current[1].err = HANDLE
              BY <2>2, <5>1 DEF Resume, Handler
            <6> QED BY <5>1, <6>1, PairKindsDiffer, NamesDiffer DEF MPair, Names
          <5>3. 1 = Len(Current) \/ Current[1 + 1] \in Handles
            BY <5>1, <5>2 DEF Fits
          <5>4. Len(Current) = 1 => Tail(Current) = <<>>
            BY <5>1
          <5>5. Len(Current) # 1 => Tail(Current)[1] = Current[1 + 1]
            <6>1. Len(Current) \in Nat \ {0}
                    /\ \A i \in 1..(Len(Current) - 1) : Tail(Current)[i] = Current[i + 1]
              BY <3>1, <5>1, TailProperties
            <6>2. \A n \in Nat \ {0} : n # 1 => 1 \in 1..(n - 1)
              OBVIOUS
            <6> QED BY <6>1, <6>2
          <5> QED BY <5>1, <5>3, <5>4, <5>5
        <4>4. stack[Depth] = Top
          BY DEF Top
        <4>5. \A i \in 1..(Depth + 1) : i < Depth + 1 => i \in 1..Depth /\ (i < Depth \/ i = Depth)
          BY <4>1
        <4> QED BY <3>2, <4>1, <4>2, <4>3, <4>4, <4>5 DEF HandlesBelow
      <3> QED BY <3>1, <3>3, <3>4
    <2>3. CASE FinishInner
      <3>1. /\ callbacks' = callbacks /\ Running /\ Depth > 1
            /\ stack' = [i \in 1..(Depth - 1) |->
                          IF i = Depth - 1
                          THEN [dfr |-> stack[i].dfr, mode |-> "cb", val |-> Top.val]
                          ELSE stack[i]]
        BY <2>3 DEF FinishInner
      <3>2. Depth \in Nat /\ DOMAIN stack = 1..Depth
        BY <1>0, <3>1, RunningFrames
      <3>3. /\ \A i \in 1..(Depth - 1) : /\ stack'[i].dfr = stack[i].dfr
                                         /\ i < Depth /\ i \in 1..Depth
            /\ DOMAIN stack' = 1..(Depth - 1)
        BY <3>1, <3>2
      <3> QED BY <3>1, <3>2, <3>3 DEF HandlesBelow
    <2>4. CASE FinishBase
      BY <1>3, <2>4 DEF FinishBase
    <2> QED BY <1>6, <2>1, <2>2, <2>3, <2>4 DEF Engine
  <1>7. CASE Responds \/ \E f \in Faults : FaultsWith(f)
    BY <1>2, <1>7 DEF Responds, FaultsWith, Respond, Fault, FaultedQueue, InHandler
  <1>8. CASE \E d \in Deferreds, call \in Calls : Refreshes(d, call) \/ MakesCall(d, call)
    BY <1>3, <1>8 DEF Refreshes, MakesCall, Chain
  <1>9. CASE \E d \in Deferreds : Fires(d)
    BY <1>5, <1>9 DEF Fires, Fire, Enter, Idle
  <1>10. CASE (\E d \in Deferreds : BuildsAlone(d))
               \/ (\E d, chain, content : Builds(d, chain, content))
    BY <1>3, <1>10 DEF BuildsAlone, Builds, Build, Idle
  <1>11. CASE Keeps
    BY <1>4, <1>11 DEF Keeps, dvars
  <1> QED BY <1>6, <1>7, <1>8, <1>9, <1>10, <1>11 DEF Uses, RunEngine

-----------------------------------------------------------------------------
(* Only the queue of a request for contacts reads contacts.                *)
LEMMA ContactsRead ==
  /\ \A chain \in StartChains : \A k \in DOMAIN chain :
       chain[k] = GetContactsPair => k = 1 /\ chain = ContactsChain
  /\ \A chain \in ReturnedChains : \A k \in DOMAIN chain : chain[k] # GetContactsPair
  <1>1. \A p \in Handles \cup DoSends \cup Dispatches \cup Errs \cup Retries \cup Finals
                 \cup Firsts \cup {SesPair, RefreshPair, ContactsPair} : p # GetContactsPair
    BY PairKindsDiffer, NamesDiffer DEF Names
  <1>2. /\ \A call \in SendCalls : /\ DefaultPair(<<"create", call[2]>>) # GetContactsPair
                                   /\ DoSendPair(call) # GetContactsPair
                                   /\ ErrPair(call) # GetContactsPair
                                   /\ DefaultPair(call) # GetContactsPair
        /\ \A call \in Calls : RetryPair(call) # GetContactsPair
        /\ \A s \in SessionIds, m \in 1..MaxMessages :
             /\ DefaultPair(<<"get", s>>) # GetContactsPair
             /\ DispatchPair(s, m) # GetContactsPair
    BY <1>1, CallKinds DEF Firsts, DoSends, Errs, Finals, Retries, Dispatches
  <1>3. ASSUME NEW call \in SendCalls, NEW chain, NEW k \in DOMAIN chain,
               chain \in {CreateChain(call), SendChain(call),
                          CreateChain(call) \o SendChain(call)}
        PROVE  chain[k] # GetContactsPair
    <2>1. \/ chain = <<DefaultPair(<<"create", call[2]>>), SesPair, DoSendPair(call)>>
          \/ chain = <<ErrPair(call), DefaultPair(call)>>
          \/ chain = <<DefaultPair(<<"create", call[2]>>), SesPair, DoSendPair(call),
                       ErrPair(call), DefaultPair(call)>>
      BY <1>3, ChainForms
    <2> QED BY <1>1, <1>2, <2>1
  <1>4. ASSUME NEW call \in Calls, NEW k \in DOMAIN RefreshChain(call)
        PROVE  RefreshChain(call)[k] # GetContactsPair
    <2>1. RefreshChain(call) = <<RefreshPair, RetryPair(call)>>
      BY ChainForms
    <2> QED BY <1>1, <1>2, <2>1
  <1>5. ASSUME NEW s \in SessionIds, NEW m \in 1..MaxMessages, NEW k \in DOMAIN DispatchChain(s, m)
        PROVE  DispatchChain(s, m)[k] # GetContactsPair
    <2>1. DispatchChain(s, m) = <<DefaultPair(<<"get", s>>), SesPair, DispatchPair(s, m)>>
      BY ChainForms
    <2> QED BY <1>1, <1>2, <2>1
  <1>6. \A k \in DOMAIN ContactsChain : ContactsChain[k] = GetContactsPair => k = 1
    <2>1. ContactsChain = <<GetContactsPair, ContactsPair>>
      BY ChainForms
    <2> QED BY <1>1, <2>1
  <1>7. ASSUME NEW chain \in StartChains, NEW k \in DOMAIN chain, chain[k] = GetContactsPair
        PROVE  k = 1 /\ chain = ContactsChain
    <2>1. chain \notin {CreateChain(call) \o SendChain(call) : call \in SendCalls}
      BY <1>3, <1>7
    <2>2. chain \notin {SendChain(call) : call \in SendCalls}
      BY <1>3, <1>7
    <2>3. chain \notin {DispatchChain(s, m) : s \in SessionIds, m \in 1..MaxMessages}
      BY <1>5, <1>7
    <2>4. chain # <<>>
      BY <1>7
    <2>5. chain = ContactsChain
      BY <2>1, <2>2, <2>3, <2>4 DEF StartChains
    <2> QED BY <1>6, <1>7, <2>5
  <1>8. ASSUME NEW chain \in ReturnedChains, NEW k \in DOMAIN chain, chain[k] = GetContactsPair
        PROVE  FALSE
    <2>1. chain \notin {CreateChain(call) : call \in SendCalls}
      BY <1>3, <1>8
    <2>2. chain \notin {RefreshChain(call) : call \in Calls}
      BY <1>4, <1>8
    <2>3. chain # <<>>
      BY <1>8
    <2> QED BY <2>1, <2>2, <2>3 DEF ReturnedChains
  <1> QED BY <1>7, <1>8

(* A list that is to be read belongs to a request in flight, and there is  *)
(* one such request.                                                       *)
ListsAwaited ==
  /\ \A d \in built : \A k \in DOMAIN callbacks[d] :
       callbacks[d][k] = GetContactsPair =>
         k = 1 /\ d \in pending /\ request[d] = <<"contacts">>
  /\ \A d, e \in pending :
       request[d] = <<"contacts">> /\ request[e] = <<"contacts">> => d = e

ReadsList(d) == \E k \in DOMAIN callbacks[d] : callbacks[d][k] = GetContactsPair

(* There is room for the list that is to be read.                          *)
ListsFit == \A d \in built : ReadsList(d) => list < MaxLists

(* What a new deferred has to do with contacts.                            *)
LEMMA NewContacts ==
  ASSUME EngineOK, TypedSessions, NEW d \in Deferreds, NewQueue(d)
  PROVE  /\ \A k \in DOMAIN callbacks'[d] : callbacks'[d][k] = GetContactsPair =>
              k = 1 /\ d \in pending' /\ request'[d] = <<"contacts">> /\ list < MaxLists
         /\ d \in pending' /\ request'[d] = <<"contacts">> =>
              \A e \in pending : request[e] # <<"contacts">>
  <1>0. DTypeOK /\ d \notin built /\ pending \subseteq built
    BY DEF EngineOK, DInv, PendingSound, NewQueue, Builds, BuildsAlone, Refreshes, MakesCall,
           Build, Chain, Allocate
  <1>1. ASSUME NEW chain \in StartChains, NEW content \in Requests, Builds(d, chain, content)
        PROVE  /\ callbacks'[d] = chain /\ d \in pending' /\ request'[d] = content
               /\ chain = ContactsChain => content = <<"contacts">> /\ list < MaxLists
               /\ content = <<"contacts">> => \A e \in pending : request[e] # <<"contacts">>
    BY <1>0, <1>1 DEF Builds, Build, Sends, DTypeOK
  <1>2. CASE \E chain \in StartChains, content \in Requests : Builds(d, chain, content)
    BY <1>1, <1>2, ContactsRead
  <1>3. CASE BuildsAlone(d)
    <2>1. callbacks'[d] = <<>> /\ d \notin pending'
      BY <1>0, <1>3 DEF BuildsAlone, Build, DTypeOK
    <2> QED BY <2>1
  <1>4. ASSUME NEW call \in Calls, Refreshes(d, call) \/ MakesCall(d, call)
        PROVE  /\ \A k \in DOMAIN callbacks'[d] : callbacks'[d][k] # GetContactsPair
               /\ request'[d] # <<"contacts">>
    <2>1. PICK chain, content : /\ Chain(d, chain, TRUE) /\ Sends(d, content)
                                /\ chain \in ReturnedChains
                                /\ content # <<"contacts">>
      <3>1. RefreshChain(call) \in ReturnedChains /\ ChainOf(call) \in ReturnedChains
        BY CallRequests DEF ReturnedChains
      <3>2. RequestOf(call) # <<"contacts">> /\ <<"refresh">> # <<"contacts">>
        <4>1. call \in SendCalls => RequestOf(call)[1] \in {"create", "message"}
          BY CallRequests
        <4>2. call \notin SendCalls => RequestOf(call)[1] \in {"create", "get"}
          BY CallRequests, CallKinds
        <4>3. <<"contacts">>[1] = "contacts" /\ <<"refresh">>[1] = "refresh"
          OBVIOUS
        <4> QED BY <4>1, <4>2, <4>3
      <3> QED BY <1>4, <3>1, <3>2 DEF Refreshes, MakesCall
    <2>2. Running /\ Current # <<>> /\ callbacks' = [Popped EXCEPT ![d] = chain \o HandlePairs]
      BY <2>1 DEF Chain, InHandler
    <2>3. callbacks'[d] = chain \o HandlePairs
      BY <1>0, <2>2, PoppedType
    <2>4. HandlePairs \in Seq(Handles) /\ HandlePairs # <<>>
      BY <1>0, <2>2, AppendedHandles
    <2>5. \A k \in DOMAIN callbacks'[d] : callbacks'[d][k] # GetContactsPair
      <3>1. /\ chain \in Seq(MPair)
            /\ DOMAIN callbacks'[d] = 1..(Len(chain) + Len(HandlePairs))
            /\ \A i \in 1..Len(chain) : callbacks'[d][i] = chain[i]
            /\ \A i \in 1..Len(HandlePairs) : callbacks'[d][Len(chain) + i] = HandlePairs[i]
        BY <2>1, <2>3, <2>4, ShapeReturned
      <3>2. Len(chain) \in Nat /\ Len(HandlePairs) \in Nat /\ DOMAIN chain = 1..Len(chain)
        BY <2>4, <3>1
      <3>3. \A n, m \in Nat : \A k \in 1..(n + m) :
              k \in 1..n \/ \E i \in 1..m : k = n + i
        <4>1. ASSUME NEW n \in Nat, NEW m \in Nat, NEW k \in 1..(n + m), k \notin 1..n
              PROVE  \E i \in 1..m : k = n + i
          <5>1. k - n \in 1..m /\ k = n + (k - n)
            BY <4>1
          <5> QED BY <5>1
        <4> QED BY <4>1
      <3>4. \A i \in 1..Len(chain) : chain[i] # GetContactsPair
        BY <2>1, <3>2, ContactsRead
      <3>5. \A i \in 1..Len(HandlePairs) : HandlePairs[i] # GetContactsPair
        <4>1. \A p \in Handles : p # GetContactsPair
          BY PairKindsDiffer, NamesDiffer DEF Names
        <4> QED BY <2>4, <4>1
      <3>6. ASSUME NEW k \in DOMAIN callbacks'[d]
            PROVE  callbacks'[d][k] # GetContactsPair
        <4>0. k \in 1..(Len(chain) + Len(HandlePairs))
          BY <3>1
        <4>1. k \in 1..Len(chain) \/ \E i \in 1..Len(HandlePairs) : k = Len(chain) + i
          BY <3>2, <3>3, <4>0
        <4>2. CASE k \in 1..Len(chain)
          BY <3>1, <3>4, <4>2
        <4>3. ASSUME NEW i \in 1..Len(HandlePairs), k = Len(chain) + i
              PROVE  callbacks'[d][k] # GetContactsPair
          BY <3>1, <3>5, <4>3
        <4> QED BY <4>1, <4>2, <4>3
      <3> QED BY <3>6
    <2>6. request'[d] = content
      BY <2>1 DEF Sends
    <2> QED BY <2>1, <2>5, <2>6
  <1> QED BY <1>2, <1>3, <1>4 DEF NewQueue

(* A queue that a step leaves has no more lists to read than before.       *)
LEMMA OldContacts ==
  ASSUME EngineOK, TypedSessions, ListsAwaited, Tables,
         NEW d \in built' \cap built, NEW k \in DOMAIN callbacks'[d],
         callbacks'[d][k] = GetContactsPair
  PROVE  callbacks'[d] = callbacks[d]
  <1>1. ASSUME d = Top.dfr, Running, Current # <<>>, callbacks'[d] = Tail(Current),
               Current = callbacks[d]
        PROVE  FALSE
    <2>1. Current \in Seq(Pair)
      BY <1>1, ShapePopped
    <2>2. k \in 1..(Len(Current) - 1) /\ k + 1 \in DOMAIN Current /\ Tail(Current)[k] = Current[k + 1]
      BY <1>1, <2>1, TailProperties
    <2>3. k + 1 = 1
      BY <1>1, <2>2 DEF ListsAwaited
    <2>4. k \in Nat \ {0}
      BY <2>1, <2>2
    <2> QED BY <2>3, <2>4
  <1> QED BY <1>1 DEF Tables

(* Requests for contacts are made one at a time and read first.            *)
LEMMA ListsStep ==
  ASSUME EngineOK, TypedSessions, HandlesBelow, ListsAwaited, Uses
  PROVE  ListsAwaited'
  <1>0. Tables /\ DTypeOK /\ StackSound /\ built' \subseteq Deferreds /\ pending' \subseteq Deferreds
    BY UsesTables, UsesGo DEF EngineStep, EngineOK, DInv, DTypeOK
  <1>1. ASSUME NEW d \in built', NEW k \in DOMAIN callbacks'[d],
               callbacks'[d][k] = GetContactsPair
        PROVE  k = 1 /\ d \in pending' /\ request'[d] = <<"contacts">>
    <2>1. CASE NewQueue(d)
      BY <1>0, <1>1, <2>1, NewContacts
    <2>2. CASE d \in built
      <3>1. callbacks'[d] = callbacks[d]
        BY <1>0, <1>1, <2>2, OldContacts
      <3>2. k = 1 /\ d \in pending /\ request[d] = <<"contacts">>
        BY <1>1, <2>2, <3>1 DEF ListsAwaited
      <3>3. d \in pending'
        <4>1. SUFFICES ASSUME d \notin pending'
                       PROVE  FALSE
          OBVIOUS
        <4>2. stack # <<>> /\ d = Base
          BY <1>0, <3>2, <4>1 DEF Tables
        <4>3. callbacks[Base] # <<>> /\ callbacks[Base][1] = GetContactsPair
          BY <1>1, <3>1, <3>2, <4>2
        <4>4. Running /\ Depth \in Nat \ {0} /\ DOMAIN stack = 1..Depth
          BY <1>0, <4>2, RunningFrames DEF Running, EngineOK, DInv
        <4>5. Depth = 1
          <5>1. GetContactsPair \notin Handles
            BY PairKindsDiffer, NamesDiffer DEF Names
          <5> QED BY <4>3, <4>4, <5>1 DEF HandlesBelow, Base
        <4>6. Current = callbacks[Base] /\ callbacks'[Base] = callbacks[Base]
          BY <3>1, <4>2, <4>5 DEF Current, Top, Base
        <4>7. UNCHANGED pending
          <5>1. CASE \E e \in Deferreds, call \in Calls : Refreshes(e, call) \/ MakesCall(e, call)
            <6>1. callbacks'[Base] = Tail(Current)
              <7>1. PICK e, chain : e \in Deferreds /\ Chain(e, chain, TRUE)
                BY <5>1 DEF Refreshes, MakesCall
              <7>2. Base # e /\ Base \in Deferreds
                BY <1>0, <2>2, <4>2, <7>1 DEF Chain, Allocate, DTypeOK
              <7> QED BY <1>0, <4>4, <4>5, <7>1, <7>2, PoppedType, ShapePopped
                      DEF Chain, InHandler, Base, Top
            <6>2. Len(Tail(Current)) # Len(Current)
              BY <1>0, <4>3, <4>4, <4>6, RunningFrames
            <6> QED BY <4>6, <6>1, <6>2
          <5>2. ~FinishBase
            BY <4>3, <4>6 DEF FinishBase
          <5>3. CASE \E e \in Deferreds, chain \in StartChains, content \in Requests :
                       Builds(e, chain, content)
            BY <4>2, <5>3 DEF Builds, Idle
          <5> QED BY <5>1, <5>2, <5>3
                  DEF Uses, Keeps, dvars, BuildsAlone, Build, Fires, Fire, Responds, Respond,
                      FaultsWith, Fault, RunEngine, Engine, SkipPair, Resume, FinishInner
        <4> QED BY <3>2, <4>1, <4>7
      <3> QED BY <1>0, <3>2, <3>3 DEF Tables
    <2> QED BY <1>0, <2>1, <2>2 DEF Tables
  <1>2. ASSUME NEW d \in pending', NEW e \in pending',
               request'[d] = <<"contacts">>, request'[e] = <<"contacts">>
        PROVE  d = e
    <2>1. CASE d \in pending /\ e \in pending
      BY <1>0, <1>2, <2>1 DEF Tables, ListsAwaited
    <2>2. CASE NewQueue(d) /\ e \in pending
      BY <1>0, <1>2, <2>2, NewContacts DEF Tables
    <2>3. CASE d \in pending /\ NewQueue(e)
      BY <1>0, <1>2, <2>3, NewContacts DEF Tables
    <2>4. CASE NewQueue(d) /\ NewQueue(e)
      <3>1. /\ NewQueue(d) => built' = built \cup {d} /\ d \notin built
            /\ NewQueue(e) => built' = built \cup {e} /\ e \notin built
        BY DEF NewQueue, Builds, BuildsAlone, Refreshes, MakesCall, Build, Chain, Allocate
      <3> QED BY <2>4, <3>1
    <2> QED BY <1>0, <2>1, <2>2, <2>3, <2>4 DEF Tables
  <1> QED BY <1>1, <1>2 DEF ListsAwaited

(* A list that arrives leaves none to be read.                             *)
LEMMA ListsFitStep ==
  ASSUME EngineOK, TypedSessions, ListsAwaited, ListsFit, [MNext]_mvars, Uses
  PROVE  ListsFit' /\ list' \in 1..MaxLists
  <1>0. Tables /\ built' \subseteq Deferreds
    BY UsesTables, UsesGo DEF EngineStep, EngineOK, DInv, DTypeOK
  <1>1. CASE GetContactsCb
    <2>1. /\ Running /\ Current # <<>> /\ Current[1] = GetContactsPair
          /\ list' = list + 1 /\ Respond
      BY <1>1, HandlerPairs DEF GetContactsCb, Names
    <2>2. /\ Top.dfr \in built /\ Current = callbacks[Top.dfr] /\ 1 \in DOMAIN Current
      BY <2>1, ShapePopped
    <2>3. ReadsList(Top.dfr)
      BY <2>1, <2>2 DEF ReadsList
    <2>4. list < MaxLists /\ list \in Nat /\ MaxLists \in Nat /\ list >= 1
      BY <2>2, <2>3, BoundsAssumption DEF ListsFit, TypedSessions
    <2>5. ASSUME NEW d \in built', ReadsList(d)'
          PROVE  FALSE
      <3>1. d \in built /\ callbacks' = Popped
        BY <2>1 DEF Respond
      <3>2. PICK k \in DOMAIN callbacks'[d] : callbacks'[d][k] = GetContactsPair
        BY <2>5 DEF ReadsList
      <3>3. callbacks'[d] = callbacks[d]
        BY <1>0, <2>5, <3>1, <3>2, OldContacts
      <3>4. d = Top.dfr
        BY <2>1, <2>2, <3>1, <3>2, <3>3 DEF ListsAwaited
      <3>5. callbacks'[d] = Tail(Current) /\ Current \in Seq(Pair)
        BY <2>1, <3>1, <3>4, ShapePopped
      <3>6. Len(Tail(Current)) # Len(Current)
        BY <2>1, <3>5
      <3> QED BY <2>2, <3>3, <3>4, <3>5, <3>6
    <2> QED BY <2>1, <2>4, <2>5 DEF ListsFit
  <1>2. CASE UNCHANGED list
    <2>1. ASSUME NEW d \in built', ReadsList(d)'
          PROVE  list < MaxLists
      <3>1. PICK k \in DOMAIN callbacks'[d] : callbacks'[d][k] = GetContactsPair
        BY <2>1 DEF ReadsList
      <3>2. CASE d \in built
        <4>1. callbacks'[d] = callbacks[d]
          BY <1>0, <2>1, <3>1, <3>2, OldContacts
        <4> QED BY <3>1, <3>2, <4>1 DEF ListsFit, ReadsList
      <3>3. CASE NewQueue(d)
        BY <1>0, <2>1, <3>1, <3>3, NewContacts
      <3> QED BY <1>0, <2>1, <3>2, <3>3 DEF Tables
    <2> QED BY <1>2, <2>1 DEF ListsFit, TypedSessions
  <1>3. GetContactsCb \/ UNCHANGED list
    BY DEF MNext, mvars, ownvars, Events, SendIm, MarkAsRead, MessageReceived, SessionCreated,
           RefreshContacts, Answers, Reply, ExpiredReply, OtherFault, Handlers, PassOn, Invalid,
           DefaultErr, RefreshWorkspaceCb, MakeCall, SessionCb, DispatchMessage, MessagingErr,
           RunEngine
  <1> QED BY <1>1, <1>2, <1>3
=============================================================================
