-------------------------- MODULE MessagingSafety ---------------------------
(***************************************************************************)
(* Each handler is given the response to the call it was made for, however *)
(* often calls are repeated, the state of an account stays typed, and a    *)
(* message that waited for its session finds it.                           *)
(***************************************************************************)
EXTENDS MessagingProofs, FiniteSetTheorems

(* What the response to a request says is what the queue it is given to    *)
(* reads first, or what it hands on.  Each deferred e is assigned X[e],    *)
(* the request whose response its first handler has to read, or <<>> when  *)
(* that handler reads none.                                                *)
Reqs == Requests \cup {<<>>}

(* The response that the first handler of q reads is the one to x.         *)
Wants(q, x) ==
  q # <<>> =>
    /\ q[1] \in Firsts => x = q[1].user_data
    /\ q[1] = SesPair => x = Content(q[2])
    /\ q[1] = RefreshPair => x = <<"refresh">>
    /\ q[1] = GetContactsPair => x = <<"contacts">>

(* The request whose response comes to the k-th pair of q: the deferred's  *)
(* own, the call that the pair before repeats, or one that is not read.    *)
Supply(q, x, k) ==
  IF k = 1 THEN x
  ELSE IF q[k - 1] \in Retries THEN q[k - 1].user_data ELSE <<>>

(* A deferred that waits in q wants what it will be resumed with.          *)
Feeds(q, X, x) ==
  \A k \in DOMAIN q : \A t \in Deferreds :
    q[k] = HandlePair(t) => X[t] \in {<<>>, Supply(q, x, k)}

Reads(X) ==
  /\ \A e \in built : Wants(callbacks[e], X[e]) /\ Feeds(callbacks[e], X, X[e])
  /\ \A d \in pending \ is_firing : X[d] \in {<<>>, request[d]}
  /\ \A i \in DOMAIN stack : i < Depth => X[stack[i].dfr] = <<>>
  /\ stack # <<>> /\ Top.mode = "cb" => X[Top.dfr] \in {<<>>, request[Base]}

EachReads == \E X \in [Deferreds -> Reqs] : Reads(X)

(* A deferred that waits is allocated and does not run.                    *)
LEMMA WaitersApart ==
  ASSUME EngineOK, NEW e \in built, NEW k \in DOMAIN callbacks[e], NEW t \in Deferreds,
         callbacks[e][k] = HandlePair(t)
  PROVE  t \in built /\ t \in is_firing /\ ~OnStack(t)
  <1>1. WaitsAt(t, e, k) /\ e \in Deferreds
    BY DEF WaitsAt, EngineOK, DInv, DTypeOK
  <1> QED BY <1>1 DEF EngineOK, DInv, HandlesAwaited, Suspended

(* Only those that wait in q matter to it.                                 *)
LEMMA FeedsSame ==
  ASSUME NEW q, NEW X, NEW Y, NEW x, Feeds(q, X, x),
         \A k \in DOMAIN q : \A t \in Deferreds : q[k] = HandlePair(t) => Y[t] = X[t]
  PROVE  Feeds(q, Y, x)
  BY DEF Feeds

(* The rest of a queue, when its first pair has had its turn and the       *)
(* response that comes next is the one to y.                               *)
LEMMA FeedsTail ==
  ASSUME NEW S, NEW q \in Seq(S), q # <<>>, NEW X, NEW x, NEW y, Feeds(q, X, x),
         \A t \in Deferreds :
           1 + 1 \in DOMAIN q /\ q[1 + 1] = HandlePair(t) => X[t] \in {<<>>, y}
  PROVE  Feeds(Tail(q), X, y)
  <1>1. SUFFICES ASSUME NEW k \in DOMAIN Tail(q), NEW t \in Deferreds,
                        Tail(q)[k] = HandlePair(t)
                 PROVE  X[t] \in {<<>>, Supply(Tail(q), y, k)}
    BY DEF Feeds
  <1>2. /\ k \in 1..(Len(q) - 1) /\ Len(q) \in Nat \ {0} /\ DOMAIN q = 1..Len(q)
        /\ \A i \in 1..(Len(q) - 1) : Tail(q)[i] = q[i + 1] /\ i + 1 \in DOMAIN q
    BY TailProperties
  <1>3. CASE k = 1
    BY <1>1, <1>2, <1>3 DEF Supply
  <1>4. CASE k # 1
    <2>1. k - 1 \in 1..(Len(q) - 1) /\ (k - 1) + 1 = k /\ (k + 1) - 1 = k /\ k + 1 # 1
      BY <1>2, <1>4
    <2>2. Tail(q)[k - 1] = q[k]
      BY <1>2, <2>1
    <2>3. Supply(Tail(q), y, k) = Supply(q, x, k + 1)
      BY <1>4, <2>1, <2>2 DEF Supply
    <2>4. q[k + 1] = HandlePair(t) /\ k + 1 \in DOMAIN q
      BY <1>1, <1>2
    <2> QED BY <2>3, <2>4 DEF Feeds
  <1> QED BY <1>3, <1>4

(* The innermost activation is as deep as before when none begins or ends. *)
LEMMA SameDepth ==
  ASSUME EngineOK, EngineOK', Running,
         DOMAIN stack' = DOMAIN stack, \A i \in DOMAIN stack : stack'[i].dfr = stack[i].dfr
  PROVE  /\ Depth \in Nat \ {0} /\ DOMAIN stack = 1..Depth /\ stack' # <<>> /\ Depth' = Depth
         /\ Top'.dfr = Top.dfr /\ Base' = Base /\ Top' = stack'[Depth]
  <1>0. DTypeOK /\ stack' \in Seq(Frame)
    BY DEF EngineOK, DInv, DTypeOK
  <1>1. Depth \in Nat \ {0} /\ DOMAIN stack = 1..Depth /\ 1 \in 1..Depth /\ Depth \in 1..Depth
    BY <1>0, RunningFrames
  <1>2. Len(stack') \in Nat /\ DOMAIN stack' = 1..Len(stack')
    BY <1>0
  <1>3. \A n, m \in Nat : 1..n = 1..m => n = m
    <2>1. ASSUME NEW n \in Nat, NEW m \in Nat, 1..n = 1..m, n < m
          PROVE  FALSE
      <3>1. m \in 1..m /\ m \notin 1..n
        BY <2>1
      <3> QED BY <2>1, <3>1
    <2>2. \A n, m \in Nat : n < m \/ m < n \/ n = m
      OBVIOUS
    <2> QED BY <2>1, <2>2
  <1>4. Depth' = Depth
    BY <1>1, <1>2, <1>3 DEF Depth
  <1>5. Top'.dfr = Top.dfr /\ Base' = Base /\ Top' = stack'[Depth]
    BY <1>1, <1>4 DEF Top, Base
  <1> QED BY <1>1, <1>4, <1>5

(* A handler of the innermost activation has had its turn.                 *)
LEMMA ReadsTurn ==
  ASSUME EngineOK, EngineOK', BasePending, Running, Current # <<>>,
         NEW X \in [Deferreds -> Reqs], Reads(X),
         callbacks' = Popped, UNCHANGED <<built, is_firing, pending>>,
         \A e \in pending : request'[e] = request[e],
         DOMAIN stack' = DOMAIN stack, \A i \in DOMAIN stack : stack'[i].dfr = stack[i].dfr,
         NEW x \in Reqs, Wants(Tail(Current), x),
         \A t \in Deferreds : 1 + 1 \in DOMAIN Current /\ Current[1 + 1] = HandlePair(t)
                                => X[t] \in {<<>>, x},
         stack'[Depth].mode = "cb" => x \in {<<>>, request[Base]}
  PROVE  EachReads'
  <1>0. /\ DTypeOK /\ StackSound /\ stack' \in Seq(Frame) /\ Top.dfr \in built
        /\ Top.dfr \in Deferreds /\ built \subseteq Deferreds
    BY ShapePopped DEF EngineOK, DInv, DTypeOK
  <1>1. PICK Y \in [Deferreds -> Reqs] :
          Y[Top.dfr] = x /\ \A t \in Deferreds \ {Top.dfr} : Y[t] = X[t]
    <2>1. [X EXCEPT ![Top.dfr] = x] \in [Deferreds -> Reqs]
      OBVIOUS
    <2> QED BY <1>0, <2>1
  <1>2. /\ Depth \in Nat \ {0} /\ DOMAIN stack = 1..Depth /\ stack' # <<>> /\ Depth' = Depth
        /\ Top'.dfr = Top.dfr /\ Base' = Base /\ Top' = stack'[Depth]
    BY SameDepth
  <1>3. OnStack(Top.dfr)
    BY <1>2 DEF OnStack, Top
  <1>4. ASSUME NEW e \in built
        PROVE  Wants(callbacks'[e], Y[e]) /\ Feeds(callbacks'[e], Y, Y[e])
    <2>1. \A k \in DOMAIN callbacks[e] : \A t \in Deferreds :
            callbacks[e][k] = HandlePair(t) => Y[t] = X[t]
      BY <1>1, <1>3, WaitersApart
    <2>2. CASE e # Top.dfr
      <3>1. callbacks'[e] = callbacks[e] /\ Y[e] = X[e]
        BY <1>0, <1>1, <2>2, ShapePopped
      <3> QED BY <2>1, <3>1, FeedsSame DEF Reads
    <2>3. CASE e = Top.dfr
      <3>1. /\ callbacks'[e] = Tail(Current) /\ Current = callbacks[e] /\ Y[e] = x
            /\ Current \in Seq(Pair)
        BY <1>1, <2>3, ShapePopped
      <3>2. Feeds(Current, X, X[e])
        BY <3>1 DEF Reads
      <3>3. Feeds(Current, Y, X[e])
        BY <2>1, <3>1, <3>2, FeedsSame
      <3>4. \A t \in Deferreds : 1 + 1 \in DOMAIN Current /\ Current[1 + 1] = HandlePair(t)
                                   => Y[t] \in {<<>>, x}
        BY <2>1, <3>1
      <3>5. Feeds(Tail(Current), Y, x)
        BY <3>1, <3>3, <3>4, FeedsTail
      <3> QED BY <3>1, <3>5
    <2> QED BY <2>2, <2>3
  <1>5. \A d \in pending \ is_firing : Y[d] \in {<<>>, request'[d]}
    <2>1. Top.dfr \in is_firing
      BY <1>0, <1>2 DEF StackSound, Top
    <2> QED BY <1>0, <1>1, <2>1 DEF Reads, DTypeOK
  <1>6. ASSUME NEW i \in DOMAIN stack', i < Depth
        PROVE  Y[stack'[i].dfr] = <<>>
    <2>1. i \in DOMAIN stack /\ i \in 1..Depth /\ Depth \in DOMAIN stack /\ i # Depth
      BY <1>2, <1>6
    <2>2. stack[i].dfr \in Deferreds
      BY <1>0, <2>1, RunningFrames
    <2>3. stack[i].dfr # Top.dfr
      BY <1>0, <2>1 DEF StackSound, Top
    <2> QED BY <1>1, <1>6, <2>1, <2>2, <2>3 DEF Reads
  <1>7. Top'.mode = "cb" => Y[Top.dfr] \in {<<>>, request'[Base]}
    <2>1. Base \in pending
      BY DEF BasePending, Running
    <2> QED BY <1>1, <1>2, <2>1
  <1>8. Reads(Y)'
    BY <1>2, <1>4, <1>5, <1>6, <1>7 DEF Reads
  <1> QED BY <1>1, <1>8 DEF EachReads

(* A callback has faulted: its errback will be called.                     *)
LEMMA ReadsErr ==
  ASSUME EngineOK, EngineOK', Running, NEW X, Reads(X),
         UNCHANGED <<callbacks, built, is_firing, pending, request>>,
         DOMAIN stack' = DOMAIN stack, \A i \in DOMAIN stack : stack'[i].dfr = stack[i].dfr,
         stack'[Depth].mode = "err"
  PROVE  Reads(X)'
  <1>1. /\ Depth' = Depth /\ Top' = stack'[Depth] /\ DOMAIN stack = 1..Depth
    BY SameDepth
  <1> QED BY <1>1 DEF Reads

(* What is left when the first pair has had its turn.                      *)
LEMMA TailWants ==
  ASSUME EngineOK, Running, Current # <<>>
  PROVE  /\ \A x : Current[1] \notin Firsts \/ Wants(Current, x) => Wants(Tail(Current), x)
         /\ \A t : 1 + 1 \in DOMAIN Current /\ Current[1 + 1] = HandlePair(t)
                     => Current[1] \in DoSends \cup Retries \cup Handles
         /\ Current[1] \in Retries => 1 + 1 \in DOMAIN Current /\ Current[1 + 1] \in Handles
  <1>0. /\ Current \in Seq(Pair) /\ Current[1] \in MPair /\ Fits(Current, 1)
        /\ Len(Current) \in Nat \ {0} /\ DOMAIN Current = 1..Len(Current)
    BY ShapePopped
  <1>1. /\ Len(Current) = 1 => Tail(Current) = <<>> /\ 1 + 1 \notin DOMAIN Current
        /\ 1 + 1 \in DOMAIN Current => Tail(Current)[1] = Current[1 + 1]
        /\ 1 + 2 \in DOMAIN Current => Tail(Current)[2] = Current[1 + 2] /\ 1 + 1 \in DOMAIN Current
        /\ Len(Current) # 1 => 1 + 1 \in DOMAIN Current
    <2>1. \A n \in Nat \ {0} : /\ n = 1 => 1 + 1 \notin 1..n
                               /\ 1 + 1 \in 1..n => 1 \in 1..(n - 1)
                               /\ 1 + 2 \in 1..n => 2 \in 1..(n - 1) /\ 1 + 1 \in 1..n /\ 2 + 1 = 1 + 2
                               /\ n # 1 => 1 + 1 \in 1..n
      OBVIOUS
    <2>2. \A i \in 1..(Len(Current) - 1) : Tail(Current)[i] = Current[i + 1]
      BY <1>0, TailProperties
    <2>3. Len(Current) = 1 => Tail(Current) = <<>>
      <3>1. Tail(Current) \in Seq(Pair) /\ Len(Tail(Current)) = Len(Current) - 1
        BY <1>0
      <3>2. \A s \in Seq(Pair) : Len(s) = 0 => s = <<>>
        OBVIOUS
      <3>3. Len(Current) = 1 => Len(Tail(Current)) = 0
        BY <3>1
      <3> QED BY <3>1, <3>2, <3>3
    <2> QED BY <1>0, <2>1, <2>2, <2>3
  <1> DEFINE Idles == Handles \cup DoSends \cup Dispatches \cup Errs \cup Retries \cup Finals
                      \cup {ContactsPair}
  <1>2. \A p \in Idles : p \notin Firsts \cup {SesPair, RefreshPair, GetContactsPair}
    <2>1. \A p \in Finals : p \notin Firsts
      BY PairKindsDiffer
    <2> QED BY <2>1, PairKindsDiffer, NamesDiffer DEF Names
  <1>3. \A q, x : q = <<>> \/ q[1] \in Idles => Wants(q, x)
    BY <1>2 DEF Wants
  <1>4. \A t : HandlePair(t) \notin Finals \cup DoSends \cup Dispatches \cup {SesPair, ContactsPair}
                 /\ HandlePair(t) \notin Retries \cup Errs
    <2>1. \A t : HandlePair(t).cb = HANDLE
      BY DEF HandlePair
    <2> QED BY <2>1, PairKindsDiffer, NamesDiffer DEF Names
  <1>5. CASE Current[1] \in Firsts
    <2>1. 1 + 1 \in DOMAIN Current /\ Current[1 + 1] = SesPair /\ Tail(Current)[1] = SesPair
            /\ Content(Tail(Current)[2]) = Current[1].user_data
      BY <1>0, <1>1, <1>5 DEF Fits
    <2>2. SesPair \notin Firsts \cup {RefreshPair, GetContactsPair}
      BY PairKindsDiffer
    <2>3. Current[1] \notin Retries
      BY <1>2, <1>5
    <2>4. \A x : Wants(Current, x) => x = Current[1].user_data
      BY <1>5 DEF Wants
    <2>5. \A x : Wants(Current, x) => Wants(Tail(Current), x)
      BY <2>1, <2>2, <2>4 DEF Wants
    <2> QED BY <1>4, <1>5, <2>1, <2>3, <2>5
  <1>6. CASE Current[1] \notin Firsts
    <2>1. Tail(Current) = <<>> \/ Tail(Current)[1] \in Idles
      BY <1>0, <1>1, <1>6 DEF Fits, MPair
    <2>2. \A x : Wants(Tail(Current), x)
      BY <1>3, <2>1
    <2>3. Current[1] \in Retries => 1 + 1 \in DOMAIN Current /\ Current[1 + 1] \in Handles
      BY <1>0 DEF Fits
    <2>4. ASSUME NEW t, 1 + 1 \in DOMAIN Current, Current[1 + 1] = HandlePair(t)
          PROVE  Current[1] \in DoSends \cup Retries \cup Handles
      <3>1. Len(Current) # 1
        BY <1>1, <2>4
      <3> QED BY <1>0, <1>4, <1>6, <2>4, <3>1 DEF Fits, MPair
    <2> QED BY <1>6, <2>2, <2>3, <2>4
  <1> QED BY <1>5, <1>6

(* A handler responds.                                                     *)
LEMMA ReadsResponds ==
  ASSUME EngineOK, EngineOK', BasePending, NEW X \in [Deferreds -> Reqs], Reads(X), Responds
  PROVE  EachReads'
  <1>0. /\ Running /\ Current # <<>> /\ callbacks' = Popped /\ GoOn("cb", RESPONSE)
        /\ UNCHANGED <<built, is_firing, pending, request>> /\ DTypeOK
    BY DEF Responds, Respond, InHandler, EngineOK, DInv
  <1>1. /\ DOMAIN stack' = DOMAIN stack
        /\ \A i \in DOMAIN stack : stack'[i].dfr = stack[i].dfr
    BY <1>0, GoOnSameDeferreds
  <1>2. /\ Top.dfr \in built /\ Top.dfr \in Deferreds /\ Current = callbacks[Top.dfr]
    BY <1>0, ShapePopped
  <1>3. Wants(Current, X[Top.dfr])
    BY <1>2 DEF Reads
  <1>4. Current[1] \notin DoSends \cup Retries \cup Handles /\ ContactsPair \notin Firsts
    <2>1. Current[1] \in Firsts \cup Finals \cup Dispatches
                           \cup {SesPair, RefreshPair, GetContactsPair, ContactsPair}
      BY DEF Responds
    <2> QED BY <2>1, PairKindsDiffer, NamesDiffer DEF Names
  <1>5. \A t \in Deferreds : ~(1 + 1 \in DOMAIN Current /\ Current[1 + 1] = HandlePair(t))
    BY <1>0, <1>4, TailWants
  <1>6. CASE Current[1] = ContactsPair
    <2>1. Wants(Tail(Current), <<>>) /\ <<>> \in Reqs
      BY <1>0, <1>4, <1>6, TailWants DEF Reqs
    <2> QED BY <1>0, <1>1, <1>5, <2>1, ReadsTurn
  <1>7. CASE Top.mode = "cb"
    <2>1. Wants(Tail(Current), X[Top.dfr]) /\ X[Top.dfr] \in Reqs
      BY <1>0, <1>2, <1>3, TailWants
    <2>2. X[Top.dfr] \in {<<>>, request[Base]}
      BY <1>0, <1>7 DEF Reads, Running
    <2> QED BY <1>0, <1>1, <1>5, <2>1, <2>2, ReadsTurn
  <1> QED BY <1>6, <1>7 DEF Responds

(* A handler faults.                                                       *)
LEMMA ReadsFaults ==
  ASSUME EngineOK, EngineOK', BasePending, NEW X \in [Deferreds -> Reqs], Reads(X),
         NEW f \in Faults, FaultsWith(f)
  PROVE  EachReads'
  <1>0. /\ Running /\ Current # <<>> /\ callbacks' = FaultedQueue /\ GoOn("err", f)
        /\ UNCHANGED <<built, is_firing, pending, request>> /\ DTypeOK
    BY DEF FaultsWith, Fault, InHandler, EngineOK, DInv
  <1>1. /\ DOMAIN stack' = DOMAIN stack
        /\ \A i \in DOMAIN stack : stack'[i].dfr = stack[i].dfr
    BY <1>0, GoOnSameDeferreds
  <1>2. /\ Top.dfr \in built /\ Top.dfr \in Deferreds /\ Current = callbacks[Top.dfr]
        /\ stack'[Depth].mode = "err"
    <2>1. Depth \in DOMAIN stack /\ stack \in Seq(Frame)
      BY <1>0, RunningFrames DEF DTypeOK
    <2>2. stack'[Depth].mode = "err"
      BY <1>0, <2>1 DEF GoOn
    <2> QED BY <1>0, <2>2, ShapePopped
  <1>3. Wants(Current, X[Top.dfr]) /\ X[Top.dfr] \in Reqs
    BY <1>2 DEF Reads
  <1>4. Current[1] \notin DoSends \cup Retries \cup Handles
    <2>1. Current[1] \in Firsts \cup Finals \cup Errs
                           \cup {SesPair, RefreshPair, GetContactsPair}
      BY DEF FaultsWith
    <2> QED BY <2>1, PairKindsDiffer, NamesDiffer DEF Names
  <1>5. \A t \in Deferreds : ~(1 + 1 \in DOMAIN Current /\ Current[1 + 1] = HandlePair(t))
    BY <1>0, <1>4, TailWants
  <1>6. CASE callbacks' = callbacks
    <2>1. Reads(X)'
      BY <1>0, <1>1, <1>2, <1>6, ReadsErr
    <2> QED BY <2>1 DEF EachReads
  <1>7. CASE callbacks' = Popped
    <2>1. Wants(Tail(Current), X[Top.dfr])
      BY <1>0, <1>3, TailWants
    <2> QED BY <1>0, <1>1, <1>2, <1>3, <1>5, <1>7, <2>1, ReadsTurn
  <1> QED BY <1>0, <1>6, <1>7 DEF FaultedQueue

(* A pair without a handler is skipped.                                    *)
LEMMA ReadsSkip ==
  ASSUME EngineOK, EngineOK', BasePending, NEW X \in [Deferreds -> Reqs], Reads(X),
         SkipPair, \A e \in pending : request'[e] = request[e]
  PROVE  EachReads'
  <1>0. /\ Running /\ Current # <<>> /\ callbacks' = Popped /\ stack' = stack
        /\ UNCHANGED <<built, is_firing, pending>> /\ DTypeOK
    BY DEF SkipPair, EngineOK, DInv
  <1>2. /\ Top.dfr \in built /\ Top.dfr \in Deferreds /\ Current = callbacks[Top.dfr]
        /\ Top \in Frame /\ Top.mode \in {"cb", "err"} /\ stack'[Depth].mode = Top.mode
    BY <1>0, ShapePopped, RunningFrames DEF Top
  <1>3. /\ Wants(Current, X[Top.dfr]) /\ X[Top.dfr] \in Reqs
        /\ Feeds(Current, X, X[Top.dfr])
    BY <1>2 DEF Reads
  <1>4. Wants(Tail(Current), X[Top.dfr])
    BY <1>0, <1>3, TailWants
  <1>5. /\ Current[1] \notin Handles
        /\ Current[1] \in Retries => Top.mode = "err"
    <2>1. IF Top.mode = "cb" THEN Current[1].cb = NULL ELSE Current[1].err = NULL
      BY <1>0, ShapePopped DEF SkipPair, Handler
    <2> QED BY <1>2, <2>1, PairKindsDiffer, NamesDiffer DEF Names
  <1>6. Top.mode = "cb" => X[Top.dfr] \in {<<>>, request[Base]}
    BY <1>0 DEF Reads, Running
  <1>7. CASE Current[1] \notin Retries
    <2>1. ASSUME NEW t \in Deferreds, 1 + 1 \in DOMAIN Current, Current[1 + 1] = HandlePair(t)
          PROVE  X[t] = <<>>
      <3>1. X[t] \in {<<>>, Supply(Current, X[Top.dfr], 1 + 1)}
        BY <1>3, <2>1 DEF Feeds
      <3>2. Supply(Current, X[Top.dfr], 1 + 1) = <<>>
        <4>1. 1 + 1 # 1 /\ (1 + 1) - 1 = 1
          OBVIOUS
        <4> QED BY <1>7, <4>1 DEF Supply
      <3> QED BY <3>1, <3>2
    <2> QED BY <1>0, <1>2, <1>3, <1>4, <1>6, <2>1, ReadsTurn
  <1>8. CASE Current[1] \in Retries
    <2>1. PICK t \in Deferreds : Current[1 + 1] = HandlePair(t)
      BY <1>0, <1>8, TailWants DEF Handles
    <2>2. \A s \in Deferreds : HandlePair(s) = HandlePair(t) => s = t
      BY HandlePairInjective
    <2>3. Wants(Tail(Current), X[t]) /\ X[t] \in Reqs
      <3>1. Current[1] \notin Firsts
        BY <1>8, PairKindsDiffer DEF Names
      <3> QED BY <1>0, <3>1, TailWants
    <2>4. \A s \in Deferreds : 1 + 1 \in DOMAIN Current /\ Current[1 + 1] = HandlePair(s)
            => X[s] \in {<<>>, X[t]}
      BY <2>1, <2>2
    <2>5. stack'[Depth].mode # "cb"
      BY <1>2, <1>5, <1>8
    <2> QED BY <1>0, <2>3, <2>4, <2>5, ReadsTurn
  <1> QED BY <1>7, <1>8

(* A handle pair resumes the deferred that waits.                          *)
LEMMA ReadsResume ==
  ASSUME EngineOK, EngineOK', BasePending, NEW X \in [Deferreds -> Reqs], Reads(X),
         Resume, \A e \in pending : request'[e] = request[e]
  PROVE  EachReads'
  <1>0. /\ DTypeOK /\ StackSound /\ Running /\ Current # <<>> /\ callbacks' = Popped
        /\ UNCHANGED <<built, pending>> /\ is_firing \subseteq is_firing' /\ ~crashed'
        /\ stack \in Seq(Frame) /\ built \subseteq Deferreds /\ <<>> \in Reqs
    BY DEF Resume, Enter, EngineOK, DInv, DTypeOK, Reqs
  <1>1. /\ Top.dfr \in built /\ Top.dfr \in Deferreds /\ Current = callbacks[Top.dfr]
        /\ Current \in Seq(Pair) /\ Current[1] \in MPair /\ Head(Current) = Current[1]
        /\ 1 \in DOMAIN Current
    BY <1>0, ShapePopped
  <1>2. PICK t \in Deferreds : Current[1] = HandlePair(t)
    <2>1. Current[1].cb = HANDLE \/ Current[1].err = HANDLE
      BY <1>1 DEF Resume, Handler
    <2>2. Current[1] \in Handles
      BY <1>1, <2>1, PairKindsDiffer, NamesDiffer DEF MPair, Names
    <2> QED BY <2>2 DEF Handles
  <1>3. t \in built /\ ~OnStack(t)
    BY <1>1, <1>2, WaitersApart
  <1>4. /\ Depth \in Nat \ {0} /\ DOMAIN stack = 1..Depth /\ OnStack(Top.dfr)
        /\ Depth \in 1..Depth
    BY <1>0, RunningFrames DEF OnStack, Top
  <1>5. stack' = Append(stack, [dfr |-> t, mode |-> Top.mode, val |-> Top.val])
    BY <1>0, <1>1, <1>2 DEF Resume, Enter, HandlePair
  <1>6. /\ Depth' = Depth + 1 /\ DOMAIN stack' = 1..(Depth + 1)
        /\ \A i \in 1..Depth : stack'[i] = stack[i]
        /\ stack'[Depth + 1].dfr = t /\ stack'[Depth + 1].mode = Top.mode
    BY <1>0, <1>4, <1>5 DEF Depth
  <1>7. /\ Top'.dfr = t /\ Top'.mode = Top.mode /\ Base' = Base
    BY <1>4, <1>6 DEF Top, Base
  <1>8. PICK Y \in [Deferreds -> Reqs] :
          Y[Top.dfr] = <<>> /\ \A e \in Deferreds \ {Top.dfr} : Y[e] = X[e]
    <2>1. [X EXCEPT ![Top.dfr] = <<>>] \in [Deferreds -> Reqs]
      BY <1>0
    <2> QED BY <1>1, <2>1
  <1>9. ASSUME NEW e \in built
        PROVE  Wants(callbacks'[e], Y[e]) /\ Feeds(callbacks'[e], Y, Y[e])
    <2>1. \A k \in DOMAIN callbacks[e] : \A s \in Deferreds :
            callbacks[e][k] = HandlePair(s) => Y[s] = X[s]
      BY <1>4, <1>8, WaitersApart
    <2>2. CASE e # Top.dfr
      <3>1. callbacks'[e] = callbacks[e] /\ Y[e] = X[e]
        BY <1>0, <1>8, <2>2, ShapePopped
      <3> QED BY <2>1, <3>1, FeedsSame DEF Reads
    <2>3. CASE e = Top.dfr
      <3>1. callbacks'[e] = Tail(Current) /\ Current = callbacks[e] /\ Y[e] = <<>>
        BY <1>0, <1>8, <2>3, ShapePopped
      <3>2. Current[1] \notin Firsts /\ Current[1] \notin Retries
        <4>1. Current[1].cb = HANDLE
          BY <1>2 DEF HandlePair
        <4> QED BY <4>1, PairKindsDiffer, NamesDiffer DEF Names
      <3>3. Feeds(Current, X, X[e])
        BY <3>1 DEF Reads
      <3>4. Feeds(Current, Y, X[e])
        BY <2>1, <3>1, <3>3, FeedsSame
      <3>5. ASSUME NEW s \in Deferreds, 1 + 1 \in DOMAIN Current, Current[1 + 1] = HandlePair(s)
            PROVE  Y[s] = <<>>
        <4>1. 1 + 1 # 1 /\ (1 + 1) - 1 = 1
          OBVIOUS
        <4>2. Supply(Current, X[e], 1 + 1) = <<>>
          BY <3>2, <4>1 DEF Supply
        <4> QED BY <3>4, <3>5, <4>2 DEF Feeds
      <3>6. Feeds(Tail(Current), Y, <<>>)
        BY <1>0, <1>1, <3>4, <3>5, FeedsTail
      <3>7. Wants(Tail(Current), <<>>)
        BY <1>0, <3>2, TailWants
      <3> QED BY <3>1, <3>6, <3>7
    <2> QED BY <2>2, <2>3
  <1>10. \A e \in pending \ is_firing' : Y[e] \in {<<>>, request'[e]}
    <2>1. Top.dfr \in is_firing
      BY <1>0, <1>4 DEF StackSound, Top
    <2> QED BY <1>0, <1>8, <2>1 DEF Reads, DTypeOK
  <1>11. ASSUME NEW i \in DOMAIN stack', i < Depth'
         PROVE  Y[stack'[i].dfr] = <<>>
    <2>1. i \in 1..Depth /\ stack'[i] = stack[i] /\ stack[i].dfr \in Deferreds
      <3>1. i \in 1..Depth
        BY <1>4, <1>6, <1>11
      <3> QED BY <1>0, <1>6, <3>1, RunningFrames
    <2>2. CASE i = Depth
      BY <1>8, <2>1, <2>2 DEF Top
    <2>3. CASE i # Depth
      <3>1. i < Depth
        BY <1>4, <2>1, <2>3
      <3>2. X[stack[i].dfr] = <<>>
        BY <1>4, <2>1, <3>1 DEF Reads
      <3> QED BY <1>8, <2>1, <3>2
    <2> QED BY <2>2, <2>3
  <1>12. Top'.mode = "cb" => Y[Top'.dfr] \in {<<>>, request'[Base]}
    <2>1. Base \in pending
      BY <1>0 DEF BasePending, Running
    <2>2. Y[t] = X[t]
      BY <1>3, <1>4, <1>8
    <2>3. X[t] \in {<<>>, X[Top.dfr]}
      <3>1. Feeds(Current, X, X[Top.dfr])
        BY <1>1 DEF Reads
      <3> QED BY <1>1, <1>2, <3>1 DEF Feeds, Supply
    <2>4. Top.mode = "cb" => X[Top.dfr] \in {<<>>, request[Base]}
      BY <1>0 DEF Reads, Running
    <2> QED BY <1>7, <2>1, <2>2, <2>3, <2>4
  <1>13. Reads(Y)'
    BY <1>0, <1>7, <1>9, <1>10, <1>11, <1>12 DEF Reads
  <1> QED BY <1>13 DEF EachReads

(* A queue is empty: the activation below goes on, or the event ends.      *)
LEMMA ReadsFinish ==
  ASSUME EngineOK, EngineOK', NEW X \in [Deferreds -> Reqs], Reads(X),
         FinishInner \/ FinishBase, \A e \in pending' : request'[e] = request[e]
  PROVE  EachReads'
  <1>0. /\ callbacks' = callbacks /\ built' \subseteq built /\ pending' \subseteq pending
        /\ is_firing' = is_firing /\ Running /\ DTypeOK
    BY DEF FinishInner, FinishBase, Answered, EngineOK, DInv
  <1>1. Depth \in Nat \ {0} /\ DOMAIN stack = 1..Depth
    BY <1>0, RunningFrames
  <1>2. CASE FinishBase
    <2>1. stack' = <<>>
      BY <1>2 DEF FinishBase
    <2>2. Reads(X)'
      BY <1>0, <2>1 DEF Reads
    <2> QED BY <2>2 DEF EachReads
  <1>3. CASE FinishInner
    <2>1. /\ Depth > 1
          /\ stack' = [i \in 1..(Depth - 1) |->
                        IF i = Depth - 1
                        THEN [dfr |-> stack[i].dfr, mode |-> "cb", val |-> Top.val]
                        ELSE stack[i]]
      BY <1>3 DEF FinishInner
    <2>2. /\ DOMAIN stack' = 1..(Depth - 1) /\ Depth - 1 \in 1..(Depth - 1)
          /\ \A i \in 1..(Depth - 1) : stack'[i].dfr = stack[i].dfr /\ i < Depth /\ i \in 1..Depth
      BY <1>1, <2>1
    <2>3. \A i \in 1..(Depth - 1) : X[stack'[i].dfr] = <<>>
      BY <1>1, <2>2 DEF Reads
    <2>4. Depth' = Depth - 1
      <3>1. stack' \in Seq(Frame)
        BY DEF EngineOK, DInv, DTypeOK
      <3>2. Depth - 1 \in Nat
        BY <1>1
      <3> QED BY <2>2, <3>1, <3>2 DEF Depth
    <2>5. X[Top'.dfr] = <<>>
      BY <2>2, <2>3, <2>4 DEF Top
    <2>6. Reads(X)'
      BY <1>0, <2>2, <2>3, <2>5 DEF Reads
    <2> QED BY <2>6 DEF EachReads
  <1> QED BY <1>2, <1>3

(* An answer fires a request in flight.                                    *)
LEMMA ReadsFires ==
  ASSUME EngineOK, EngineOK', NEW X \in [Deferreds -> Reqs], Reads(X), NEW d \in Deferreds, Fires(d)
  PROVE  EachReads'
  <1>0. /\ UNCHANGED <<callbacks, built, pending, request>> /\ is_firing \subseteq is_firing'
        /\ Idle /\ ~crashed' /\ d \in pending /\ d \notin is_firing
    BY DEF Fires, Fire, Enter, EngineOK, DInv, PendingSound, Idle
  <1>1. PICK mode, val : stack' = Append(<<>>, [dfr |-> d, mode |-> mode, val |-> val])
    BY <1>0 DEF Fires, Fire, Enter, Idle
  <1>2. DOMAIN stack' = {1} /\ Depth' = 1 /\ stack'[1].dfr = d
    BY <1>1 DEF Depth
  <1>3. Top'.dfr = d /\ Base' = d
    BY <1>2 DEF Top, Base
  <1>4. X[d] \in {<<>>, request[d]}
    BY <1>0 DEF Reads
  <1>5. Reads(X)'
    BY <1>0, <1>2, <1>3, <1>4 DEF Reads
  <1> QED BY <1>5 DEF EachReads

(* Code that begins nothing and answers nothing.                           *)
LEMMA ReadsKeeps ==
  ASSUME NEW X \in [Deferreds -> Reqs], Reads(X), Keeps
  PROVE  EachReads'
  <1>1. Reads(X)'
    BY DEF Reads, Keeps, dvars, Depth, Top, Base
  <1> QED BY <1>1 DEF EachReads

(* The queues of the code hold no handle pairs of their own.               *)
LEMMA ChainsAreUsers ==
  \A chain \in StartChains \cup ReturnedChains :
    chain \in Seq(UserPair) /\ \A k \in DOMAIN chain : \A t : chain[k] # HandlePair(t)
  <1>1. ASSUME NEW chain \in StartChains \cup ReturnedChains
        PROVE  chain \in Seq(UserPair)
    BY MessagingAssumption, CallbacksAssumption DEF StartChains, ReturnedChains, MessagingChains
  <1>2. ASSUME NEW chain \in Seq(UserPair), NEW k \in DOMAIN chain, NEW t
        PROVE  chain[k] # HandlePair(t)
    <2>1. chain[k] \in UserPair
      OBVIOUS
    <2> QED BY <2>1, UserPairIsNoHandle
  <1> QED BY <1>1, <1>2

(* What a queue that begins with one of these pairs reads first.           *)
LEMMA WantsFirst ==
  ASSUME NEW q, NEW x
  PROVE  /\ q[1] \in Firsts /\ x = q[1].user_data => Wants(q, x)
         /\ q[1] = RefreshPair /\ x = <<"refresh">> => Wants(q, x)
         /\ q[1] = GetContactsPair /\ x = <<"contacts">> => Wants(q, x)
         /\ q[1] \in Errs \cup Retries \cup Handles => Wants(q, x)
         /\ Wants(<<>>, x)
  <1>1. \A p \in Firsts : p \notin {SesPair, RefreshPair, GetContactsPair}
    BY PairKindsDiffer
  <1>2. \A p \in {RefreshPair, GetContactsPair} : p \notin Firsts \cup {SesPair}
    BY PairKindsDiffer
  <1>3. RefreshPair # GetContactsPair
    BY PairKindsDiffer
  <1>4. \A p \in Errs \cup Retries \cup Handles :
          p \notin Firsts \cup {SesPair, RefreshPair, GetContactsPair}
    BY PairKindsDiffer, NamesDiffer DEF Names
  <1> QED BY <1>1, <1>2, <1>3, <1>4 DEF Wants

(* A deferred is built outside handlers.                                   *)
LEMMA ReadsNew ==
  ASSUME EngineOK, EngineOK', NEW X \in [Deferreds -> Reqs], Reads(X),
         NEW d \in Deferreds, NEW chain \in StartChains, NEW x \in Reqs,
         Build(d, chain, TRUE) \/ Build(d, chain, FALSE), Idle, Wants(chain, x),
         \A e \in pending : request'[e] = request[e], d \in pending' => request'[d] = x
  PROVE  EachReads'
  <1>0. /\ d \notin built /\ built' = built \cup {d} /\ stack' = <<>> /\ stack = <<>>
        /\ pending' \subseteq pending \cup {d} /\ is_firing' = is_firing \ {d}
        /\ callbacks' = [callbacks EXCEPT ![d] = chain] /\ callbacks \in [Deferreds -> Seq(Pair)]
        /\ built \subseteq Deferreds /\ pending \subseteq built
    BY DEF Build, Allocate, Idle, EngineOK, DInv, DTypeOK, PendingSound
  <1>1. PICK Y \in [Deferreds -> Reqs] : Y[d] = x /\ \A e \in Deferreds \ {d} : Y[e] = X[e]
    <2>1. [X EXCEPT ![d] = x] \in [Deferreds -> Reqs]
      OBVIOUS
    <2> QED BY <2>1
  <1>2. ASSUME NEW e \in built'
        PROVE  Wants(callbacks'[e], Y[e]) /\ Feeds(callbacks'[e], Y, Y[e])
    <2>1. CASE e = d
      <3>1. callbacks'[e] = chain /\ Y[e] = x
        BY <1>0, <1>1, <2>1
      <3>2. Feeds(chain, Y, x)
        BY ChainsAreUsers DEF Feeds
      <3> QED BY <3>1, <3>2
    <2>2. CASE e # d
      <3>1. e \in built /\ callbacks'[e] = callbacks[e] /\ Y[e] = X[e]
        BY <1>0, <1>1, <2>2
      <3>2. \A k \in DOMAIN callbacks[e] : \A t \in Deferreds :
              callbacks[e][k] = HandlePair(t) => Y[t] = X[t]
        BY <1>0, <1>1, <3>1, WaitersApart
      <3> QED BY <3>1, <3>2, FeedsSame DEF Reads
    <2> QED BY <2>1, <2>2
  <1>3. \A e \in pending' \ is_firing' : Y[e] \in {<<>>, request'[e]}
    <2>1. ASSUME NEW e \in pending' \ is_firing'
          PROVE  Y[e] \in {<<>>, request'[e]}
      <3>1. CASE e = d
        BY <1>1, <3>1
      <3>2. CASE e # d
        <4>1. e \in pending \ is_firing /\ e \in Deferreds
          BY <1>0, <3>2
        <4> QED BY <1>1, <3>2, <4>1 DEF Reads
      <3> QED BY <3>1, <3>2
    <2> QED BY <2>1
  <1>4. Reads(Y)'
    BY <1>0, <1>2, <1>3 DEF Reads
  <1> QED BY <1>4 DEF EachReads

(* An event builds a deferred, with or without a request.                  *)
LEMMA ReadsBuilds ==
  ASSUME EngineOK, EngineOK', TypedSessions, Tables,
         NEW X \in [Deferreds -> Reqs], Reads(X), NEW d \in Deferreds,
         BuildsAlone(d) \/ \E chain \in StartChains, content \in Requests :
                             Builds(d, chain, content)
  PROVE  EachReads'
  <1>0. /\ <<>> \in StartChains /\ <<>> \in Reqs /\ Requests \subseteq Reqs
        /\ pending \subseteq built /\ d \notin built
    BY DEF StartChains, Reqs, EngineOK, DInv, PendingSound, BuildsAlone, Builds, Build, Allocate
  <1>1. CASE BuildsAlone(d)
    <2>1. d \notin pending' /\ \A e \in pending : request'[e] = request[e]
      BY <1>0, <1>1 DEF BuildsAlone, Build
    <2> QED BY <1>0, <1>1, <2>1, ReadsNew, WantsFirst DEF BuildsAlone
  <1>2. ASSUME NEW chain \in StartChains, NEW content \in Requests, Builds(d, chain, content)
        PROVE  EachReads'
    <2>1. \A e \in pending : e \in pending' /\ request'[e] = request[e]
      <3>1. pending' = pending \cup {d}
        BY <1>2 DEF Builds, Build
      <3> QED BY <3>1 DEF Tables
    <2>2. request'[d] = content
      BY <1>2 DEF Builds, Sends
    <2>3. Wants(chain, content)
      <3>1. CASE chain = <<>>
        BY <3>1, WantsFirst
      <3>2. ASSUME NEW call \in SendCalls, chain = SendChain(call)
            PROVE  Wants(chain, content)
        <4>1. chain[1] \in Errs
          BY <3>2, ChainForms DEF Errs
        <4> QED BY <4>1, WantsFirst
      <3>3. ASSUME NEW call \in SendCalls, content = <<"create", call[2]>>,
                   chain = CreateChain(call) \o SendChain(call)
            PROVE  Wants(chain, content)
        <4>1. chain[1] = DefaultPair(<<"create", call[2]>>)
          BY <3>3, ChainForms
        <4>2. chain[1] \in Firsts /\ chain[1].user_data = <<"create", call[2]>>
          BY <4>1, CallKinds DEF Firsts, DefaultPair, PairOf
        <4> QED BY <3>3, <4>2, WantsFirst
      <3>4. ASSUME NEW s \in SessionIds, NEW m \in 1..MaxMessages, content = <<"get", s>>,
                   chain = DispatchChain(s, m)
            PROVE  Wants(chain, content)
        <4>1. chain[1] = DefaultPair(<<"get", s>>)
          BY <3>4, ChainForms
        <4>2. chain[1] \in Firsts /\ chain[1].user_data = <<"get", s>>
          BY <4>1, CallKinds DEF Firsts, DefaultPair, PairOf
        <4> QED BY <3>4, <4>2, WantsFirst
      <3>5. CASE chain = ContactsChain /\ content = <<"contacts">>
        <4>1. chain[1] = GetContactsPair
          BY <3>5, ChainForms
        <4> QED BY <3>5, <4>1, WantsFirst
      <3>6. Opens(chain, content)
        BY <1>2 DEF Builds
      <3> QED BY <3>1, <3>2, <3>3, <3>4, <3>5, <3>6 DEF Opens
    <2> QED BY <1>0, <1>2, <2>1, <2>2, <2>3, ReadsNew DEF Builds
  <1> QED BY <1>1, <1>2

(* A handler returns a deferred: all that run wait in its queue.           *)
LEMMA ReadsReturn ==
  ASSUME EngineOK, EngineOK', NEW X \in [Deferreds -> Reqs], Reads(X),
         NEW d \in Deferreds, NEW chain \in ReturnedChains, NEW content,
         Chain(d, chain, TRUE), Sends(d, content), Tables,
         NEW x \in Reqs, NEW y \in Reqs, y \in {<<>>, content},
         Wants(Tail(Current), x),
         \A t \in Deferreds : 1 + 1 \in DOMAIN Current /\ Current[1 + 1] = HandlePair(t)
                                => X[t] \in {<<>>, x},
         \A hs \in Seq(Handles) : hs # <<>> => Wants(chain \o hs, y),
         IF chain = <<>> THEN x \in {<<>>, y}
         ELSE x = <<>> \/ /\ chain[Len(chain)] \in Retries
                          /\ x = chain[Len(chain)].user_data
  PROVE  EachReads'
  <1>0. /\ DTypeOK /\ StackSound /\ Running /\ Current # <<>> /\ d \notin built
        /\ built' = built \cup {d} /\ is_firing' = is_firing \ {d}
        /\ callbacks' = [Popped EXCEPT ![d] = chain \o HandlePairs] /\ stack' = <<>>
        /\ pending' \subseteq pending \cup {d} /\ pending \subseteq built
        /\ built \subseteq Deferreds
    BY DEF Chain, Allocate, InHandler, Answered, EngineOK, DInv, DTypeOK, PendingSound
  <1>1. /\ Top.dfr \in built /\ Top.dfr \in Deferreds /\ Current = callbacks[Top.dfr]
        /\ Current \in Seq(Pair) /\ Popped \in [Deferreds -> Seq(Pair)]
    BY <1>0, ShapePopped, PoppedType
  <1>2. /\ Depth \in Nat \ {0} /\ DOMAIN stack = 1..Depth /\ OnStack(Top.dfr)
        /\ Depth \in 1..Depth
    BY <1>0, RunningFrames DEF OnStack, Top
  <1>3. PICK Y \in [Deferreds -> Reqs] :
          /\ Y[d] = y /\ Y[Top.dfr] = x
          /\ \A e \in Deferreds \ {d, Top.dfr} : Y[e] = X[e]
    <2>1. [X EXCEPT ![d] = y, ![Top.dfr] = x] \in [Deferreds -> Reqs]
      OBVIOUS
    <2>2. d # Top.dfr
      BY <1>0, <1>1
    <2> QED BY <1>1, <2>1, <2>2
  <1>4. ASSUME NEW e \in built
        PROVE  Wants(callbacks'[e], Y[e]) /\ Feeds(callbacks'[e], Y, Y[e])
    <2>1. \A k \in DOMAIN callbacks[e] : \A t \in Deferreds :
            callbacks[e][k] = HandlePair(t) => Y[t] = X[t]
      BY <1>0, <1>2, <1>3, WaitersApart
    <2>2. CASE e # Top.dfr
      <3>1. callbacks'[e] = callbacks[e] /\ Y[e] = X[e]
        BY <1>0, <1>1, <1>3, <2>2, ShapePopped
      <3> QED BY <2>1, <3>1, FeedsSame DEF Reads
    <2>3. CASE e = Top.dfr
      <3>1. callbacks'[e] = Tail(Current) /\ Current = callbacks[e] /\ Y[e] = x
        BY <1>0, <1>1, <1>3, <2>3, ShapePopped
      <3>2. Feeds(Current, X, X[e])
        BY <3>1 DEF Reads
      <3>3. Feeds(Current, Y, X[e])
        BY <2>1, <3>1, <3>2, FeedsSame
      <3>4. \A t \in Deferreds : 1 + 1 \in DOMAIN Current /\ Current[1 + 1] = HandlePair(t)
                                   => Y[t] \in {<<>>, x}
        BY <2>1, <3>1
      <3>5. Feeds(Tail(Current), Y, x)
        BY <1>0, <1>1, <3>3, <3>4, FeedsTail
      <3> QED BY <3>1, <3>5
    <2> QED BY <2>2, <2>3
  <1>5. PICK q : q = chain \o HandlePairs
    OBVIOUS
  <1>6. callbacks'[d] = q /\ HandlePairs \in Seq(Handles) /\ HandlePairs # <<>>
    BY <1>0, <1>1, <1>5, AppendedHandles
  <1>7. /\ Len(HandlePairs) = Depth /\ Len(chain) \in Nat
        /\ DOMAIN q = 1..(Len(chain) + Depth)
        /\ \A i \in 1..Len(chain) : q[i] = chain[i]
        /\ \A i \in 1..Depth : q[Len(chain) + i] = HandlePairs[i]
    <2>1. Len(HandlePairs) = Depth /\ Len(chain) \in Nat
      BY <1>0, HandlePairsType, ChainsAreUsers
    <2> QED BY <1>5, <1>6, <2>1, ShapeReturned
  <1>8. \A i \in 1..Depth : /\ Depth + 1 - i \in 1..Depth
                            /\ HandlePairs[i] = HandlePair(stack[Depth + 1 - i].dfr)
    BY <1>0, <1>2, HandlePairsType
  <1>9. Feeds(q, Y, y)
    <2>1. SUFFICES ASSUME NEW k \in DOMAIN q, NEW t \in Deferreds, q[k] = HandlePair(t)
                   PROVE  Y[t] \in {<<>>, Supply(q, y, k)}
      BY DEF Feeds
    <2>2. k \notin 1..Len(chain)
      <3>1. Len(chain) \in Nat /\ DOMAIN chain = 1..Len(chain)
        BY ChainsAreUsers
      <3> QED BY <1>7, <2>1, <3>1, ChainsAreUsers
    <2>3. PICK i \in 1..Depth : k = Len(chain) + i
      <3>1. \A n, m \in Nat : \A j \in 1..(n + m) : j \in 1..n \/ (j - n \in 1..m /\ j = n + (j - n))
        OBVIOUS
      <3>2. k \in 1..(Len(chain) + Depth)
        BY <1>7
      <3>3. k - Len(chain) \in 1..Depth /\ k = Len(chain) + (k - Len(chain))
        BY <1>2, <1>7, <2>2, <3>1, <3>2
      <3> QED BY <3>3
    <2>4. t = stack[Depth + 1 - i].dfr /\ Depth + 1 - i \in 1..Depth
      BY <1>7, <1>8, <2>1, <2>3, HandlePairInjective
    <2>5. CASE i # 1
      <3>1. Depth + 1 - i < Depth
        BY <1>2, <2>5
      <3>2. X[t] = <<>>
        BY <1>2, <2>4, <3>1 DEF Reads
      <3>3. t # Top.dfr
        <4>1. Depth + 1 - i # Depth /\ Depth + 1 - i \in DOMAIN stack /\ Depth \in DOMAIN stack
          BY <1>2, <2>4, <3>1
        <4> QED BY <1>0, <2>4, <4>1 DEF StackSound, Top
      <3>4. t # d
        BY <1>0, <1>2, <2>4 DEF StackSound
      <3> QED BY <1>3, <3>2, <3>3, <3>4
    <2>6. CASE i = 1
      <3>1. Depth + 1 - i = Depth
        BY <1>2, <2>6
      <3>2. t = Top.dfr /\ Y[t] = x
        BY <1>3, <2>4, <3>1 DEF Top
      <3>3. CASE chain = <<>>
        <4>1. k = 1
          BY <2>3, <2>6, <3>3
        <4> QED BY <3>2, <3>3, <4>1 DEF Supply
      <3>4. CASE chain # <<>>
        <4>1. Len(chain) \in Nat \ {0}
          BY <1>7, <3>4, ChainsAreUsers
        <4>2. k # 1 /\ k - 1 = Len(chain) /\ Len(chain) \in 1..Len(chain)
          BY <2>3, <2>6, <4>1
        <4>3. q[k - 1] = chain[Len(chain)]
          BY <1>7, <4>2
        <4> QED BY <3>2, <3>4, <4>2, <4>3 DEF Supply
      <3> QED BY <3>3, <3>4
    <2> QED BY <2>5, <2>6
  <1>10. Wants(q, y)
    BY <1>5, <1>6
  <1>11. \A e \in pending' \ is_firing' : Y[e] \in {<<>>, request'[e]}
    <2>1. ASSUME NEW e \in pending' \ is_firing'
          PROVE  Y[e] \in {<<>>, request'[e]}
      <3>1. CASE e = d
        <4>1. request'[d] = content
          BY DEF Sends
        <4> QED BY <1>3, <3>1, <4>1
      <3>2. CASE e # d
        <4>1. e \in pending \ is_firing /\ e \in Deferreds /\ request'[e] = request[e]
          BY <1>0, <3>2 DEF Tables
        <4>2. e # Top.dfr
          BY <1>0, <1>2, <4>1 DEF StackSound, Top
        <4> QED BY <1>3, <3>2, <4>1, <4>2 DEF Reads
      <3> QED BY <3>1, <3>2
    <2> QED BY <2>1
  <1>12. \A e \in built' : Wants(callbacks'[e], Y[e]) /\ Feeds(callbacks'[e], Y, Y[e])
    BY <1>0, <1>3, <1>4, <1>6, <1>9, <1>10
  <1>13. Reads(Y)'
    BY <1>0, <1>11, <1>12 DEF Reads
  <1> QED BY <1>13 DEF EachReads

(* What a deferred wants that waits behind the pair whose turn it is.      *)
LEMMA NextFeeds ==
  ASSUME EngineOK, Running, Current # <<>>, NEW X \in [Deferreds -> Reqs], Reads(X),
         NEW t \in Deferreds, 1 + 1 \in DOMAIN Current, Current[1 + 1] = HandlePair(t)
  PROVE  X[t] \in {<<>>, IF Current[1] \in Retries THEN Current[1].user_data ELSE <<>>}
  <1>1. Top.dfr \in built /\ Current = callbacks[Top.dfr]
    BY ShapePopped
  <1>2. X[t] \in {<<>>, Supply(Current, X[Top.dfr], 1 + 1)}
    BY <1>1 DEF Reads, Feeds
  <1>3. 1 + 1 # 1 /\ (1 + 1) - 1 = 1
    OBVIOUS
  <1> QED BY <1>2, <1>3 DEF Supply

(* The first pairs of a returned queue.                                    *)
LEMMA WantsReturned ==
  ASSUME NEW hs \in Seq(Handles), hs # <<>>
  PROVE  /\ \A y : Wants(<<>> \o hs, y)
         /\ \A call \in Calls : Wants(RefreshChain(call) \o hs, <<"refresh">>)
         /\ \A call \in SendCalls : Wants(CreateChain(call) \o hs, <<"create", call[2]>>)
  <1>1. ASSUME NEW y
        PROVE  Wants(<<>> \o hs, y)
    <2>1. <<>> \o hs = hs /\ hs[1] \in Handles
      OBVIOUS
    <2> QED BY <2>1, WantsFirst
  <1>2. ASSUME NEW chain \in ReturnedChains, chain # <<>>
        PROVE  (chain \o hs)[1] = chain[1]
    <2>1. 1 \in 1..Len(chain)
      BY <1>2, ChainsAreUsers
    <2> QED BY <2>1, ShapeReturned
  <1>3. ASSUME NEW call \in Calls
        PROVE  Wants(RefreshChain(call) \o hs, <<"refresh">>)
    <2>1. RefreshChain(call) = <<RefreshPair, RetryPair(call)>>
      BY ChainForms
    <2>2. RefreshChain(call) # <<>> /\ RefreshChain(call)[1] = RefreshPair
      BY <2>1
    <2>3. RefreshChain(call) \in ReturnedChains
      BY DEF ReturnedChains
    <2> QED BY <1>2, <2>2, <2>3, WantsFirst
  <1>4. ASSUME NEW call \in SendCalls
        PROVE  Wants(CreateChain(call) \o hs, <<"create", call[2]>>)
    <2>1. CreateChain(call) = <<DefaultPair(<<"create", call[2]>>), SesPair, DoSendPair(call)>>
      BY ChainForms
    <2>2. CreateChain(call) # <<>> /\ CreateChain(call)[1] = DefaultPair(<<"create", call[2]>>)
      BY <2>1
    <2>3. CreateChain(call) \in ReturnedChains
      BY DEF ReturnedChains
    <2>4. /\ DefaultPair(<<"create", call[2]>>) \in Firsts
          /\ DefaultPair(<<"create", call[2]>>).user_data = <<"create", call[2]>>
      BY CallKinds DEF Firsts, DefaultPair, PairOf
    <2> QED BY <1>2, <2>2, <2>3, <2>4, WantsFirst
  <1> QED BY <1>1, <1>3, <1>4

(* A fault with code 1003: the call will be repeated.                      *)
LEMMA ReadsRefreshes ==
  ASSUME EngineOK, EngineOK', Tables, NEW X \in [Deferreds -> Reqs], Reads(X),
         NEW d \in Deferreds, NEW call \in Calls, Refreshes(d, call)
  PROVE  EachReads'
  <1>0. Running /\ Current # <<>> /\ Top.dfr \in Deferreds /\ Top.dfr \in built
          /\ Current = callbacks[Top.dfr]
    BY ShapePopped DEF Refreshes, Chain, InHandler
  <1>1. RefreshChain(call) = <<RefreshPair, RetryPair(call)>> /\ RetryPair(call) \in Retries
          /\ RetryPair(call).user_data = call
    BY ChainForms DEF Retries, RetryPair, PairOf
  <1>2. /\ RefreshChain(call) # <<>> /\ Len(RefreshChain(call)) = 2
        /\ RefreshChain(call)[2] = RetryPair(call) /\ RefreshChain(call) \in ReturnedChains
    BY <1>1 DEF ReturnedChains
  <1>3. \A t : ~(1 + 1 \in DOMAIN Current /\ Current[1 + 1] = HandlePair(t))
    <2>1. Current[1] \notin DoSends \cup Retries \cup Handles
      BY PairKindsDiffer, NamesDiffer DEF Refreshes, Names
    <2> QED BY <1>0, <2>1, TailWants
  <1>4. PICK x \in Reqs : x \in {<<>>, call} /\ Wants(Tail(Current), x)
    <2>1. CASE Current[1] \in Firsts
      <3>1. Wants(Current, X[Top.dfr]) /\ X[Top.dfr] \in Reqs
        BY <1>0 DEF Reads
      <3>2. X[Top.dfr] = call
        BY <1>0, <2>1, <3>1 DEF Wants, Refreshes, DefaultPair, PairOf
      <3>3. Wants(Tail(Current), X[Top.dfr])
        BY <1>0, <3>1, TailWants
      <3> QED BY <3>1, <3>2, <3>3
    <2>2. CASE Current[1] \notin Firsts
      BY <1>0, <2>2, TailWants DEF Reqs
    <2> QED BY <2>1, <2>2
  <1>5. <<"refresh">> \in Reqs
    BY DEF Reqs, Requests
  <1>6. /\ Chain(d, RefreshChain(call), TRUE) /\ Sends(d, <<"refresh">>)
        /\ <<"refresh">> \in {<<>>, <<"refresh">>}
    BY DEF Refreshes
  <1>7. \A hs \in Seq(Handles) : hs # <<>> => Wants(RefreshChain(call) \o hs, <<"refresh">>)
    BY WantsReturned
  <1>8. x = <<>> \/ /\ RefreshChain(call)[Len(RefreshChain(call))] \in Retries
                    /\ x = RefreshChain(call)[Len(RefreshChain(call))].user_data
    BY <1>1, <1>2, <1>4
  <1> QED BY <1>2, <1>3, <1>4, <1>5, <1>6, <1>7, <1>8, ReadsReturn

(* A handler makes a call, the first time or again.                        *)
LEMMA ReadsMakes ==
  ASSUME EngineOK, EngineOK', TypedSessions, Tables, NEW X \in [Deferreds -> Reqs], Reads(X),
         NEW d \in Deferreds, NEW call \in Calls, MakesCall(d, call)
  PROVE  EachReads'
  <1>0. Running /\ Current # <<>> /\ <<>> \in Reqs /\ Requests \subseteq Reqs
    BY DEF MakesCall, Chain, InHandler, Reqs
  <1>1. \A x : Wants(Tail(Current), x)
    <2>1. Current[1] \notin Firsts
      BY PairKindsDiffer DEF MakesCall
    <2> QED BY <1>0, <2>1, TailWants
  <1>2. call \in SendCalls => call \notin Reqs
    <2>1. \A x \in Requests : x[1] # "send"
      BY DEF Requests
    <2>2. call \in SendCalls => call # <<>>
      BY CallKinds
    <2> QED BY <2>1, <2>2, CallKinds DEF Reqs
  <1>3. Current[1].user_data = call
    BY DEF MakesCall, RetryPair, DoSendPair, PairOf
  <1>4. Current[1] \notin Retries => call \in SendCalls
    <2>1. Current[1] \in Retries \cup DoSends
      BY DEF MakesCall
    <2> QED BY <1>3, <2>1, PairKindsDiffer
  <1>5. \A t \in Deferreds : 1 + 1 \in DOMAIN Current /\ Current[1 + 1] = HandlePair(t)
          => X[t] \in {<<>>, IF call \in SendCalls THEN <<>> ELSE call}
    <2>1. ASSUME NEW t \in Deferreds, 1 + 1 \in DOMAIN Current, Current[1 + 1] = HandlePair(t)
          PROVE  X[t] \in {<<>>, IF call \in SendCalls THEN <<>> ELSE call}
      <3>1. X[t] \in {<<>>, IF Current[1] \in Retries THEN call ELSE <<>>} /\ X[t] \in Reqs
        BY <1>0, <1>3, <2>1, NextFeeds
      <3> QED BY <1>2, <1>4, <3>1
    <2> QED BY <2>1
  <1>6. CASE NeedsSession(call)
    <2>1. /\ call \in SendCalls /\ ChainOf(call) = CreateChain(call)
          /\ RequestOf(call) = <<"create", call[2]>> /\ RequestOf(call) \in Requests
          /\ CreateChain(call) \in ReturnedChains
      BY <1>6, CallRequests
    <2>2. CreateChain(call) # <<>>
      <3>1. CreateChain(call) = <<DefaultPair(<<"create", call[2]>>), SesPair, DoSendPair(call)>>
        BY ChainForms
      <3> QED BY <3>1
    <2>3. /\ Chain(d, CreateChain(call), TRUE) /\ Sends(d, <<"create", call[2]>>)
          /\ <<"create", call[2]>> \in {<<>>, <<"create", call[2]>>}
          /\ <<"create", call[2]>> \in Reqs
      BY <1>0, <2>1 DEF MakesCall
    <2>4. \A hs \in Seq(Handles) : hs # <<>> =>
            Wants(CreateChain(call) \o hs, <<"create", call[2]>>)
      BY <2>1, WantsReturned
    <2>5. \A t \in Deferreds : 1 + 1 \in DOMAIN Current /\ Current[1 + 1] = HandlePair(t)
            => X[t] \in {<<>>, <<>>}
      BY <1>5, <2>1
    <2> QED BY <1>0, <1>1, <2>1, <2>2, <2>3, <2>4, <2>5, ReadsReturn
  <1>7. CASE ~NeedsSession(call)
    <2>1. /\ Chain(d, <<>>, TRUE) /\ Sends(d, RequestOf(call)) /\ <<>> \in ReturnedChains
          /\ call \notin SendCalls => RequestOf(call) = call
      BY <1>7, CallRequests DEF MakesCall, ReturnedChains
    <2> DEFINE Suits(x) ==
          /\ x \in {<<>>, RequestOf(call)}
          /\ \A t \in Deferreds : 1 + 1 \in DOMAIN Current /\ Current[1 + 1] = HandlePair(t)
               => X[t] \in {<<>>, x}
    <2>2. PICK x \in Reqs : Suits(x)
      <3>1. CASE call \in SendCalls
        BY <1>0, <1>5, <3>1
      <3>2. ASSUME call \notin SendCalls,
                   NEW t \in Deferreds, 1 + 1 \in DOMAIN Current, Current[1 + 1] = HandlePair(t)
            PROVE  \E x \in Reqs : Suits(x)
        <4>1. \A s \in Deferreds : Current[1 + 1] = HandlePair(s) => s = t
          BY <3>2, HandlePairInjective
        <4>2. X[t] \in Reqs /\ X[t] \in {<<>>, RequestOf(call)}
          BY <1>5, <2>1, <3>2
        <4> QED BY <4>1, <4>2
      <3>3. CASE ~\E t \in Deferreds : 1 + 1 \in DOMAIN Current /\ Current[1 + 1] = HandlePair(t)
        BY <1>0, <3>3
      <3> QED BY <3>1, <3>2, <3>3
    <2>3. \A hs \in Seq(Handles) : hs # <<>> => Wants(<<>> \o hs, x)
      BY WantsReturned
    <2> QED BY <1>1, <2>1, <2>2, <2>3, ReadsReturn
  <1> QED BY <1>6, <1>7

(* Every step hands each response to the queue it is for.                  *)
LEMMA ReadsStep ==
  ASSUME EngineOK, BasePending, TypedSessions, EachReads, Uses
  PROVE  EachReads'
  <1>0. EngineOK' /\ Tables
    BY UsesGo, UsesTables DEF EngineStep
  <1>1. PICK X \in [Deferreds -> Reqs] : Reads(X)
    BY DEF EachReads
  <1>2. CASE RunEngine
    <2>1. \A e \in pending' : request'[e] = request[e]
      <3>1. pending' \subseteq Deferreds
        BY <1>0 DEF EngineOK, DInv, DTypeOK
      <3> QED BY <1>2, <3>1 DEF RunEngine
    <2>2. CASE SkipPair \/ Resume
      <3>1. pending' = pending
        BY <2>2 DEF SkipPair, Resume
      <3> QED BY <1>0, <1>1, <2>1, <2>2, <3>1, ReadsSkip, ReadsResume
    <2>3. CASE FinishInner \/ FinishBase
      BY <1>0, <1>1, <2>1, <2>3, ReadsFinish
    <2> QED BY <1>2, <2>2, <2>3 DEF RunEngine, Engine
  <1>3. CASE \/ \E d \in Deferreds : BuildsAlone(d) \/ Fires(d)
             \/ \E d \in Deferreds, chain \in StartChains, content \in Requests :
                  Builds(d, chain, content)
    BY <1>0, <1>1, <1>3, ReadsBuilds, ReadsFires
  <1>4. CASE Keeps \/ Responds \/ \E f \in Faults : FaultsWith(f)
    BY <1>0, <1>1, <1>4, ReadsKeeps, ReadsResponds, ReadsFaults
  <1>5. CASE \E d \in Deferreds, call \in Calls : Refreshes(d, call) \/ MakesCall(d, call)
    BY <1>0, <1>1, <1>5, ReadsRefreshes, ReadsMakes
  <1> QED BY <1>2, <1>3, <1>4, <1>5 DEF Uses

-----------------------------------------------------------------------------
(* A handler that parses a response is given the one to its own call.      *)
LEMMA ReadNow ==
  ASSUME EngineOK, EachReads
  PROVE  /\ HandlersReadTheirResponse
         /\ Calling("session_cb") => /\ Top.mode = "cb" /\ Current[1] = SesPair
                                     /\ 2 \in DOMAIN Current
                                     /\ Current[2] \in DoSends \cup Dispatches
                                     /\ request[Base] = Content(Current[2])
  <1>1. PICK X \in [Deferreds -> Reqs] : Reads(X)
    BY DEF EachReads
  <1>2. ASSUME Running, Current # <<>>, Top.mode = "cb", Wants(Current, X[Top.dfr]) => X[Top.dfr] # <<>>
        PROVE  Wants(Current, X[Top.dfr]) /\ request[Base] = X[Top.dfr]
    <2>1. Top.dfr \in built /\ Current = callbacks[Top.dfr]
      BY <1>2, ShapePopped
    <2> QED BY <1>1, <1>2, <2>1 DEF Reads, Running
  <1>3. ASSUME Calling("session_cb")
        PROVE  /\ Top.mode = "cb" /\ Current[1] = SesPair
               /\ 2 \in DOMAIN Current
               /\ Current[2] \in DoSends \cup Dispatches
               /\ request[Base] = Content(Current[2])
    <2>1. Running /\ Current # <<>> /\ Top.mode = "cb" /\ Current[1] = SesPair
      BY <1>3, HandlerPairs DEF Names
    <2>2. 1 + 1 \in DOMAIN Current /\ Current[1 + 1] \in DoSends \cup Dispatches
      BY <2>1, ShapePopped DEF Fits
    <2>3. Wants(Current, X[Top.dfr]) => X[Top.dfr] = Content(Current[2])
      BY <2>1 DEF Wants
    <2>4. Content(Current[2]) # <<>> /\ 1 + 1 = 2
      BY DEF Content
    <2> QED BY <1>2, <2>1, <2>2, <2>3, <2>4
  <1>4. ASSUME Calling("refresh_workspace_cb")
        PROVE  request[Base] = <<"refresh">>
    <2>1. Running /\ Current # <<>> /\ Top.mode = "cb" /\ Current[1] = RefreshPair
      BY <1>4, HandlerPairs DEF Names
    <2>2. Wants(Current, X[Top.dfr]) => X[Top.dfr] = <<"refresh">>
      BY <2>1 DEF Wants
    <2>3. <<"refresh">> # <<>>
      OBVIOUS
    <2> QED BY <1>2, <2>1, <2>2, <2>3
  <1>5. ASSUME Calling("get_contacts_cb")
        PROVE  request[Base] = <<"contacts">>
    <2>1. Running /\ Current # <<>> /\ Top.mode = "cb" /\ Current[1] = GetContactsPair
      BY <1>5, HandlerPairs DEF Names
    <2>2. Wants(Current, X[Top.dfr]) => X[Top.dfr] = <<"contacts">>
      BY <2>1 DEF Wants
    <2>3. <<"contacts">> # <<>>
      OBVIOUS
    <2> QED BY <1>2, <2>1, <2>2, <2>3
  <1>6. HandlersReadTheirResponse
    BY <1>3, <1>4, <1>5 DEF HandlersReadTheirResponse, Content
  <1> QED BY <1>3, <1>6

(* The session in the response is one of the server's, and the one that a  *)
(* message waits for is that message's.                                    *)
LEMMA SessionRead ==
  ASSUME EngineOK, EachReads, Calling("session_cb")
  PROVE  /\ SessionInResponse \in SessionIds
         /\ Current[2] \in Dispatches => SessionInResponse = Current[2].user_data[2]
  <1>1. /\ Current[2] \in DoSends \cup Dispatches /\ request[Base] = Content(Current[2])
    BY ReadNow
  <1>2. CASE Current[2] \in DoSends
    <2>1. Current[2].cb = "do_send_im" /\ Current[2].user_data \in SendCalls
      BY <1>2, PairKindsDiffer
    <2>2. PICK u \in Users : request[Base] = <<"create", u>>
      BY <1>1, <2>1, CallKinds DEF Content
    <2>3. SessionInResponse = CHOOSE s \in SessionIds : Members[s] = {u}
      BY <2>2 DEF SessionInResponse
    <2>4. SessionInResponse \in SessionIds
      BY <2>3, MessagingAssumption
    <2> QED BY <1>2, <2>4, PairKindsDiffer
  <1>3. CASE Current[2] \in Dispatches
    <2>1. PICK s \in SessionIds, m \in 1..MaxMessages : Current[2] = DispatchPair(s, m)
      BY <1>3 DEF Dispatches
    <2>2. Current[2].cb = "dispatch_message" /\ Current[2].user_data[2] = s
      BY <2>1 DEF DispatchPair, PairOf
    <2>3. request[Base] = <<"get", s>>
      BY <1>1, <2>2 DEF Content
    <2> QED BY <2>2, <2>3 DEF SessionInResponse
  <1> QED BY <1>1, <1>2, <1>3

-----------------------------------------------------------------------------
(* A message that waited for its session is dispatched at once when the    *)
(* session has come, and the session is in the table then.                 *)
DispatchHead ==
  \A e \in built : callbacks[e] # <<>> /\ callbacks[e][1] \in Dispatches =>
    /\ stack # <<>> /\ e = Top.dfr
    /\ Top.mode = "cb" => Known(callbacks[e][1].user_data[2])

(* A message that waits is one that the server has delivered.              *)
DispatchDelivered ==
  \A e \in built : \A k \in DOMAIN callbacks[e] :
    callbacks[e][k] \in Dispatches =>
      LET got == callbacks[e][k].user_data IN
        got[3] \in DOMAIN delivered /\ delivered[got[3]] = got[2]

(* The actions that change which sessions are known.                       *)
LEMMA SessionsChange ==
  ASSUME [MNext]_mvars
  PROVE  \/ UNCHANGED sessions \/ Idle
         \/ SessionCb \/ DispatchMessage \/ MessagingErr
  BY DEF MNext, mvars, ownvars, Events, SendIm, MarkAsRead, MessageReceived, SessionCreated,
         RefreshContacts, Answers, Reply, ExpiredReply, OtherFault, Handlers, PassOn, Invalid,
         DefaultErr, RefreshWorkspaceCb, MakeCall, GetContactsCb, RunEngine

(* A queue that is new does not begin with a message.                      *)
LEMMA NewQueueStarts ==
  ASSUME EngineOK, TypedSessions, NEW d \in Deferreds, NewQueue(d)
  PROVE  callbacks'[d] # <<>> => callbacks'[d][1] \notin Dispatches
  <1>0. DTypeOK /\ \A p \in Firsts \cup Errs \cup Handles \cup {GetContactsPair, RefreshPair} :
                     p \notin Dispatches
    BY PairKindsDiffer, NamesDiffer DEF EngineOK, DInv, Names
  <1>1. \A call \in SendCalls : /\ DefaultPair(<<"create", call[2]>>) \in Firsts
                                /\ ErrPair(call) \in Errs
    BY CallKinds DEF Firsts, Errs
  <1>2. CASE BuildsAlone(d)
    <2>1. callbacks'[d] = <<>>
      BY <1>0, <1>2 DEF BuildsAlone, Build, DTypeOK
    <2> QED BY <2>1
  <1>3. ASSUME NEW chain \in StartChains, NEW content \in Requests, Builds(d, chain, content)
        PROVE  callbacks'[d] # <<>> => callbacks'[d][1] \notin Dispatches
    <2>1. callbacks'[d] = chain /\ Opens(chain, content)
      BY <1>0, <1>3 DEF Builds, Build, DTypeOK
    <2>2. ASSUME NEW call \in SendCalls,
                 chain = SendChain(call) \/ chain = CreateChain(call) \o SendChain(call)
          PROVE  chain[1] \in Errs \cup Firsts
      <3>1. chain[1] = ErrPair(call) \/ chain[1] = DefaultPair(<<"create", call[2]>>)
        BY <2>2, ChainForms
      <3> QED BY <1>1, <3>1
    <2>3. ASSUME NEW s \in SessionIds, NEW m \in 1..MaxMessages, chain = DispatchChain(s, m)
          PROVE  chain[1] \in Firsts
      <3>1. chain[1] = DefaultPair(<<"get", s>>)
        BY <2>3, ChainForms
      <3> QED BY <3>1, CallKinds DEF Firsts
    <2>4. chain = ContactsChain => chain[1] = GetContactsPair
      BY ChainForms
    <2> QED BY <1>0, <2>1, <2>2, <2>3, <2>4 DEF Opens
  <1>4. ASSUME NEW call \in Calls, Refreshes(d, call) \/ MakesCall(d, call)
        PROVE  callbacks'[d][1] \notin Dispatches
    <2>1. PICK chain, content : Chain(d, chain, TRUE) /\ Sends(d, content)
                                  /\ chain \in {RefreshChain(call), ChainOf(call)}
      BY <1>4 DEF Refreshes, MakesCall
    <2>2. /\ chain \in ReturnedChains
          /\ chain = <<>> \/ chain = RefreshChain(call)
               \/ (call \in SendCalls /\ chain = CreateChain(call))
      BY <2>1, CallRequests DEF ReturnedChains
    <2>3. Running /\ Current # <<>> /\ callbacks' = [Popped EXCEPT ![d] = chain \o HandlePairs]
      BY <2>1 DEF Chain, InHandler
    <2>4. /\ HandlePairs \in Seq(Handles) /\ HandlePairs # <<>>
          /\ callbacks'[d] = chain \o HandlePairs
      BY <1>0, <2>3, AppendedHandles, PoppedType
    <2>5. CASE chain = <<>>
      <3>1. chain \o HandlePairs = HandlePairs /\ HandlePairs[1] \in Handles
        BY <2>4, <2>5
      <3> QED BY <1>0, <2>4, <3>1
    <2>6. CASE chain # <<>>
      <3>1. chain[1] = RefreshPair \/ chain[1] \in Firsts
        <4>1. RefreshChain(call)[1] = RefreshPair
                /\ CreateChain(call)[1] = DefaultPair(<<"create", call[2]>>)
          BY ChainForms
        <4> QED BY <1>1, <2>2, <2>6, <4>1
      <3>2. 1 \in 1..Len(chain)
        BY <2>2, <2>6, ChainsAreUsers
      <3>3. (chain \o HandlePairs)[1] = chain[1]
        BY <2>2, <2>4, <3>2, ShapeReturned
      <3> QED BY <1>0, <2>4, <3>1, <3>3
    <2> QED BY <2>5, <2>6
  <1> QED BY <1>2, <1>3, <1>4 DEF NewQueue

(* Only a session pair is followed by a message.                           *)
LEMMA DispatchFollows ==
  ASSUME EngineOK, Running, Current # <<>>, Tail(Current) # <<>>, Tail(Current)[1] \in Dispatches
  PROVE  /\ Current[1] = SesPair /\ Tail(Current)[1] = Current[2]
  <1>1. /\ Current \in Seq(Pair) /\ Current[1] \in MPair /\ Fits(Current, 1)
        /\ Len(Current) \in Nat \ {0} /\ DOMAIN Current = 1..Len(Current)
    BY ShapePopped
  <1>2. Tail(Current) \in Seq(Pair) /\ Len(Tail(Current)) = Len(Current) - 1
    BY <1>1
  <1>3. Len(Current) - 1 # 0
    <2>1. \A s \in Seq(Pair) : Len(s) = 0 => s = <<>>
      OBVIOUS
    <2> QED BY <1>2, <2>1
  <1>4. 1 \in 1..(Len(Current) - 1) /\ 1 + 1 = 2 /\ 1 # Len(Current)
    BY <1>1, <1>3
  <1>5. Tail(Current)[1] = Current[2]
    BY <1>1, <1>4, TailProperties
  <1>6. \A p \in Dispatches : p \notin Handles \cup DoSends \cup Errs \cup Retries \cup Finals
                                        \cup {SesPair, ContactsPair}
    BY PairKindsDiffer, NamesDiffer DEF Names
  <1>7. CASE Current[1] \in Firsts \cup {RefreshPair, GetContactsPair} \cup Errs \cup Retries
    BY <1>1, <1>4, <1>5, <1>6, <1>7 DEF Fits
  <1>8. CASE Current[1] \in Handles \cup DoSends
    BY <1>1, <1>4, <1>5, <1>6, <1>8 DEF Fits
  <1>9. CASE Current[1] \in Dispatches \cup Finals \cup {ContactsPair}
    BY <1>1, <1>4, <1>9 DEF Fits
  <1> QED BY <1>1, <1>5, <1>7, <1>8, <1>9 DEF MPair

(* What a step of MNext does when it lets the handler of a session pair    *)
(* respond.                                                                *)
LEMMA OnlySessionCb ==
  ASSUME EngineOK, [MNext]_mvars, Responds, Current[1] = SesPair
  PROVE  SessionCb
  <1>1. /\ Running /\ Current # <<>> /\ Top.mode = "cb" /\ InHandler
        /\ stack'[Depth].mode = "cb" /\ callbacks' = Popped /\ Head(Current) = Current[1]
    <2>1. /\ Running /\ Current # <<>> /\ InHandler /\ callbacks' = Popped /\ DTypeOK
          /\ GoOn("cb", RESPONSE)
      BY DEF Responds, Respond, InHandler, EngineOK, DInv
    <2>2. SesPair # ContactsPair
      BY PairKindsDiffer
    <2>3. Depth \in DOMAIN stack /\ stack \in Seq(Frame) /\ Head(Current) = Current[1]
      BY <2>1, RunningFrames, ShapePopped DEF DTypeOK
    <2>4. stack'[Depth].mode = "cb"
      BY <2>1, <2>3 DEF GoOn
    <2> QED BY <2>1, <2>2, <2>3, <2>4 DEF Responds
  <1>2. Handler = "session_cb"
    BY <1>1, PairKindsDiffer DEF Handler
  <1>3. callbacks' # callbacks
    <2>1. callbacks'[Top.dfr] = Tail(Current) /\ callbacks[Top.dfr] = Current /\ Current \in Seq(Pair)
      BY <1>1, ShapePopped
    <2>2. Len(Tail(Current)) # Len(Current)
      BY <1>1, <2>1
    <2> QED BY <2>1, <2>2
  <1>4. \A f : ~Fault(f)
    <2>1. \A f : Fault(f) => stack'[Depth].mode = "err"
      <3>1. Depth \in DOMAIN stack /\ stack \in Seq(Frame)
        BY <1>1, RunningFrames DEF EngineOK, DInv, DTypeOK
      <3> QED BY <3>1 DEF Fault, GoOn
    <2> QED BY <1>1, <2>1
  <1>5. Handlers
    <2>1. ~Idle /\ ~Engine
      BY <1>1, <1>2, NamesDiffer, ShapePopped
      DEF Idle, Running, Engine, SkipPair, Resume, FinishInner, FinishBase, Names
    <2> QED BY <1>3, <2>1
        DEF MNext, mvars, dvars, Events, SendIm, MarkAsRead, MessageReceived, SessionCreated,
            RefreshContacts, Answers, Reply, ExpiredReply, OtherFault, Fire, RunEngine
  <1> QED
    BY <1>2, <1>4, <1>5 DEF Handlers, PassOn, Invalid, DefaultErr, RefreshWorkspaceCb, MakeCall,
       SessionCb, DispatchMessage, MessagingErr, GetContactsCb, Calling

(* Nothing comes between the response with the session and the message     *)
(* that waits for it.                                                      *)
LEMMA DispatchHeadStep ==
  ASSUME EngineOK, EachReads, TypedSessions, DispatchHead, [MNext]_mvars, Uses
  PROVE  DispatchHead'
  <1>0. /\ EngineOK' /\ Tables /\ DTypeOK /\ built' \subseteq Deferreds
        /\ \A p \in Dispatches : p \notin Firsts \cup Finals \cup Errs \cup Retries \cup DoSends
                                          \cup Handles \cup {SesPair, RefreshPair,
                                                             GetContactsPair, ContactsPair}
    BY UsesGo, UsesTables, PairKindsDiffer, NamesDiffer
    DEF EngineStep, EngineOK, DInv, DTypeOK, Names
  <1>1. ASSUME NEW e \in built', callbacks'[e] # <<>>, callbacks'[e][1] \in Dispatches
        PROVE  /\ stack' # <<>> /\ e = Top'.dfr
               /\ Top'.mode = "cb" => callbacks'[e][1].user_data[2] \in DOMAIN sessions'
    <2>1. e \in built
      BY <1>0, <1>1, NewQueueStarts DEF Tables
    <2>2. CASE callbacks'[e] = callbacks[e]
      <3>1. /\ stack # <<>> /\ e = Top.dfr /\ Running /\ Current = callbacks[e] /\ Current # <<>>
            /\ Current[1] \in Dispatches
            /\ Top.mode = "cb" => Known(callbacks[e][1].user_data[2])
        BY <1>1, <2>1, <2>2 DEF DispatchHead, Running, Current, EngineOK, DInv
      <3>2. callbacks' # Popped
        <4>1. Popped[e] = Tail(Current) /\ Current \in Seq(Pair)
          BY <3>1, ShapePopped
        <4>2. Len(Tail(Current)) # Len(Current)
          BY <3>1, <4>1
        <4> QED BY <2>2, <3>1, <4>1, <4>2
      <3>3. ~Respond /\ ~Idle /\ ~Engine
        BY <1>0, <3>1, <3>2
        DEF Respond, Idle, Running, Engine, SkipPair, Resume, FinishInner, FinishBase
      <3>4. \A f \in Faults : ~FaultsWith(f)
        BY <1>0, <3>1, <3>2 DEF FaultsWith, Fault, FaultedQueue
      <3>5. \A d, call : ~Refreshes(d, call) /\ ~MakesCall(d, call)
        BY <1>0, <3>1 DEF Refreshes, MakesCall
      <3>6. Keeps
        BY <3>3, <3>4, <3>5 DEF Uses, Responds, RunEngine, Builds, BuildsAlone, Fires, Fire
      <3>7. UNCHANGED sessions
        <4>1. ~SessionCb /\ ~DispatchMessage
          BY <3>3 DEF SessionCb, DispatchMessage
        <4>2. ~MessagingErr
          <5>1. MessagingErr => Top.mode = "err" /\ Current[1] \in Errs
            BY HandlerPairs DEF MessagingErr
          <5> QED BY <1>0, <3>1, <5>1
        <4> QED BY <3>3, <4>1, <4>2, SessionsChange
      <3>8. Top' = Top /\ stack' = stack
        BY <3>6 DEF Keeps, dvars, Top, Depth
      <3> QED BY <2>2, <3>1, <3>7, <3>8 DEF Known
    <2>3. CASE /\ e = Top.dfr /\ Running /\ Current # <<>>
               /\ callbacks'[e] = Tail(Current) /\ Current = callbacks[e]
      <3>1. Current[1] = SesPair /\ callbacks'[e][1] = Current[2]
        BY <1>1, <2>3, DispatchFollows
      <3>2. Current # Tail(Current)
        <4>1. Current \in Seq(Pair)
          BY <2>3, ShapePopped
        <4>2. Len(Tail(Current)) # Len(Current)
          BY <2>3, <4>1
        <4> QED BY <4>2
      <3>3. ASSUME NEW mode, NEW val, GoOn(mode, val)
            PROVE  stack' # <<>> /\ e = Top'.dfr /\ Top'.mode = mode
        <4>1. /\ DOMAIN stack' = DOMAIN stack
              /\ \A i \in DOMAIN stack : stack'[i].dfr = stack[i].dfr
          BY <1>0, <2>3, <3>3, GoOnSameDeferreds
        <4>2. stack' # <<>> /\ Top'.dfr = Top.dfr /\ Top' = stack'[Depth]
          BY <1>0, <2>3, <4>1, SameDepth
        <4>3. Depth \in DOMAIN stack /\ stack \in Seq(Frame)
          BY <1>0, <2>3, RunningFrames DEF DTypeOK
        <4>4. stack'[Depth].mode = mode
          BY <3>3, <4>3 DEF GoOn
        <4> QED BY <2>3, <4>2, <4>4
      <3>4. CASE Responds
        <4>1. SessionCb /\ Calling("session_cb")
          BY <3>1, <3>4, OnlySessionCb DEF SessionCb
        <4>2. SessionInResponse = callbacks'[e][1].user_data[2]
          BY <1>1, <3>1, <4>1, SessionRead
        <4>3. SessionInResponse \in DOMAIN sessions'
          BY <4>1 DEF SessionCb, Insert, Known
        <4> QED BY <3>3, <3>4, <4>2, <4>3 DEF Responds, Respond, Known
      <3>5. ASSUME NEW f \in Faults, FaultsWith(f)
            PROVE  stack' # <<>> /\ e = Top'.dfr /\ Top'.mode = "err"
        BY <3>3, <3>5 DEF FaultsWith, Fault
      <3>6. ~SkipPair /\ ~Resume
        <4>1. Handler \in Names
          BY <2>3, <3>1, PairKindsDiffer, ShapePopped DEF Handler, Names
        <4> QED BY <4>1, NamesDiffer DEF SkipPair, Resume
      <3>7. ~FinishInner /\ ~FinishBase /\ ~Idle
        BY <2>3 DEF FinishInner, FinishBase, Running, Idle
      <3>8. \A d, call : ~Refreshes(d, call) /\ ~MakesCall(d, call)
        <4>1. SesPair \notin Firsts \cup Finals \cup Retries \cup DoSends
          BY PairKindsDiffer
        <4> QED BY <3>1, <4>1 DEF Refreshes, MakesCall
      <3>9. ~Keeps
        BY <2>3, <3>2 DEF Keeps, dvars
      <3> QED BY <3>4, <3>5, <3>6, <3>7, <3>8, <3>9
              DEF Uses, RunEngine, Engine, Builds, BuildsAlone, Fires, Fire
    <2> QED BY <1>0, <2>1, <2>2, <2>3 DEF Tables
  <1> QED BY <1>1 DEF DispatchHead, Known

(* A message that a new queue holds is the one that arrives.               *)
LEMMA NewDispatches ==
  ASSUME EngineOK, TypedSessions, NEW d \in Deferreds, NewQueue(d),
         NEW k \in DOMAIN callbacks'[d], callbacks'[d][k] \in Dispatches
  PROVE  \E s \in SessionIds, m \in 1..MaxMessages :
           /\ callbacks'[d][k] = DispatchPair(s, m)
           /\ m = Len(delivered) + 1 /\ delivered' = Append(delivered, s)
  <1>0. /\ DTypeOK
        /\ \A p \in Firsts \cup Finals \cup Errs \cup Retries \cup DoSends \cup Handles
                      \cup {SesPair, RefreshPair, GetContactsPair, ContactsPair} :
             p \notin Dispatches
    BY PairKindsDiffer, NamesDiffer DEF EngineOK, DInv, Names
  <1>1. /\ \A call \in SendCalls : /\ DefaultPair(<<"create", call[2]>>) \in Firsts
                                   /\ DoSendPair(call) \in DoSends
                                   /\ ErrPair(call) \in Errs /\ DefaultPair(call) \in Finals
        /\ \A call \in Calls : RetryPair(call) \in Retries
        /\ \A s \in SessionIds : DefaultPair(<<"get", s>>) \in Firsts
    BY CallKinds DEF Firsts, Errs, Finals, DoSends, Retries
  <1>2. ASSUME NEW call \in SendCalls, NEW chain, NEW i \in DOMAIN chain,
               chain \in {CreateChain(call), SendChain(call),
                          CreateChain(call) \o SendChain(call)}
        PROVE  chain[i] \notin Dispatches
    <2>1. \/ chain = <<DefaultPair(<<"create", call[2]>>), SesPair, DoSendPair(call)>>
          \/ chain = <<ErrPair(call), DefaultPair(call)>>
          \/ chain = <<DefaultPair(<<"create", call[2]>>), SesPair, DoSendPair(call),
                       ErrPair(call), DefaultPair(call)>>
      BY <1>2, ChainForms
    <2>2. /\ DefaultPair(<<"create", call[2]>>) \notin Dispatches /\ SesPair \notin Dispatches
          /\ DoSendPair(call) \notin Dispatches /\ ErrPair(call) \notin Dispatches
          /\ DefaultPair(call) \notin Dispatches
      BY <1>0, <1>1
    <2> QED BY <2>1, <2>2
  <1>3. CASE BuildsAlone(d)
    <2>1. callbacks'[d] = <<>>
      BY <1>0, <1>3 DEF BuildsAlone, Build, DTypeOK
    <2> QED BY <2>1
  <1>4. ASSUME NEW chain \in StartChains, NEW content \in Requests, Builds(d, chain, content)
        PROVE  \E s \in SessionIds, m \in 1..MaxMessages :
                 /\ callbacks'[d][k] = DispatchPair(s, m)
                 /\ m = Len(delivered) + 1 /\ delivered' = Append(delivered, s)
    <2>1. callbacks'[d] = chain /\ Opens(chain, content)
      BY <1>0, <1>4 DEF Builds, Build, DTypeOK
    <2>2. chain # ContactsChain
      <3>1. ContactsChain = <<GetContactsPair, ContactsPair>>
        BY ChainForms
      <3> QED BY <1>0, <2>1, <3>1
    <2>3. chain # <<>>
      BY <2>1
    <2>4. PICK s \in SessionIds, m \in 1..MaxMessages :
            /\ chain = DispatchChain(s, m)
            /\ m = Len(delivered) + 1 /\ delivered' = Append(delivered, s)
      BY <1>2, <2>1, <2>2, <2>3 DEF Opens
    <2>5. chain[k] = DispatchPair(s, m)
      <3>1. chain = <<DefaultPair(<<"get", s>>), SesPair, DispatchPair(s, m)>>
        BY <2>4, ChainForms
      <3> QED BY <1>0, <1>1, <2>1, <3>1
    <2> QED BY <2>1, <2>4, <2>5
  <1>5. ASSUME NEW call \in Calls, Refreshes(d, call) \/ MakesCall(d, call)
        PROVE  FALSE
    <2>1. PICK chain, content : Chain(d, chain, TRUE) /\ Sends(d, content)
                                  /\ chain \in {RefreshChain(call), ChainOf(call)}
      BY <1>5 DEF Refreshes, MakesCall
    <2>2. /\ chain \in ReturnedChains
          /\ chain = <<>> \/ chain = RefreshChain(call)
               \/ (call \in SendCalls /\ chain = CreateChain(call))
      BY <2>1, CallRequests DEF ReturnedChains
    <2>3. Running /\ Current # <<>> /\ callbacks' = [Popped EXCEPT ![d] = chain \o HandlePairs]
      BY <2>1 DEF Chain, InHandler
    <2>4. /\ HandlePairs \in Seq(Handles) /\ HandlePairs # <<>>
          /\ callbacks'[d] = chain \o HandlePairs
      BY <1>0, <2>3, AppendedHandles, PoppedType
    <2>5. \A i \in DOMAIN chain : chain[i] \notin Dispatches
      <3>1. RefreshChain(call) = <<RefreshPair, RetryPair(call)>>
        BY ChainForms
      <3>2. \A i \in DOMAIN RefreshChain(call) : RefreshChain(call)[i] \notin Dispatches
        BY <1>0, <1>1, <3>1
      <3> QED BY <1>2, <2>2, <3>2
    <2>6. /\ Len(chain) \in Nat /\ Len(HandlePairs) \in Nat /\ DOMAIN chain = 1..Len(chain)
          /\ \A i \in 1..Len(HandlePairs) : HandlePairs[i] \in Handles
      BY <2>2, <2>4, ChainsAreUsers
    <2>7. /\ DOMAIN callbacks'[d] = 1..(Len(chain) + Len(HandlePairs))
          /\ \A i \in 1..Len(chain) : callbacks'[d][i] = chain[i]
          /\ \A i \in 1..Len(HandlePairs) : callbacks'[d][Len(chain) + i] = HandlePairs[i]
      BY <2>2, <2>4, ShapeReturned
    <2>8. CASE k \in 1..Len(chain)
      BY <1>0, <2>5, <2>6, <2>7, <2>8
    <2>9. CASE k \notin 1..Len(chain)
      <3>1. \A n, m \in Nat : \A j \in 1..(n + m) :
              j \in 1..n \/ (j - n \in 1..m /\ j = n + (j - n))
        OBVIOUS
      <3>2. k \in 1..(Len(chain) + Len(HandlePairs))
        BY <2>7
      <3>3. k - Len(chain) \in 1..Len(HandlePairs) /\ k = Len(chain) + (k - Len(chain))
        BY <2>6, <2>9, <3>1, <3>2
      <3>4. callbacks'[d][k] \in Handles
        BY <2>6, <2>7, <3>3
      <3> QED BY <1>0, <3>4
    <2> QED BY <2>8, <2>9
  <1> QED BY <1>3, <1>4, <1>5 DEF NewQueue

(* The messages of the server are only ever added to.                      *)
LEMMA DeliveredGrows ==
  ASSUME [MNext]_mvars
  PROVE  UNCHANGED delivered \/ \E s \in SessionIds : /\ MessageReceived(s)
                                                      /\ delivered' = Append(delivered, s)
  BY DEF MNext, mvars, ownvars, Events, SendIm, MarkAsRead, MessageReceived, SessionCreated,
         RefreshContacts, Answers, Reply, ExpiredReply, OtherFault, Handlers, PassOn, Invalid,
         DefaultErr, RefreshWorkspaceCb, MakeCall, GetContactsCb, RunEngine, SessionCb,
         DispatchMessage, MessagingErr

(* What was delivered keeps its place.                                     *)
LEMMA DeliveredKept ==
  ASSUME TypedMessages, [MNext]_mvars
  PROVE  /\ delivered' \in Seq(SessionIds) /\ DOMAIN delivered \subseteq DOMAIN delivered'
         /\ \A m \in DOMAIN delivered : delivered'[m] = delivered[m]
  <1>1. CASE UNCHANGED delivered
    BY <1>1 DEF TypedMessages
  <1>2. ASSUME NEW s \in SessionIds, delivered' = Append(delivered, s)
        PROVE  /\ delivered' \in Seq(SessionIds) /\ DOMAIN delivered \subseteq DOMAIN delivered'
               /\ \A m \in DOMAIN delivered : delivered'[m] = delivered[m]
    BY <1>2 DEF TypedMessages
  <1> QED BY <1>1, <1>2, DeliveredGrows

(* A message that waits is one that was delivered to the session that is   *)
(* fetched for it.                                                         *)
LEMMA DispatchDeliveredStep ==
  ASSUME EngineOK, TypedSessions, TypedMessages, DispatchDelivered, [MNext]_mvars, Uses
  PROVE  DispatchDelivered'
  <1>0. Tables /\ DTypeOK /\ built' \subseteq Deferreds
    BY UsesGo, UsesTables DEF EngineStep, EngineOK, DInv, DTypeOK
  <1>1. ASSUME NEW e \in built', NEW k \in DOMAIN callbacks'[e], callbacks'[e][k] \in Dispatches
        PROVE  LET got == callbacks'[e][k].user_data IN
                 got[3] \in DOMAIN delivered' /\ delivered'[got[3]] = got[2]
    <2>1. CASE NewQueue(e)
      <3>1. PICK s \in SessionIds, m \in 1..MaxMessages :
              /\ callbacks'[e][k] = DispatchPair(s, m)
              /\ m = Len(delivered) + 1 /\ delivered' = Append(delivered, s)
        BY <1>0, <1>1, <2>1, NewDispatches
      <3>2. callbacks'[e][k].user_data[2] = s /\ callbacks'[e][k].user_data[3] = m
        BY <3>1 DEF DispatchPair, PairOf
      <3>3. m \in DOMAIN delivered' /\ delivered'[m] = s
        BY <3>1 DEF TypedMessages
      <3> QED BY <3>2, <3>3
    <2>2. CASE e \in built
      <3>1. PICK j \in DOMAIN callbacks[e] : callbacks'[e][k] = callbacks[e][j]
        <4>1. CASE callbacks'[e] = callbacks[e]
          BY <1>1, <4>1
        <4>2. CASE /\ e = Top.dfr /\ Running /\ Current # <<>>
                   /\ callbacks'[e] = Tail(Current) /\ Current = callbacks[e]
          <5>1. Current \in Seq(Pair)
            BY <4>2, ShapePopped
          <5>2. k \in 1..(Len(Current) - 1) /\ Tail(Current)[k] = Current[k + 1]
                  /\ k + 1 \in DOMAIN Current
            BY <1>1, <4>2, <5>1, TailProperties
          <5> QED BY <4>2, <5>2
        <4> QED BY <1>0, <1>1, <2>2, <4>1, <4>2 DEF Tables
      <3>2. LET got == callbacks[e][j].user_data IN
              got[3] \in DOMAIN delivered /\ delivered[got[3]] = got[2]
        BY <1>1, <2>2, <3>1 DEF DispatchDelivered
      <3> QED BY <3>1, <3>2, DeliveredKept
    <2> QED BY <1>0, <2>1, <2>2 DEF Tables
  <1> QED BY <1>1 DEF DispatchDelivered

(* A response is always one that the message's handler can use.            *)
LEMMA DispatchNow ==
  ASSUME EngineOK, DispatchHead, DispatchDelivered, Calling("dispatch_message")
  PROVE  LET got == Head(Current).user_data IN
           /\ Known(got[2]) /\ got[2] \in SessionIds
           /\ got[3] \in 1..MaxMessages
           /\ got[3] \in DOMAIN delivered /\ delivered[got[3]] = got[2]
  <1>1. /\ Running /\ Current # <<>> /\ Head(Current) = Current[1] /\ Top.mode = "cb"
        /\ Current[1] \in Dispatches
    BY HandlerPairs DEF Names
  <1>2. Top.dfr \in built /\ Current = callbacks[Top.dfr] /\ 1 \in DOMAIN Current
    BY <1>1, ShapePopped
  <1>3. Known(Current[1].user_data[2])
    BY <1>1, <1>2 DEF DispatchHead
  <1>4. LET got == Current[1].user_data IN
          got[3] \in DOMAIN delivered /\ delivered[got[3]] = got[2]
    BY <1>1, <1>2 DEF DispatchDelivered
  <1>5. Current[1].user_data[2] \in SessionIds /\ Current[1].user_data[3] \in 1..MaxMessages
    BY <1>1 DEF Dispatches, DispatchPair, PairOf
  <1> QED BY <1>1, <1>3, <1>4, <1>5

-----------------------------------------------------------------------------
(* The table of sessions is typed.                                         *)
TableTyped == DOMAIN sessions \subseteq SessionIds /\ sessions \in [DOMAIN sessions -> Session]

(* A session that is inserted has contacts of the present list.            *)
LEMMA InsertTyped ==
  ASSUME TypedSessions, NEW s \in SessionIds, Insert(s)
  PROVE  TableTyped'
  <1>1. KnownUsers(s) \subseteq Contacts
    BY DEF TypedSessions, KnownUsers, Contacts
  <1>2. [users |-> KnownUsers(s), last |-> 0] \in Session
    BY <1>1, BoundsAssumption DEF Session
  <1>3. DOMAIN sessions \subseteq SessionIds /\ \A t \in DOMAIN sessions : sessions[t] \in Session
    BY DEF TypedSessions
  <1>4. DOMAIN sessions' = DOMAIN sessions \cup {s}
          /\ \A t \in DOMAIN sessions' : sessions'[t] \in Session
    BY <1>2, <1>3 DEF Insert
  <1>5. sessions' \in [DOMAIN sessions' -> Session]
    BY <1>4 DEF Insert
  <1> QED BY <1>3, <1>4, <1>5 DEF TableTyped

(* A message that is received is the last of its session and is shown.     *)
LEMMA ReceivedTyped ==
  ASSUME TypedSessions, TypedMessages, NEW s \in SessionIds, NEW m \in 1..MaxMessages,
         Known(s), Received(s, m), m \in DOMAIN delivered',
         DOMAIN delivered \subseteq DOMAIN delivered'
  PROVE  /\ TableTyped' /\ shown' \in Seq(DOMAIN delivered')
         /\ conversation' \in [Users -> SessionIds \cup {NULL}]
  <1>1. sessions' = [sessions EXCEPT ![s].last = m] /\ Incoming(s, m, sessions[s])
    BY DEF Received
  <1>2. TableTyped'
    <2>1. \A t \in DOMAIN sessions : sessions[t] \in Session
      BY DEF TypedSessions
    <2>2. m \in 0..MaxMessages
      OBVIOUS
    <2>3. [sessions[s] EXCEPT !.last = m] \in Session
      BY <2>1, <2>2 DEF Session, Known
    <2>4. DOMAIN sessions' = DOMAIN sessions /\ \A t \in DOMAIN sessions : sessions'[t] \in Session
      BY <1>1, <2>1, <2>3 DEF Known
    <2>5. sessions' \in [DOMAIN sessions' -> Session]
      BY <1>1, <2>4
    <2> QED BY <2>4, <2>5 DEF TableTyped, TypedSessions
  <1>3. \A q \in Seq(DOMAIN delivered) : q \in Seq(DOMAIN delivered')
    OBVIOUS
  <1>4. shown \in Seq(DOMAIN delivered')
    BY <1>3 DEF TypedMessages
  <1>5. shown' \in Seq(DOMAIN delivered')
    BY <1>1, <1>4 DEF Incoming
  <1>6. conversation' \in [Users -> SessionIds \cup {NULL}]
    BY <1>1 DEF Incoming, TypedMessages
  <1> QED BY <1>2, <1>5, <1>6

(* Contacts, sessions and messages are typed: the part of the invariant   *)
(* that is about them and not about the lists that are read.               *)
OwnTyped ==
  /\ TableTyped
  /\ session_id \in [Contacts -> SessionIds \cup {NULL}]
  /\ stale \subseteq SessionIds \cup {"workspace", "refresh"}
  /\ faults \in 0..MaxFaults
  /\ shown \in Seq(DOMAIN delivered)
  /\ conversation \in [Users -> SessionIds \cup {NULL}]
  /\ sent \subseteq Ims /\ marked \in [SessionIds -> 0..MaxMessages]
  /\ accepted \in Seq(Ims \X SessionIds)

(* What the events do to contacts, sessions and messages.                  *)
LEMMA EventsTyped ==
  ASSUME TypedSessions, TypedMessages, [MNext]_mvars, Events
  PROVE  OwnTyped'
  <1>0. OwnTyped /\ DOMAIN delivered \subseteq DOMAIN delivered'
    BY DeliveredKept DEF OwnTyped, TableTyped, TypedSessions, TypedMessages
  <1>1. ASSUME NEW u \in Users, NEW im \in Ims, SendIm(u, im)
        PROVE  OwnTyped'
    BY <1>0, <1>1 DEF SendIm, OwnTyped, TableTyped
  <1>2. ASSUME NEW u \in Users, MarkAsRead(u)
        PROVE  OwnTyped'
    <2>1. conversation[u] \in DOMAIN sessions /\ sessions[conversation[u]] \in Session
      BY <1>2 DEF MarkAsRead, Known, TypedSessions
    <2>2. sessions[conversation[u]].last \in 0..MaxMessages
      BY <2>1 DEF Session
    <2>3. marked' \in [SessionIds -> 0..MaxMessages]
      BY <1>0, <1>2, <2>2 DEF MarkAsRead, OwnTyped
    <2> QED BY <1>0, <1>2, <2>3 DEF MarkAsRead, OwnTyped, TableTyped
  <1>3. ASSUME NEW s \in SessionIds, MessageReceived(s)
        PROVE  OwnTyped'
    <2> DEFINE m == Len(delivered) + 1
    <2>1. m \in 1..MaxMessages /\ m \in DOMAIN delivered'
      BY <1>3, BoundsAssumption DEF MessageReceived, TypedMessages
    <2> HIDE DEF m
    <2>2. CASE Known(s)
      <3>1. Received(s, m)
        BY <1>3, <2>2 DEF MessageReceived, m
      <3>2. /\ TableTyped' /\ shown' \in Seq(DOMAIN delivered')
            /\ conversation' \in [Users -> SessionIds \cup {NULL}]
        BY <1>0, <2>1, <2>2, <3>1, ReceivedTyped
      <3> QED BY <1>0, <1>3, <3>2 DEF MessageReceived, OwnTyped
    <2>3. CASE ~Known(s)
      <3>1. shown' \in Seq(DOMAIN delivered')
        <4>1. \A q \in Seq(DOMAIN delivered) : q \in Seq(DOMAIN delivered')
          BY <1>0
        <4> QED BY <1>0, <1>3, <2>3, <4>1 DEF MessageReceived, OwnTyped
      <3> QED BY <1>0, <1>3, <2>3, <3>1 DEF MessageReceived, OwnTyped, TableTyped
    <2> QED BY <2>2, <2>3
  <1>4. ASSUME NEW s \in SessionIds, SessionCreated(s)
        PROVE  OwnTyped'
    <2>1. TableTyped'
      BY <1>4, InsertTyped DEF SessionCreated
    <2> QED BY <1>0, <1>4, <2>1 DEF SessionCreated, OwnTyped
  <1>5. CASE RefreshContacts
    BY <1>0, <1>5 DEF RefreshContacts, OwnTyped, TableTyped
  <1> QED BY <1>1, <1>2, <1>3, <1>4, <1>5 DEF Events

(* What the server's answers do to them.                                   *)
LEMMA AnswersTyped ==
  ASSUME TypedSessions, TypedMessages, TypedRequests, Answers
  PROVE  OwnTyped'
  <1>0. OwnTyped /\ MaxFaults \in Nat /\ faults \in 0..MaxFaults
    BY BoundsAssumption DEF OwnTyped, TableTyped, TypedSessions, TypedMessages
  <1>1. PICK d \in Deferreds : Reply(d) \/ ExpiredReply(d) \/ OtherFault(d)
    BY DEF Answers
  <1>2. request[d] \in Requests
    BY <1>1 DEF Reply, ExpiredReply, OtherFault, Fire, TypedRequests
  <1>3. Token(request[d]) \in SessionIds \cup {"workspace", "refresh"}
    <2>1. CASE request[d][1] \in {"message", "read"}
      <3>1. request[d][2] \in SessionIds
        BY <1>2, <2>1 DEF Requests
      <3> QED BY <2>1, <3>1 DEF Token
    <2>2. CASE request[d][1] \in {"create", "get", "contacts", "refresh"}
      BY <2>2 DEF Token
    <2> QED BY <1>2, <2>1, <2>2 DEF Requests
  <1>4. request[d][1] = "message" => <<request[d][3], request[d][2]>> \in Ims \X SessionIds
    BY <1>2 DEF Requests
  <1>5. Accept(d) => accepted' \in Seq(Ims \X SessionIds)
    <2>1. accepted \in Seq(Ims \X SessionIds)
      BY <1>0 DEF OwnTyped
    <2>2. CASE request[d][1] = "message"
      <3>1. PICK e \in Ims \X SessionIds : e = <<request[d][3], request[d][2]>>
        BY <1>4, <2>2
      <3>2. Append(accepted, e) \in Seq(Ims \X SessionIds)
        BY <2>1
      <3> QED BY <2>2, <3>1, <3>2 DEF Accept
    <2> QED BY <2>1, <2>2 DEF Accept
  <1>6. faults < MaxFaults => faults + 1 \in 0..MaxFaults
    BY <1>0
  <1>7. CASE Reply(d)
    BY <1>0, <1>5, <1>7 DEF Reply, OwnTyped, TableTyped
  <1>8. CASE ExpiredReply(d)
    <2>1. faults' \in 0..MaxFaults /\ stale' \subseteq SessionIds \cup {"workspace", "refresh"}
      BY <1>0, <1>3, <1>6, <1>8 DEF ExpiredReply, OwnTyped
    <2> QED BY <1>0, <1>8, <2>1 DEF ExpiredReply, OwnTyped, TableTyped
  <1>9. CASE OtherFault(d)
    <2>1. faults' \in 0..MaxFaults /\ accepted' \in Seq(Ims \X SessionIds)
      BY <1>0, <1>5, <1>6, <1>9 DEF OtherFault, OwnTyped
    <2> QED BY <1>0, <1>9, <2>1 DEF OtherFault, OwnTyped, TableTyped
  <1> QED BY <1>1, <1>7, <1>8, <1>9

(* What the handlers do to them.                                           *)
LEMMA HandlersTyped ==
  ASSUME EngineOK, EachReads, TypedSessions, TypedMessages, DispatchHead, DispatchDelivered,
         Handlers \/ RunEngine \/ UNCHANGED mvars
  PROVE  OwnTyped'
  <1>0. OwnTyped /\ MaxFaults \in Nat /\ faults \in 0..MaxFaults
    BY BoundsAssumption DEF OwnTyped, TableTyped, TypedSessions, TypedMessages
  <1>1. CASE PassOn \/ DefaultErr \/ MakeCall \/ GetContactsCb \/ RunEngine \/ UNCHANGED mvars
    BY <1>0, <1>1 DEF PassOn, DefaultErr, MakeCall, GetContactsCb, RunEngine, mvars, ownvars,
                      OwnTyped, TableTyped
  <1>2. CASE Invalid
    <2>1. faults' \in 0..MaxFaults
      BY <1>0, <1>2 DEF Invalid
    <2> QED BY <1>0, <1>2, <2>1 DEF Invalid, OwnTyped, TableTyped
  <1>3. CASE RefreshWorkspaceCb
    BY <1>0, <1>3 DEF RefreshWorkspaceCb, OwnTyped, TableTyped
  <1>4. CASE SessionCb
    <2>1. SessionInResponse \in SessionIds
      BY <1>4, SessionRead DEF SessionCb
    <2>2. TableTyped'
      BY <1>0, <1>4, <2>1, InsertTyped DEF SessionCb, OwnTyped, TableTyped
    <2>3. session_id' \in [Contacts -> SessionIds \cup {NULL}]
      BY <1>0, <1>4, <2>1 DEF SessionCb, OwnTyped
    <2> QED BY <1>0, <1>4, <2>2, <2>3 DEF SessionCb, OwnTyped
  <1>5. CASE DispatchMessage
    <2>1. PICK got : got = Head(Current).user_data
      OBVIOUS
    <2>2. /\ Known(got[2]) /\ got[2] \in SessionIds
          /\ got[3] \in 1..MaxMessages /\ got[3] \in DOMAIN delivered
          /\ Received(got[2], got[3]) /\ delivered' = delivered
      BY <1>5, <2>1, DispatchNow DEF DispatchMessage
    <2>3. /\ TableTyped' /\ shown' \in Seq(DOMAIN delivered')
          /\ conversation' \in [Users -> SessionIds \cup {NULL}]
      BY <2>2, ReceivedTyped
    <2> QED BY <1>0, <1>5, <2>3 DEF DispatchMessage, OwnTyped
  <1>6. CASE MessagingErr
    <2>1. PICK D : D \subseteq DOMAIN sessions /\ sessions' = [s \in D |-> sessions[s]]
      <3>1. CASE sessions' = sessions
        <4>1. sessions' = [s \in DOMAIN sessions |-> sessions[s]]
          BY <1>0, <3>1 DEF OwnTyped, TableTyped
        <4> QED BY <4>1
      <3> QED BY <1>6, <3>1 DEF MessagingErr
    <2>2. TableTyped'
      BY <1>0, <2>1 DEF OwnTyped, TableTyped
    <2> QED BY <1>0, <1>6, <2>2 DEF MessagingErr, OwnTyped
  <1> QED BY <1>1, <1>2, <1>3, <1>4, <1>5, <1>6 DEF Handlers

(* Requests are sent well-formed.                                          *)
LEMMA RequestsTyped ==
  ASSUME EngineOK, TypedSessions, TypedRequests, Uses
  PROVE  TypedRequests'
  <1>0. Tables /\ pending' \subseteq Deferreds /\ pending \subseteq built
    BY UsesGo, UsesTables DEF EngineStep, EngineOK, DInv, DTypeOK, PendingSound
  <1>1. ASSUME NEW d \in Deferreds, d \in pending', NewQueue(d)
        PROVE  request'[d] \in Requests
    <2>1. CASE BuildsAlone(d)
      BY <1>0, <1>1, <2>1 DEF BuildsAlone, Build, Allocate
    <2>2. ASSUME NEW chain \in StartChains, NEW content \in Requests, Builds(d, chain, content)
          PROVE  request'[d] \in Requests
      BY <2>2 DEF Builds, Sends
    <2>3. ASSUME NEW call \in Calls, Refreshes(d, call) \/ MakesCall(d, call)
          PROVE  request'[d] \in Requests
      <3>1. <<"refresh">> \in Requests /\ RequestOf(call) \in Requests
        BY CallRequests DEF Requests
      <3> QED BY <2>3, <3>1 DEF Refreshes, MakesCall, Sends
    <2> QED BY <1>1, <2>1, <2>2, <2>3 DEF NewQueue
  <1> QED BY <1>0, <1>1 DEF Tables, TypedRequests

-----------------------------------------------------------------------------
(* The inductive invariant of contacts, sessions and messages.             *)
MInv ==
  /\ EngineOK /\ BasePending /\ HandlesBelow
  /\ TypedSessions /\ TypedMessages /\ TypedRequests
  /\ ListsAwaited /\ ListsFit
  /\ EachReads
  /\ DispatchHead /\ DispatchDelivered

(* No queue, no session and no request at first.                           *)
LEMMA MInvInit == MInit => MInv
  <1> SUFFICES ASSUME MInit
               PROVE  MInv
    OBVIOUS
  <1>1. /\ DInit /\ built = {} /\ pending = {} /\ stack = <<>>
        /\ callbacks = [d \in Deferreds |-> <<>>] /\ DOMAIN stack = {}
    BY DEF MInit, DInit
  <1>2. EngineOK
    <2>1. DInv
      BY <1>1, InvInit
    <2>2. Spent
      <3>1. SpentSet({})
        BY <1>1 DEF SpentSet
      <3> QED BY <3>1 DEF Spent
    <2>3. QueuesShaped /\ ErrorsAreFaults
      BY <1>1 DEF QueuesShaped, Shape, ErrorsAreFaults
    <2> QED BY <2>1, <2>2, <2>3 DEF EngineOK
  <1>3. BasePending /\ HandlesBelow /\ TypedRequests /\ ListsAwaited /\ ListsFit
          /\ DispatchHead /\ DispatchDelivered
    BY <1>1 DEF BasePending, HandlesBelow, TypedRequests, ListsAwaited, ListsFit, DispatchHead,
                DispatchDelivered
  <1>4. TypedSessions
    <2>1. DOMAIN sessions = {} /\ sessions \in [DOMAIN sessions -> Session]
      BY DEF MInit
    <2> QED BY <2>1, BoundsAssumption DEF MInit, TypedSessions
  <1>5. TypedMessages
    <2>1. <<>> \in Seq(SessionIds) /\ <<>> \in Seq(Ims \X SessionIds)
            /\ <<>> \in Seq(DOMAIN delivered)
      OBVIOUS
    <2> QED BY <2>1, BoundsAssumption DEF MInit, TypedMessages
  <1>6. EachReads
    <2>1. PICK X \in [Deferreds -> Reqs] : X = [d \in Deferreds |-> <<>>]
      BY DEF Reqs
    <2>2. Reads(X)
      BY <1>1, <2>1 DEF Reads
    <2> QED BY <2>2 DEF EachReads
  <1> QED BY <1>2, <1>3, <1>4, <1>5, <1>6 DEF MInv

(* Every step is one of the engine's and keeps all this.                   *)
LEMMA MInvStep ==
  ASSUME MInv, [MNext]_mvars
  PROVE  MInv' /\ [DNext]_dvars
  <1> USE DEF MInv
  <1>1. Uses
    BY StepsUse
  <1>2. EngineOK' /\ [DNext]_dvars
    BY <1>1, UsesGo DEF EngineStep
  <1>3. BasePending' /\ HandlesBelow' /\ TypedRequests'
    BY <1>1, BaseStep, BelowStep, RequestsTyped
  <1>4. ListsAwaited' /\ ListsFit' /\ list' \in 1..MaxLists
    BY <1>1, ListsStep, ListsFitStep
  <1>5. EachReads'
    BY <1>1, ReadsStep
  <1>6. DispatchHead' /\ DispatchDelivered'
    BY <1>1, DispatchHeadStep, DispatchDeliveredStep
  <1>7. OwnTyped' /\ delivered' \in Seq(SessionIds)
    BY EventsTyped, AnswersTyped, HandlersTyped, DeliveredKept DEF MNext
  <1>8. TypedSessions' /\ TypedMessages'
    BY <1>4, <1>7 DEF OwnTyped, TableTyped, TypedSessions, TypedMessages
  <1> QED BY <1>2, <1>3, <1>4, <1>5, <1>6, <1>8

(* It holds for ever.                                                      *)
LEMMA MInvAlways == MSpec => []MInv
  <1>1. MInv /\ [MNext]_mvars => MInv'
    BY MInvStep
  <1> QED BY <1>1, MInvInit, PTL DEF MSpec

(* Contacts, sessions and messages run on the deferred engine: whatever    *)
(* libgaldr does is something that its user code may do, so that all that  *)
(* is proved of the engine holds of it.                                    *)
THEOREM RunsOnEngine == MSpec => DSpec
  <1>1. MInit => DInit
    BY DEF MInit
  <1>2. MInv /\ [MNext]_mvars => [DNext]_dvars
    BY MInvStep
  <1> QED BY <1>1, <1>2, MInvAlways, PTL DEF MSpec, DSpec

(* The state of an account is always typed: no session gets a last message *)
(* or a contact that there is not, and no more lists arrive than were      *)
(* asked for.                                                              *)
THEOREM MessagingTyped == MSpec => []MTypeOK
  <1>1. MInv => MTypeOK
    <2> SUFFICES ASSUME MInv
                 PROVE  MTypeOK
      OBVIOUS
    <2>1. \A s \in DOMAIN sessions : /\ s \in SessionIds /\ sessions[s].users \subseteq Contacts
                                     /\ sessions[s].last \in 0..MaxMessages
      <3>1. \A s \in DOMAIN sessions : s \in SessionIds /\ sessions[s] \in Session
        BY DEF MInv, TypedSessions
      <3> QED BY <3>1 DEF Session
    <2>2. \A i \in DOMAIN accepted : accepted[i] \in Ims \X SessionIds
      BY DEF MInv, TypedMessages
    <2> QED BY <2>1, <2>2 DEF MInv, MTypeOK, TypedSessions, TypedMessages, TypedRequests
  <1> QED BY <1>1, MInvAlways, PTL

(* The chains of refreshed and repeated calls bring every handler the      *)
(* response to its own call, whatever faults come in between.              *)
THEOREM ResponsesRightlyRead == MSpec => []HandlersReadTheirResponse
  <1>1. MInv => HandlersReadTheirResponse
    BY ReadNow DEF MInv
  <1> QED BY <1>1, MInvAlways, PTL

(* The session that libballyhoo_handler_dispatch_message uses without a    *)
(* test is in the table.                                                   *)
THEOREM SessionAlwaysFound == MSpec => []DispatchFindsSession
  <1>1. MInv => DispatchFindsSession
    BY DispatchNow DEF MInv, DispatchFindsSession
  <1> QED BY <1>1, MInvAlways, PTL

-----------------------------------------------------------------------------
Shown(m) == \E i \in DOMAIN shown : shown[i] = m
ShownApart == \A i, j \in DOMAIN shown : shown[i] = shown[j] => i = j

(* A message that waits for its session waits in one queue and has not     *)
(* been shown.                                                             *)
WaitsUnshown ==
  \A d \in built : \A k \in DOMAIN callbacks[d] :
    callbacks[d][k] \in Dispatches =>
      LET m == callbacks[d][k].user_data[3] IN
        /\ ~Shown(m)
        /\ \A e \in built : \A j \in DOMAIN callbacks[e] :
             callbacks[e][j] \in Dispatches /\ callbacks[e][j].user_data[3] = m => e = d

(* One contact of the list is in the session.                              *)
One(s) == \E u \in Users : Members[s] \cap Users = {u}

(* A session keeps the contacts of the list it was made under, and the     *)
(* messages of one that is shown are shown before they are its last.       *)
SessionsShown ==
  /\ \A s \in DOMAIN sessions : \E l \in 1..MaxLists :
       sessions[s].users = (Members[s] \cap Users) \X {l}
  /\ \A u \in Users : conversation[u] # NULL => One(conversation[u])
  /\ \A s \in DOMAIN sessions : One(s) /\ sessions[s].last > 0 => Shown(sessions[s].last)

ReadShown == \A s \in SessionIds : marked[s] > 0 => Shown(marked[s])

(* The test of libhelplightning_incoming_message_cb.                       *)
LEMMA OneContact ==
  ASSUME NEW s \in SessionIds, NEW l
  PROVE  Cardinality((Members[s] \cap Users) \X {l}) = 1 <=> One(s)
  <1> DEFINE M == Members[s] \cap Users
  <1>1. IsFiniteSet(M) /\ IsFiniteSet({l})
    <2>1. IsFiniteSet(M)
      BY BoundsAssumption, FS_Intersection
    <2> QED BY <2>1, FS_Singleton
  <1>2. IsFiniteSet(M \X {l})
    BY <1>1, FS_Product
  <1>3. Cardinality(M \X {l}) = 1 <=> \E x : M \X {l} = {x}
    BY <1>2, FS_Singleton
  <1>4. ASSUME NEW x, M \X {l} = {x}
        PROVE  One(s)
    <2>1. x \in M \X {l}
      BY <1>4
    <2>2. PICK u \in M : x = <<u, l>>
      BY <2>1
    <2>3. \A v \in M : <<v, l>> \in M \X {l}
      OBVIOUS
    <2>4. \A v \in M : <<v, l>> = <<u, l>>
      BY <1>4, <2>2, <2>3
    <2>5. M = {u}
      BY <2>2, <2>4
    <2> QED BY <2>2, <2>5 DEF One
  <1>5. ASSUME NEW u \in Users, M = {u}
        PROVE  M \X {l} = {<<u, l>>}
    BY <1>5
  <1> QED BY <1>3, <1>4, <1>5 DEF One

(* Nothing that was shown disappears.                                      *)
LEMMA ShownKept ==
  ASSUME TypedMessages, NEW m, shown' = Append(shown, m)
  PROVE  /\ \A n : Shown(n)' <=> Shown(n) \/ n = m
         /\ ~Shown(m) /\ ShownApart => ShownApart'
  <1>1. /\ Len(shown) \in Nat /\ DOMAIN shown = 1..Len(shown)
        /\ DOMAIN shown' = 1..(Len(shown) + 1) /\ shown'[Len(shown) + 1] = m
        /\ \A i \in 1..Len(shown) : shown'[i] = shown[i]
    BY DEF TypedMessages
  <1>2. /\ \A i \in 1..(Len(shown) + 1) : i \in 1..Len(shown) \/ i = Len(shown) + 1
        /\ \A i \in 1..Len(shown) : i \in 1..(Len(shown) + 1)
        /\ Len(shown) + 1 \in 1..(Len(shown) + 1)
    BY <1>1
  <1>3. \A n : Shown(n)' <=> Shown(n) \/ n = m
    <2>1. ASSUME NEW n, NEW i \in DOMAIN shown', shown'[i] = n
          PROVE  Shown(n) \/ n = m
      BY <1>1, <1>2, <2>1 DEF Shown
    <2>2. ASSUME NEW n, Shown(n) \/ n = m
          PROVE  \E i \in DOMAIN shown' : shown'[i] = n
      BY <1>1, <1>2, <2>2 DEF Shown
    <2> QED BY <2>1, <2>2 DEF Shown
  <1>4. ASSUME ~Shown(m), ShownApart, NEW i \in DOMAIN shown', NEW j \in DOMAIN shown',
               shown'[i] = shown'[j]
        PROVE  i = j
    <2>1. \A h \in 1..Len(shown) : shown'[h] # m
      BY <1>1, <1>4 DEF Shown
    <2> QED BY <1>1, <1>2, <1>4, <2>1 DEF ShownApart
  <1> QED BY <1>3, <1>4 DEF ShownApart

(* A message that is received for the first time.                          *)
LEMMA ReceivedOnce ==
  ASSUME TypedSessions, TypedMessages, SessionsShown, ReadShown, ShownApart,
         NEW s \in SessionIds, NEW m \in 1..MaxMessages, Known(s), Received(s, m), ~Shown(m),
         UNCHANGED marked
  PROVE  /\ SessionsShown' /\ ReadShown' /\ ShownApart'
         /\ \A n : Shown(n)' => Shown(n) \/ n = m
  <1>1. /\ sessions' = [sessions EXCEPT ![s].last = m] /\ Incoming(s, m, sessions[s])
        /\ \A t \in DOMAIN sessions : sessions[t] \in Session
    BY DEF Received, TypedSessions
  <1>2. /\ DOMAIN sessions' = DOMAIN sessions
        /\ \A t \in DOMAIN sessions : sessions'[t].users = sessions[t].users
        /\ sessions'[s].last = m
        /\ \A t \in DOMAIN sessions \ {s} : sessions'[t] = sessions[t]
    BY <1>1 DEF Known, Session
  <1>3. PICK l \in 1..MaxLists : sessions[s].users = (Members[s] \cap Users) \X {l}
    BY DEF SessionsShown, Known
  <1>4. Cardinality(sessions[s].users) = 1 <=> One(s)
    BY <1>3, OneContact
  <1>5. /\ \A n : Shown(n) => Shown(n)'
        /\ \A n : Shown(n)' => Shown(n) \/ n = m
        /\ ShownApart'
        /\ One(s) => Shown(m)'
    <2>1. CASE One(s)
      <3>1. shown' = Append(shown, m)
        BY <1>1, <1>4, <2>1 DEF Incoming
      <3> QED BY <3>1, ShownKept
    <2>2. CASE ~One(s)
      <3>1. shown' = shown
        BY <1>1, <1>4, <2>2 DEF Incoming
      <3> QED BY <2>2, <3>1 DEF Shown, ShownApart
    <2> QED BY <2>1, <2>2
  <1>6. \A u \in Users : conversation'[u] # NULL => One(conversation'[u])
    <2>1. CASE One(s)
      <3>1. \A u \in Users : conversation'[u] \in {s, conversation[u]}
        BY <1>1, <1>4, <2>1 DEF Incoming
      <3> QED BY <2>1, <3>1 DEF SessionsShown
    <2>2. CASE ~One(s)
      <3>1. conversation' = conversation
        BY <1>1, <1>4, <2>2 DEF Incoming
      <3> QED BY <3>1 DEF SessionsShown
    <2> QED BY <2>1, <2>2
  <1>7. \A t \in DOMAIN sessions' : \A n :
          One(t) /\ n = sessions'[t].last /\ n > 0 => \E i \in DOMAIN shown' : shown'[i] = n
    <2>1. ASSUME NEW t \in DOMAIN sessions, NEW n, One(t), n = sessions'[t].last, n > 0
          PROVE  \E i \in DOMAIN shown' : shown'[i] = n
      <3>1. CASE t = s
        BY <1>2, <1>5, <2>1, <3>1 DEF Shown
      <3>2. CASE t # s
        <4>1. n = sessions[t].last
          BY <1>2, <2>1, <3>2
        <4>2. Shown(n)
          BY <2>1, <4>1 DEF SessionsShown
        <4> QED BY <1>5, <4>2 DEF Shown
      <3> QED BY <3>1, <3>2
    <2> QED BY <1>2, <2>1
  <1>8. SessionsShown'
    <2>1. \A t \in DOMAIN sessions' : \E k \in 1..MaxLists :
            sessions'[t].users = (Members[t] \cap Users) \X {k}
      BY <1>2 DEF SessionsShown
    <2>2. \A t \in DOMAIN sessions' : One(t) /\ sessions'[t].last > 0
            => \E i \in DOMAIN shown' : shown'[i] = sessions'[t].last
      BY <1>7
    <2> QED BY <1>6, <2>1, <2>2 DEF SessionsShown, One, Shown
  <1>9. ReadShown'
    BY <1>5 DEF ReadShown, Shown
  <1> QED BY <1>5, <1>8, <1>9

(* A session that is inserted is one of the present contacts.              *)
LEMMA InsertedShown ==
  ASSUME TypedSessions, SessionsShown, NEW s \in SessionIds, Insert(s),
         UNCHANGED <<shown, conversation>>
  PROVE  SessionsShown'
  <1>1. /\ DOMAIN sessions' = DOMAIN sessions \cup {s}
        /\ sessions'[s] = [users |-> KnownUsers(s), last |-> 0]
        /\ \A t \in DOMAIN sessions \ {s} : sessions'[t] = sessions[t]
    BY DEF Insert
  <1>2. KnownUsers(s) = (Members[s] \cap Users) \X {list} /\ list \in 1..MaxLists
    BY DEF KnownUsers, TypedSessions
  <1>3. \A t \in DOMAIN sessions' : \E l \in 1..MaxLists :
          sessions'[t].users = (Members[t] \cap Users) \X {l}
    BY <1>1, <1>2 DEF SessionsShown
  <1>4. ASSUME NEW t \in DOMAIN sessions', One(t), sessions'[t].last > 0
        PROVE  \E i \in DOMAIN shown : shown[i] = sessions'[t].last
    <2>1. t # s /\ t \in DOMAIN sessions
      BY <1>1, <1>4
    <2> QED BY <1>1, <1>4, <2>1 DEF SessionsShown, Shown
  <1> QED BY <1>3, <1>4 DEF SessionsShown, One, Shown

(* What is shown of the sessions stays right when nothing is shown: they   *)
(* are inserted, removed or read.                                          *)
LEMMA SilentStep ==
  ASSUME EngineOK, EachReads, TypedSessions, TypedMessages, SessionsShown, ReadShown,
         [MNext]_mvars, UNCHANGED shown, ~DispatchMessage,
         \A s \in SessionIds : ~(MessageReceived(s) /\ Known(s))
  PROVE  SessionsShown' /\ ReadShown'
  <1>1. CASE UNCHANGED <<sessions, conversation, marked>>
    BY <1>1 DEF SessionsShown, ReadShown, One, Shown
  <1>2. ASSUME NEW u \in Users, MarkAsRead(u)
        PROVE  SessionsShown' /\ ReadShown'
    <2>1. /\ conversation[u] \in DOMAIN sessions /\ UNCHANGED <<sessions, conversation>>
          /\ One(conversation[u])
      BY <1>2 DEF MarkAsRead, Known, SessionsShown
    <2>2. SessionsShown'
      BY <2>1 DEF SessionsShown, One, Shown
    <2>3. PICK s : s = conversation[u]
      OBVIOUS
    <2>4. \/ marked' = marked
          \/ marked' = [marked EXCEPT ![s] = sessions[s].last] /\ sessions[s].last > 0
      BY <1>2, <2>3 DEF MarkAsRead
    <2>5. sessions[s].last > 0 => Shown(sessions[s].last)
      BY <2>1, <2>3 DEF SessionsShown
    <2>6. \A t \in SessionIds : marked'[t] = marked[t] \/ (marked'[t] = sessions[s].last
                                                           /\ sessions[s].last > 0)
      BY <2>4 DEF TypedMessages
    <2>7. ReadShown'
      BY <2>5, <2>6 DEF ReadShown, Shown
    <2> QED BY <2>2, <2>7
  <1>3. ASSUME NEW s \in SessionIds, Insert(s), UNCHANGED <<conversation, marked>>
        PROVE  SessionsShown' /\ ReadShown'
    BY <1>3, InsertedShown DEF ReadShown, Shown
  <1>4. ASSUME NEW D, D \subseteq DOMAIN sessions, sessions' = [s \in D |-> sessions[s]],
               UNCHANGED <<conversation, marked>>
        PROVE  SessionsShown' /\ ReadShown'
    <2>1. DOMAIN sessions' = D /\ \A s \in D : sessions'[s] = sessions[s] /\ s \in DOMAIN sessions
      BY <1>4
    <2>2. SessionsShown'
      BY <1>4, <2>1 DEF SessionsShown, One, Shown
    <2> QED BY <1>4, <2>2 DEF ReadShown, Shown
  <1>5. CASE SessionCb
    <2>1. SessionInResponse \in SessionIds
      BY <1>5, SessionRead DEF SessionCb
    <2> QED BY <1>1, <1>3, <1>5, <2>1 DEF SessionCb
  <1>6. CASE MessagingErr
    <2>1. \/ sessions' = sessions
          \/ \E D : D \subseteq DOMAIN sessions /\ sessions' = [s \in D |-> sessions[s]]
      BY <1>6 DEF MessagingErr
    <2> QED BY <1>1, <1>4, <1>6, <2>1 DEF MessagingErr
  <1>7. ASSUME NEW s \in SessionIds, MessageReceived(s) \/ SessionCreated(s)
        PROVE  SessionsShown' /\ ReadShown'
    BY <1>1, <1>3, <1>7 DEF MessageReceived, SessionCreated
  <1> QED
    BY <1>1, <1>2, <1>5, <1>6, <1>7
    DEF MNext, mvars, ownvars, Events, SendIm, RefreshContacts, Answers, Reply, ExpiredReply,
        OtherFault, Handlers, PassOn, Invalid, DefaultErr, RefreshWorkspaceCb, MakeCall,
        GetContactsCb, RunEngine

(* The actions that show a message.                                        *)
LEMMA ShowSteps ==
  ASSUME [MNext]_mvars
  PROVE  \/ UNCHANGED shown /\ ~DispatchMessage
            /\ \A s \in SessionIds : ~(MessageReceived(s) /\ Known(s))
         \/ DispatchMessage
         \/ \E s \in SessionIds : MessageReceived(s) /\ Known(s)
  BY DEF MNext, mvars, ownvars, Events, SendIm, MarkAsRead, MessageReceived, SessionCreated,
         RefreshContacts, Answers, Reply, ExpiredReply, OtherFault, Handlers, PassOn, Invalid,
         DefaultErr, RefreshWorkspaceCb, MakeCall, GetContactsCb, RunEngine, SessionCb,
         MessagingErr

(* A step allocates one deferred at most.                                  *)
LEMMA OneNew ==
  ASSUME [DNext]_dvars, NEW d \in built' \ built, NEW e \in built' \ built
  PROVE  d = e
  BY DEF DNext, dvars, Build, Fire, UserCode, Respond, Fault, Chain, Allocate, Engine, SkipPair,
         Resume, FinishInner, FinishBase, DropPending

(* A pair of a queue that was there was in it before.                      *)
LEMMA OldPair ==
  ASSUME EngineOK, Tables, NEW e \in built, e \in built', NEW k \in DOMAIN callbacks'[e]
  PROVE  \E j \in DOMAIN callbacks[e] : callbacks'[e][k] = callbacks[e][j]
  <1>1. CASE callbacks'[e] = callbacks[e]
    BY <1>1
  <1>2. CASE /\ e = Top.dfr /\ Running /\ Current # <<>>
             /\ callbacks'[e] = Tail(Current) /\ Current = callbacks[e]
    <2>1. Current \in Seq(Pair)
      BY <1>2, ShapePopped
    <2>2. k \in 1..(Len(Current) - 1) /\ Tail(Current)[k] = Current[k + 1]
            /\ k + 1 \in DOMAIN Current
      BY <1>2, <2>1, TailProperties
    <2> QED BY <1>2, <2>2
  <1> QED BY <1>1, <1>2 DEF Tables

(* The message that is dispatched waits no longer.                         *)
LEMMA DispatchedGone ==
  ASSUME EngineOK, WaitsUnshown, DispatchMessage, built' = built
  PROVE  \A e \in built : \A k \in DOMAIN callbacks'[e] :
           callbacks'[e][k] \in Dispatches
             => callbacks'[e][k].user_data[3] # Head(Current).user_data[3]
  <1>1. /\ Running /\ Current # <<>> /\ Head(Current) = Current[1] /\ Current[1] \in Dispatches
        /\ callbacks' = Popped
    BY HandlerPairs DEF DispatchMessage, Respond, Names
  <1>2. /\ Top.dfr \in built /\ Current = callbacks[Top.dfr] /\ 1 \in DOMAIN Current
        /\ Current \in Seq(Pair) /\ Fits(Current, 1) /\ Popped[Top.dfr] = Tail(Current)
        /\ built \subseteq Deferreds /\ Popped \in [Deferreds -> Seq(Pair)]
    BY <1>1, ShapePopped, PoppedType DEF EngineOK, DInv, DTypeOK
  <1>3. Tail(Current) = <<>>
    <2>1. Len(Current) = 1
      BY <1>1, <1>2 DEF Fits
    <2>2. Tail(Current) \in Seq(Pair) /\ Len(Tail(Current)) = 0
      BY <1>2, <2>1
    <2>3. \A q \in Seq(Pair) : Len(q) = 0 => q = <<>>
      OBVIOUS
    <2> QED BY <2>2, <2>3
  <1>4. ASSUME NEW e \in built, NEW k \in DOMAIN callbacks'[e], callbacks'[e][k] \in Dispatches,
               callbacks'[e][k].user_data[3] = Current[1].user_data[3]
        PROVE  FALSE
    <2>1. e # Top.dfr
      <3>1. e = Top.dfr => callbacks'[e] = <<>>
        BY <1>1, <1>2, <1>3
      <3> QED BY <1>4, <3>1
    <2>2. callbacks'[e] = callbacks[e]
      BY <1>1, <1>2, <1>4, <2>1, ShapePopped
    <2> QED BY <1>1, <1>2, <1>4, <2>1, <2>2 DEF WaitsUnshown
  <1> QED BY <1>1, <1>4

MShown == ShownApart /\ WaitsUnshown /\ SessionsShown /\ ReadShown

(* A message that still waits is not shown by this step.                   *)
LEMMA WaitsStep ==
  ASSUME EngineOK, TypedSessions, TypedMessages, DispatchDelivered, WaitsUnshown,
         [MNext]_mvars, Uses, NEW n,
         \A m : Shown(m)' => Shown(m) \/ m = n,
         \A e \in built' : \A k \in DOMAIN callbacks'[e] :
           callbacks'[e][k] \in Dispatches => callbacks'[e][k].user_data[3] # n
  PROVE  WaitsUnshown'
  <1>0. /\ Tables /\ DTypeOK /\ built' \subseteq Deferreds /\ [DNext]_dvars
        /\ Len(delivered) \in Nat /\ DOMAIN delivered = 1..Len(delivered)
        /\ Len(delivered) + 1 \notin DOMAIN delivered
    BY UsesGo, UsesTables DEF EngineStep, EngineOK, DInv, DTypeOK, TypedMessages
  <1>1. ASSUME NEW d \in built', NEW k \in DOMAIN callbacks'[d], callbacks'[d][k] \in Dispatches,
               NEW m, m = callbacks'[d][k].user_data[3]
        PROVE  \/ /\ d \in built /\ m \in DOMAIN delivered /\ ~Shown(m)
                  /\ \A e \in built : \A j \in DOMAIN callbacks[e] :
                       callbacks[e][j] \in Dispatches /\ callbacks[e][j].user_data[3] = m
                         => e = d
               \/ d \notin built /\ m = Len(delivered) + 1 /\ ~Shown(m)
    <2>1. CASE d \in built
      <3>1. PICK j \in DOMAIN callbacks[d] : callbacks'[d][k] = callbacks[d][j]
        BY <1>0, <1>1, <2>1, OldPair
      <3> QED BY <1>1, <2>1, <3>1 DEF WaitsUnshown, DispatchDelivered
    <2>2. CASE NewQueue(d)
      <3>1. PICK s \in SessionIds, i \in 1..MaxMessages :
              callbacks'[d][k] = DispatchPair(s, i) /\ i = Len(delivered) + 1
        BY <1>0, <1>1, <2>2, NewDispatches
      <3>2. m = Len(delivered) + 1
        BY <1>1, <3>1 DEF DispatchPair, PairOf
      <3>3. ~Shown(m)
        BY <1>0, <3>2 DEF Shown, TypedMessages
      <3> QED BY <1>0, <1>1, <2>2, <3>2, <3>3 DEF Tables
    <2> QED BY <1>0, <1>1, <2>1, <2>2 DEF Tables
  <1>2. ASSUME NEW d \in built', NEW k \in DOMAIN callbacks'[d], callbacks'[d][k] \in Dispatches,
               NEW e \in built', NEW j \in DOMAIN callbacks'[e], callbacks'[e][j] \in Dispatches,
               callbacks'[e][j].user_data[3] = callbacks'[d][k].user_data[3]
        PROVE  e = d
    <2>1. PICK m : m = callbacks'[d][k].user_data[3]
      OBVIOUS
    <2>2. CASE d \in built /\ e \in built
      <3>1. PICK i \in DOMAIN callbacks[e] : callbacks'[e][j] = callbacks[e][i]
        BY <1>0, <1>2, <2>2, OldPair
      <3> QED BY <1>1, <1>2, <2>1, <2>2, <3>1
    <2>3. CASE d \notin built /\ e \notin built
      BY <1>0, <1>2, <2>3, OneNew
    <2>4. CASE (d \in built) # (e \in built)
      <3>1. \/ d \in built /\ m \in DOMAIN delivered
            \/ d \notin built /\ m = Len(delivered) + 1
        BY <1>1, <1>2, <2>1
      <3>2. \/ e \in built /\ m \in DOMAIN delivered
            \/ e \notin built /\ m = Len(delivered) + 1
        BY <1>1, <1>2, <2>1
      <3> QED BY <1>0, <2>4, <3>1, <3>2
    <2> QED BY <2>2, <2>3, <2>4
  <1>3. ASSUME NEW d \in built', NEW k \in DOMAIN callbacks'[d], callbacks'[d][k] \in Dispatches
        PROVE  \A i \in DOMAIN shown' : shown'[i] # callbacks'[d][k].user_data[3]
    <2>1. PICK m : m = callbacks'[d][k].user_data[3]
      OBVIOUS
    <2>2. ~Shown(m) /\ m # n
      BY <1>1, <1>3, <2>1
    <2>3. ~Shown(m)'
      BY <2>2
    <2> QED BY <2>1, <2>3 DEF Shown
  <1> QED BY <1>2, <1>3 DEF WaitsUnshown, Shown

(* A message is shown when it arrives or when it is dispatched.            *)
LEMMA MShownStep ==
  ASSUME EngineOK, EachReads, TypedSessions, TypedMessages, DispatchHead, DispatchDelivered,
         MShown, [MNext]_mvars, Uses
  PROVE  MShown'
  <1> USE DEF MShown
  <1>1. CASE /\ UNCHANGED shown /\ ~DispatchMessage
             /\ \A s \in SessionIds : ~(MessageReceived(s) /\ Known(s))
    <2>1. SessionsShown' /\ ReadShown'
      BY <1>1, SilentStep
    <2>2. ShownApart'
      BY <1>1 DEF ShownApart
    <2>3. WaitsUnshown'
      <3>1. \A m : Shown(m)' => Shown(m)
        BY <1>1 DEF Shown
      <3>2. PICK n : n \notin Nat
        OBVIOUS
      <3>3. \A e \in built' : \A k \in DOMAIN callbacks'[e] :
              callbacks'[e][k] \in Dispatches => callbacks'[e][k].user_data[3] # n
        BY <3>2, BoundsAssumption DEF Dispatches, DispatchPair, PairOf
      <3> QED BY <3>1, <3>3, WaitsStep
    <2> QED BY <2>1, <2>2, <2>3
  <1>2. ASSUME NEW s \in SessionIds, MessageReceived(s), Known(s)
        PROVE  MShown'
    <2>1. PICK m : m = Len(delivered) + 1
      OBVIOUS
    <2>2. /\ Received(s, m) /\ UNCHANGED <<dvars, marked>> /\ m \in 1..MaxMessages
          /\ m \notin DOMAIN delivered
      BY <1>2, <2>1, BoundsAssumption DEF MessageReceived, TypedMessages
    <2>3. ~Shown(m)
      BY <2>2 DEF Shown, TypedMessages
    <2>4. /\ SessionsShown' /\ ReadShown' /\ ShownApart'
          /\ \A n : Shown(n)' => Shown(n) \/ n = m
      BY <1>2, <2>2, <2>3, ReceivedOnce
    <2>5. \A e \in built' : \A k \in DOMAIN callbacks'[e] :
            callbacks'[e][k] \in Dispatches => callbacks'[e][k].user_data[3] # m
      BY <2>2 DEF DispatchDelivered, dvars
    <2> QED BY <2>4, <2>5, WaitsStep
  <1>3. CASE DispatchMessage
    <2>1. PICK got : got = Head(Current).user_data
      OBVIOUS
    <2>2. /\ Known(got[2]) /\ got[2] \in SessionIds /\ got[3] \in 1..MaxMessages
          /\ Received(got[2], got[3]) /\ UNCHANGED <<built, marked>>
      BY <1>3, <2>1, DispatchNow DEF DispatchMessage, Respond
    <2>3. ~Shown(got[3])
      <3>1. Running /\ Current # <<>> /\ Head(Current) = Current[1] /\ Current[1] \in Dispatches
        BY <1>3, HandlerPairs DEF DispatchMessage, Names
      <3>2. Top.dfr \in built /\ Current = callbacks[Top.dfr] /\ 1 \in DOMAIN Current
        BY <3>1, ShapePopped
      <3> QED BY <2>1, <3>1, <3>2 DEF WaitsUnshown
    <2>4. /\ SessionsShown' /\ ReadShown' /\ ShownApart'
          /\ \A n : Shown(n)' => Shown(n) \/ n = got[3]
      BY <2>2, <2>3, ReceivedOnce
    <2>5. \A e \in built' : \A k \in DOMAIN callbacks'[e] :
            callbacks'[e][k] \in Dispatches => callbacks'[e][k].user_data[3] # got[3]
      BY <1>3, <2>1, <2>2, DispatchedGone
    <2> QED BY <2>4, <2>5, WaitsStep
  <1> QED BY <1>1, <1>2, <1>3, ShowSteps

(* No message of the server is shown twice, though it may wait for its     *)
(* session while others arrive, and none is reported as read that was not  *)
(* shown.                                                                  *)
THEOREM MessagesShownOnce == MSpec => []ShownOnceBeforeRead
  <1>1. MInit => MShown
    <2> SUFFICES ASSUME MInit
                 PROVE  MShown
      OBVIOUS
    <2>1. /\ built = {} /\ shown = <<>> /\ DOMAIN sessions = {} /\ DOMAIN shown = {}
          /\ \A u \in Users : conversation[u] = NULL
          /\ \A s \in SessionIds : marked[s] = 0
      BY DEF MInit, DInit
    <2> QED BY <2>1 DEF MShown, ShownApart, WaitsUnshown, SessionsShown, ReadShown
  <1>2. MInv /\ MShown /\ [MNext]_mvars => MShown'
    BY MShownStep, StepsUse DEF MInv
  <1>3. MShown => ShownOnceBeforeRead
    BY DEF MShown, ShownApart, ReadShown, Shown, ShownOnceBeforeRead
  <1> QED BY <1>1, <1>2, <1>3, MInvAlways, PTL DEF MSpec

-----------------------------------------------------------------------------
(* A message of the user is sent by one pair of a queue, or is one request *)
(* in flight: its sender.  The default pair of libgaldr_send_im_to, which  *)
(* would repeat it after a fault 1003, comes only after the sender.        *)
SendsOn(p, im) == \E c \in SendCalls : c[4] = im /\ p \in {DoSendPair(c), RetryPair(c)}
EndsOn(p, im) == \E c \in SendCalls : c[4] = im /\ p = DefaultPair(c)

Waiting(d) == d \in pending /\ ~(stack # <<>> /\ d = Base)

(* The sender is the k-th pair of d, or, for k = 0, its request.           *)
SendsAt(im, d, k) ==
  \/ k = 0 /\ Waiting(d) /\ request[d][1] = "message" /\ request[d][3] = im
  \/ d \in built /\ k \in DOMAIN callbacks[d] /\ SendsOn(callbacks[d][k], im)
EndsAt(im, e, k) ==
  e \in built /\ k \in DOMAIN callbacks[e] /\ EndsOn(callbacks[e][k], im)

(* What follows in the i-th deferred of p, from its k-th pair on, leads to *)
(* the default pair: that is in the first, and the others resume the one   *)
(* before them.                                                            *)
Leads(im, p, i, k) ==
  /\ p[i] \in built /\ k \in DOMAIN callbacks[p[i]]
  /\ IF i = 1 THEN \/ EndsAt(im, p[1], k)
                   \/ callbacks[p[1]][k] \in Errs /\ EndsAt(im, p[1], k + 1)
     ELSE callbacks[p[i]][k] = HandlePair(p[i - 1])

Way(im, p, d, k) ==
  /\ p \in Seq(Deferreds) /\ p # <<>> /\ p[Len(p)] = d
  /\ \A i \in 1..Len(p) : Leads(im, p, i, IF i = Len(p) THEN k ELSE 1)

Ended(im) == ~\E e \in Deferreds, k \in Nat : EndsAt(im, e, k)
Accepted(im) == \E i \in DOMAIN accepted : accepted[i][1] = im

OneSender(im) ==
  \A d, e \in Deferreds : \A j, k \in Nat :
    SendsAt(im, d, j) /\ SendsAt(im, e, k) => d = e /\ j = k
OneEnd(im) ==
  \A d, e \in Deferreds : \A j, k \in Nat :
    EndsAt(im, d, j) /\ EndsAt(im, e, k) => d = e /\ j = k
EndAfterSender(im) ==
  \A d \in Deferreds : \A k \in Nat :
    SendsAt(im, d, k) => Ended(im) \/ \E p \in Seq(Deferreds) : Way(im, p, d, k + 1)

(* Once it is accepted there is no sender, and the event that has brought  *)
(* the answer takes it to the default pair, unless that is over.           *)
Takes(im) ==
  /\ Running
  /\ Top.mode = "err" => Top.val = "other"
  /\ \E p \in Seq(Deferreds) : Way(im, p, Top.dfr, 1)
AcceptedEnds(im) ==
  Accepted(im) =>
    /\ \A d \in Deferreds : \A k \in Nat : ~SendsAt(im, d, k)
    /\ Ended(im) \/ Takes(im)
UnsentAbsent(im) ==
  im \notin sent =>
    /\ \A d \in Deferreds : \A k \in Nat : ~SendsAt(im, d, k)
    /\ Ended(im) /\ ~Accepted(im)

Once(im) ==
  OneSender(im) /\ OneEnd(im) /\ EndAfterSender(im) /\ AcceptedEnds(im) /\ UnsentAbsent(im)

(* How many pairs of e a step takes away.                                  *)
Shift(e) == IF callbacks'[e] = callbacks[e] THEN 0 ELSE 1

(* A step takes a pair away from the innermost activation, or from none.   *)
LEMMA QueueMoves ==
  ASSUME EngineOK, EngineOK', Tables, NEW e \in built, e \in built'
  PROVE  /\ Shift(e) \in {0, 1}
         /\ Shift(e) = 1 => e = Top.dfr /\ Running /\ Current # <<>>
         /\ \A k \in Nat \ {0} :
              /\ k \in DOMAIN callbacks'[e] <=> k + Shift(e) \in DOMAIN callbacks[e]
              /\ k \in DOMAIN callbacks'[e] => callbacks'[e][k] = callbacks[e][k + Shift(e)]
  <1>0. e \in Deferreds /\ callbacks[e] \in Seq(Pair)
    BY DEF EngineOK, DInv, DTypeOK
  <1>1. CASE callbacks'[e] = callbacks[e]
    <2>1. \A k \in Nat : k + 0 = k
      OBVIOUS
    <2> QED BY <1>1, <2>1 DEF Shift
  <1>2. CASE callbacks'[e] # callbacks[e]
    <2>1. /\ e = Top.dfr /\ Running /\ Current # <<>>
          /\ callbacks'[e] = Tail(Current) /\ Current = callbacks[e] /\ Current \in Seq(Pair)
      BY <1>0, <1>2 DEF Tables
    <2>2. /\ Len(Current) \in Nat \ {0} /\ DOMAIN Current = 1..Len(Current)
          /\ DOMAIN Tail(Current) = 1..(Len(Current) - 1)
          /\ \A i \in 1..(Len(Current) - 1) : Tail(Current)[i] = Current[i + 1]
      BY <2>1, TailProperties
    <2>3. \A n \in Nat \ {0} : \A k \in Nat \ {0} : k \in 1..(n - 1) <=> k + 1 \in 1..n
      OBVIOUS
    <2> QED BY <1>2, <2>1, <2>2, <2>3 DEF Shift
  <1> QED BY <1>1, <1>2

(* Default pairs move with their queues.                                   *)
LEMMA EndsMove ==
  ASSUME EngineOK, EngineOK', Tables, NEW e \in built, e \in built', NEW im,
         NEW k \in Nat \ {0}
  PROVE  EndsAt(im, e, k)' <=> EndsAt(im, e, k + Shift(e))
  <1>1. /\ k \in DOMAIN callbacks'[e] <=> k + Shift(e) \in DOMAIN callbacks[e]
        /\ k \in DOMAIN callbacks'[e] => callbacks'[e][k] = callbacks[e][k + Shift(e)]
    BY QueueMoves
  <1> QED BY <1>1 DEF EndsAt, EndsOn

(* So does what leads to one.                                              *)
LEMMA LeadsMove ==
  ASSUME EngineOK, EngineOK', Tables, NEW im, NEW p, NEW i \in Nat, NEW k \in Nat \ {0},
         p[i] \in built', Leads(im, p, i, k + Shift(p[i]))
  PROVE  Leads(im, p, i, k)'
  <1>0. p[i] \in built
    BY DEF Leads
  <1>1. /\ k \in DOMAIN callbacks'[p[i]] <=> k + Shift(p[i]) \in DOMAIN callbacks[p[i]]
        /\ k \in DOMAIN callbacks'[p[i]]
             => callbacks'[p[i]][k] = callbacks[p[i]][k + Shift(p[i])]
        /\ Shift(p[i]) \in {0, 1}
    BY <1>0, QueueMoves
  <1>2. CASE i = 1
    <2>1. \A s \in {0, 1} : (k + s) + 1 = (k + 1) + s /\ k + 1 \in Nat \ {0}
      OBVIOUS
    <2>2. /\ EndsAt(im, p[1], k)' <=> EndsAt(im, p[1], k + Shift(p[1]))
          /\ EndsAt(im, p[1], k + 1)' <=> EndsAt(im, p[1], (k + 1) + Shift(p[1]))
      BY <1>0, <1>2, <2>1, EndsMove
    <2>3. (k + Shift(p[1])) + 1 = (k + 1) + Shift(p[1])
      BY <1>1, <1>2, <2>1
    <2> QED BY <1>1, <1>2, <2>2, <2>3 DEF Leads
  <1>3. CASE i # 1
    BY <1>1, <1>3 DEF Leads
  <1> QED BY <1>2, <1>3

(* Only the request of the event leaves the allocated deferreds.           *)
LEMMA BuiltKept ==
  ASSUME [DNext]_dvars, NEW e \in built
  PROVE  e \in built' \/ (Running /\ Current = <<>> /\ e = Base)
  BY DEF DNext, dvars, Build, Fire, UserCode, Respond, Fault, Chain, Allocate, Engine, SkipPair,
         Resume, FinishInner, FinishBase, DropPending

(* A request that has been answered does not wait again.                   *)
LEMMA WaitingKept ==
  ASSUME EngineOK, EngineOK', [DNext]_dvars, NEW d \in pending, Waiting(d)'
  PROVE  Waiting(d)
  <1>0. DTypeOK /\ stack \in Seq(Frame) /\ d \in pending' /\ pending \subseteq built
    BY DEF Waiting, EngineOK, DInv, DTypeOK, PendingSound
  <1>1. SUFFICES ASSUME stack # <<>>, d = Base
                 PROVE  FALSE
    BY DEF Waiting
  <1>2. Running
    BY <1>1 DEF Running, EngineOK, DInv
  <1>3. 1 \in DOMAIN stack /\ Depth \in Nat \ {0} /\ DOMAIN stack = 1..Depth
    BY <1>0, <1>2, RunningFrames
  <1>4. stack' = <<>> \/ stack'[1].dfr # d
    BY DEF Waiting, Base
  <1>5. ~UNCHANGED stack
    BY <1>1, <1>4 DEF Base
  <1>6. ASSUME NEW mode, NEW val, GoOn(mode, val)
        PROVE  FALSE
    <2>1. stack'[1].dfr = stack[1].dfr /\ DOMAIN stack' = DOMAIN stack
      BY <1>0, <1>2, <1>3, <1>6, GoOnSameDeferreds
    <2>2. stack' # <<>>
      BY <1>3, <2>1
    <2> QED BY <1>1, <1>4, <2>1, <2>2 DEF Base
  <1>7. ~Resume
    <2>1. ASSUME NEW f, stack' = Append(stack, f)
          PROVE  FALSE
      <3>1. stack' # <<>> /\ stack'[1] = stack[1]
        BY <1>0, <1>3, <2>1 DEF Depth
      <3> QED BY <1>1, <1>4, <3>1 DEF Base
    <2> QED BY <1>5, <2>1 DEF Resume, Enter
  <1>8. ~FinishInner
    <2>1. ASSUME FinishInner
          PROVE  FALSE
      <3>1. /\ 1 \in 1..(Depth - 1) /\ DOMAIN stack' = 1..(Depth - 1)
            /\ stack'[1].dfr = stack[1].dfr
        BY <1>3, <2>1 DEF FinishInner
      <3>2. stack' # <<>>
        <4>1. DOMAIN <<>> = {}
          OBVIOUS
        <4> QED BY <3>1, <4>1
      <3> QED BY <1>1, <1>4, <3>1, <3>2 DEF Base
    <2> QED BY <2>1
  <1>9. ~FinishBase /\ ~DropPending
    BY <1>0, <1>1 DEF FinishBase, DropPending, Answered
  <1>10. \A e, chain, registered : ~Chain(e, chain, registered)
    <2>1. \A e, chain, registered : Chain(e, chain, registered) => d = e /\ e \notin built
      BY <1>0, <1>1 DEF Chain, Allocate, Answered
    <2> QED BY <1>0, <2>1
  <1>11. ~Respond /\ \A f : ~Fault(f)
    BY <1>6 DEF Respond, Fault
  <1> QED BY <1>1, <1>5, <1>7, <1>8, <1>9, <1>10, <1>11
          DEF DNext, dvars, Build, Fire, Idle, UserCode, Engine, SkipPair

(* The deferreds before the last of a way are suspended: a step leaves     *)
(* what leads on in them alone.                                            *)
LEMMA WayBelow ==
  ASSUME EngineOK, EngineOK', [DNext]_dvars, Tables, NEW im, NEW p, NEW d, NEW n,
         Way(im, p, d, n)
  PROVE  \A i \in 1..Len(p) : i # Len(p) => /\ Leads(im, p, i, 1)'
                                            /\ p[i] \in built /\ ~OnStack(p[i])
  <1>0. \A m \in Nat \ {0} : \A i \in 1..m :
          /\ i \in Nat
          /\ i # m => i + 1 \in 1..m /\ i + 1 # 1 /\ (i + 1) - 1 = i
    OBVIOUS
  <1>1. Len(p) \in Nat \ {0} /\ DOMAIN p = 1..Len(p)
    BY DEF Way
  <1> SUFFICES ASSUME NEW i \in 1..Len(p), i # Len(p)
               PROVE  Leads(im, p, i, 1)' /\ p[i] \in built /\ ~OnStack(p[i])
    OBVIOUS
  <1>2. /\ i + 1 \in 1..Len(p) /\ i + 1 # 1 /\ (i + 1) - 1 = i
        /\ i \in Nat /\ p[i] \in Deferreds
    <2>1. \A j \in DOMAIN p : p[j] \in Deferreds
      BY DEF Way
    <2> QED BY <1>0, <1>1, <2>1
  <1>3. Leads(im, p, i, 1)
    BY DEF Way
  <1>4. PICK k : Leads(im, p, i + 1, k)
    BY <1>2 DEF Way
  <1>5. /\ p[i + 1] \in built /\ k \in DOMAIN callbacks[p[i + 1]]
        /\ callbacks[p[i + 1]][k] = HandlePair(p[i]) /\ p[i] \in Deferreds
    BY <1>2, <1>4 DEF Leads
  <1>6. p[i] \in built /\ ~OnStack(p[i])
    BY <1>5, WaitersApart
  <1>7. Running => p[i] # Base /\ p[i] # Top.dfr
    <2>1. Running => 1 \in DOMAIN stack /\ Depth \in DOMAIN stack
      BY RunningFrames DEF EngineOK, DInv
    <2> QED BY <1>6, <2>1 DEF OnStack, Base, Top
  <1>8. p[i] \in built'
    BY <1>6, <1>7, BuiltKept
  <1>9. Shift(p[i]) = 0
    BY <1>6, <1>7, <1>8, QueueMoves
  <1>10. 1 + 0 = 1 /\ 1 \in Nat \ {0}
    OBVIOUS
  <1>11. Leads(im, p, i, 1 + Shift(p[i]))
    BY <1>3, <1>9, <1>10
  <1> QED BY <1>6, <1>8, <1>2, <1>10, <1>11, LeadsMove

(* A way to the default pair stays while the step runs no more than its    *)
(* last deferred.                                                          *)
LEMMA WayKept ==
  ASSUME EngineOK, EngineOK', [DNext]_dvars, Tables, NEW im, NEW p, NEW d, d \in built',
         NEW k \in Nat \ {0}, Way(im, p, d, k + Shift(d))
  PROVE  Way(im, p, d, k)'
  <1>1. /\ Len(p) \in Nat \ {0} /\ p[Len(p)] = d /\ p \in Seq(Deferreds) /\ p # <<>>
        /\ Len(p) \in 1..Len(p)
    BY DEF Way
  <1>2. Leads(im, p, Len(p), k + Shift(p[Len(p)])) /\ p[Len(p)] \in built' /\ Len(p) \in Nat
    BY <1>1 DEF Way
  <1>3. Leads(im, p, Len(p), k)'
    BY <1>2, LeadsMove
  <1>4. \A i \in 1..Len(p) : i # Len(p) => Leads(im, p, i, 1)'
    BY WayBelow
  <1>5. \A i \in 1..Len(p) : Leads(im, p, i, IF i = Len(p) THEN k ELSE 1)'
    BY <1>3, <1>4
  <1> QED BY <1>1, <1>5 DEF Way

(* The sender of an old deferred was there before the step.                *)
LEMMA SenderWas ==
  ASSUME EngineOK, EngineOK', [DNext]_dvars, Tables, NEW im, NEW d \in built, NEW k \in Nat,
         SendsAt(im, d, k)'
  PROVE  /\ k = 0 => SendsAt(im, d, 0)
         /\ k # 0 => d \in built' /\ SendsAt(im, d, k + Shift(d))
  <1>0. 0 \notin DOMAIN callbacks'[d] /\ pending' \subseteq built'
    BY DEF EngineOK, DInv, DTypeOK, PendingSound
  <1>1. CASE k = 0
    <2>1. Waiting(d)' /\ request'[d][1] = "message" /\ request'[d][3] = im /\ d \in pending'
      BY <1>0, <1>1 DEF SendsAt, Waiting
    <2>2. d \in pending /\ request'[d] = request[d]
      BY <2>1 DEF Tables, EngineOK, DInv, DTypeOK
    <2>3. Waiting(d)
      BY <2>1, <2>2, WaitingKept
    <2> QED BY <1>1, <2>1, <2>2, <2>3 DEF SendsAt
  <1>2. CASE k # 0
    <2>1. d \in built' /\ k \in DOMAIN callbacks'[d] /\ SendsOn(callbacks'[d][k], im)
      BY <1>2 DEF SendsAt, SendsOn
    <2>2. k + Shift(d) \in DOMAIN callbacks[d] /\ callbacks'[d][k] = callbacks[d][k + Shift(d)]
      BY <1>2, <2>1, QueueMoves
    <2> QED BY <1>2, <2>1, <2>2 DEF SendsAt
  <1> QED BY <1>1, <1>2

(* A step allocates no sender of the message, or no default pair of it.    *)
NoNewSender(im) == \A d \in built' \ built : \A k \in Nat : ~SendsAt(im, d, k)'
NoNewEnd(im) == \A d \in built' \ built : \A k \in Nat : ~EndsAt(im, d, k)'

(* The default pair of an old deferred was there before the step.          *)
LEMMA EndWas ==
  ASSUME EngineOK, EngineOK', Tables, NEW im, NEW d \in built, NEW k \in Nat,
         EndsAt(im, d, k)'
  PROVE  k # 0 /\ d \in built' /\ EndsAt(im, d, k + Shift(d))
  <1>1. k # 0 /\ d \in built'
    BY DEF EndsAt, EngineOK, DInv, DTypeOK
  <1> QED BY <1>1, EndsMove

(* One place of an old queue, or one request, comes of one before.         *)
LEMMA OneOld ==
  ASSUME EngineOK, EngineOK', Tables, NEW e \in built, e \in built', NEW j \in Nat, NEW k \in Nat,
         j + Shift(e) = k + Shift(e)
  PROVE  j = k
  <1>1. Shift(e) \in {0, 1}
    BY QueueMoves
  <1>2. \A s \in {0, 1} : j + s = k + s => j = k
    OBVIOUS
  <1> QED BY <1>1, <1>2

(* A step that allocates no default pair of the message keeps the one.     *)
LEMMA EndOld ==
  ASSUME EngineOK, EngineOK', Tables, NEW im, NoNewEnd(im)
  PROVE  /\ \A d \in Deferreds : \A k \in Nat :
              EndsAt(im, d, k)' => /\ k # 0 /\ d \in built /\ d \in built'
                                   /\ EndsAt(im, d, k + Shift(d)) /\ k + Shift(d) \in Nat
         /\ OneEnd(im) => OneEnd(im)'
         /\ Ended(im) => Ended(im)'
  <1>1. \A d \in Deferreds : \A k \in Nat : EndsAt(im, d, k)' => d \in built' /\ d \in built
    BY DEF EndsAt, NoNewEnd
  <1>2. \A d \in Deferreds : \A k \in Nat :
          EndsAt(im, d, k)' => /\ k # 0 /\ d \in built /\ d \in built'
                               /\ EndsAt(im, d, k + Shift(d)) /\ k + Shift(d) \in Nat
    <2>1. \A s \in {0, 1}, k \in Nat : k + s \in Nat
      OBVIOUS
    <2> QED BY <1>1, <2>1, EndWas, QueueMoves
  <1>3. ASSUME OneEnd(im), NEW d \in Deferreds, NEW e \in Deferreds, NEW j \in Nat, NEW k \in Nat,
               EndsAt(im, d, j)', EndsAt(im, e, k)'
        PROVE  d = e /\ j = k
    <2>1. /\ d \in built /\ e \in built /\ d \in built' /\ e \in built'
          /\ EndsAt(im, d, j + Shift(d)) /\ EndsAt(im, e, k + Shift(e))
          /\ j + Shift(d) \in Nat /\ k + Shift(e) \in Nat
      BY <1>2, <1>3
    <2>2. d = e /\ j + Shift(d) = k + Shift(e)
      BY <1>3, <2>1 DEF OneEnd
    <2> QED BY <2>1, <2>2, OneOld
  <1>4. OneEnd(im) => OneEnd(im)'
    BY <1>3 DEF OneEnd
  <1>5. Ended(im) => Ended(im)'
    BY <1>2 DEF Ended
  <1> QED BY <1>2, <1>4, <1>5

(* A step that allocates no sender either keeps the sender before its      *)
(* default pair.                                                           *)
LEMMA OnceOld ==
  ASSUME EngineOK, EngineOK', [DNext]_dvars, Tables, NEW im, NoNewSender(im), NoNewEnd(im),
         OneSender(im), EndAfterSender(im)
  PROVE  /\ OneSender(im)' /\ EndAfterSender(im)'
         /\ \A d \in Deferreds : \A k \in Nat :
              SendsAt(im, d, k)' => \E j \in Nat : SendsAt(im, d, j)
  <1>0. \A d \in Deferreds : \A k \in Nat : SendsAt(im, d, k)' => d \in built'
    BY DEF SendsAt, Waiting, EngineOK, DInv, PendingSound
  <1>1. \A d \in Deferreds : \A k \in Nat : SendsAt(im, d, k)' => d \in built
    BY <1>0 DEF NoNewSender
  <1>2. \A d \in built : \A k \in Nat : d \in built' => k + Shift(d) \in Nat /\ (k # 0 => k + Shift(d) # 0)
    <2>1. \A s \in {0, 1}, k \in Nat : k + s \in Nat /\ (k # 0 => k + s # 0)
      OBVIOUS
    <2> QED BY <2>1, QueueMoves
  <1>3. ASSUME NEW d \in Deferreds, NEW e \in Deferreds, NEW j \in Nat, NEW k \in Nat,
               SendsAt(im, d, j)', SendsAt(im, e, k)'
        PROVE  d = e /\ j = k
    <2>1. d \in built /\ e \in built /\ d \in built' /\ e \in built'
      BY <1>0, <1>1, <1>3
    <2>2. /\ j = 0 => SendsAt(im, d, 0)
          /\ j # 0 => SendsAt(im, d, j + Shift(d))
          /\ k = 0 => SendsAt(im, e, 0)
          /\ k # 0 => SendsAt(im, e, k + Shift(e))
      BY <1>3, <2>1, SenderWas
    <2>3. /\ j + Shift(d) \in Nat /\ (j # 0 => j + Shift(d) # 0)
          /\ k + Shift(e) \in Nat /\ (k # 0 => k + Shift(e) # 0) /\ 0 \in Nat
      BY <1>2, <2>1
    <2>4. d = e
      BY <2>2, <2>3 DEF OneSender
    <2>5. CASE j = 0 \/ k = 0
      BY <2>2, <2>3, <2>5 DEF OneSender
    <2>6. CASE j # 0 /\ k # 0
      <3>1. j + Shift(d) = k + Shift(e)
        BY <2>2, <2>3, <2>6 DEF OneSender
      <3> QED BY <2>1, <2>4, <3>1, OneOld
    <2> QED BY <2>4, <2>5, <2>6
  <1>5. Ended(im) => Ended(im)'
    BY EndOld
  <1>6. ASSUME NEW d \in Deferreds, NEW k \in Nat, SendsAt(im, d, k)'
        PROVE  Ended(im)' \/ \E p \in Seq(Deferreds) : Way(im, p, d, k + 1)'
    <2>1. d \in built /\ d \in built'
      BY <1>0, <1>1, <1>6
    <2>2. CASE k # 0
      <3>1. SendsAt(im, d, k + Shift(d)) /\ k + Shift(d) \in Nat
        BY <1>2, <1>6, <2>1, <2>2, SenderWas
      <3>2. CASE Ended(im)
        BY <1>5, <3>2
      <3>3. ASSUME NEW p \in Seq(Deferreds), Way(im, p, d, (k + Shift(d)) + 1)
            PROVE  Way(im, p, d, k + 1)'
        <4>1. k + 1 \in Nat \ {0} /\ \A s \in {0, 1} : (k + s) + 1 = (k + 1) + s
          OBVIOUS
        <4>2. (k + Shift(d)) + 1 = (k + 1) + Shift(d)
          BY <2>1, <4>1, QueueMoves
        <4> QED BY <2>1, <3>3, <4>1, <4>2, WayKept
      <3> QED BY <3>1, <3>2, <3>3 DEF EndAfterSender
    <2>3. CASE k = 0
      <3>1. SendsAt(im, d, 0) /\ Waiting(d)
        <4>1. 0 \notin DOMAIN callbacks[d]
          BY <2>1 DEF EngineOK, DInv, DTypeOK
        <4>2. SendsAt(im, d, 0)
          BY <1>6, <2>1, <2>3, SenderWas
        <4> QED BY <4>1, <4>2 DEF SendsAt
      <3>2. Shift(d) = 0
        <4>1. Running => ~OnStack(d)
          <5>1. d \notin is_firing \/ ~Running
            BY <3>1 DEF Waiting, EngineOK, DInv, PendingSound, Running
          <5> QED BY <5>1 DEF OnStack, EngineOK, DInv, StackSound
        <4>2. Running => d # Top.dfr
          <5>1. Running => Depth \in DOMAIN stack
            BY RunningFrames DEF EngineOK, DInv
          <5> QED BY <4>1, <5>1 DEF OnStack, Top
        <4> QED BY <2>1, <4>2, QueueMoves
      <3>3. CASE Ended(im)
        BY <1>5, <3>3
      <3>4. ASSUME NEW p \in Seq(Deferreds), Way(im, p, d, 0 + 1)
            PROVE  Way(im, p, d, 0 + 1)'
        <4>1. 0 + 1 \in Nat \ {0} /\ (0 + 1) + 0 = 0 + 1
          OBVIOUS
        <4> QED BY <2>1, <3>2, <3>4, <4>1, WayKept
      <3> QED BY <2>3, <3>1, <3>3, <3>4 DEF EndAfterSender
    <2> QED BY <2>2, <2>3
  <1>7. \A d \in Deferreds : \A k \in Nat :
          SendsAt(im, d, k)' => \E j \in Nat : SendsAt(im, d, j)
    BY <1>0, <1>1, <1>2, SenderWas
  <1>8. OneSender(im)' /\ EndAfterSender(im)'
    BY <1>3, <1>6 DEF OneSender, EndAfterSender
  <1> QED BY <1>7, <1>8

(* Which pairs send a message, and which would repeat it.                  *)
LEMMA PairsSend ==
  ASSUME NEW im
  PROVE  /\ \A c : /\ SendsOn(DoSendPair(c), im) <=> c \in SendCalls /\ c[4] = im
                   /\ SendsOn(RetryPair(c), im) <=> c \in SendCalls /\ c[4] = im
                   /\ EndsOn(DefaultPair(c), im) <=> c \in SendCalls /\ c[4] = im
         /\ \A p \in Handles \cup Dispatches \cup Errs \cup Firsts \cup Finals
                     \cup {SesPair, RefreshPair, GetContactsPair, ContactsPair} : ~SendsOn(p, im)
         /\ \A p : EndsOn(p, im) => p \in Finals
         /\ \A p \in Handles \cup Dispatches \cup Errs \cup Firsts \cup Retries \cup DoSends
                     \cup {SesPair, RefreshPair, GetContactsPair, ContactsPair} : ~EndsOn(p, im)
  <1>1. \A c : /\ DoSendPair(c).cb = "do_send_im" /\ DoSendPair(c).user_data = c
               /\ RetryPair(c).cb = "retry_cb" /\ RetryPair(c).user_data = c
               /\ DefaultPair(c).user_data = c /\ DefaultPair(c).cb = "default_cb"
    BY DEF DoSendPair, RetryPair, DefaultPair, PairOf
  <1>2. \A p : SendsOn(p, im) => p.cb \in {"do_send_im", "retry_cb"}
    BY <1>1 DEF SendsOn
  <1>3. \A p \in Handles \cup Dispatches \cup Errs \cup Firsts \cup Finals
                \cup {SesPair, RefreshPair, GetContactsPair, ContactsPair} :
          p.cb \notin {"do_send_im", "retry_cb"}
    BY PairKindsDiffer, NamesDiffer DEF Names, HANDLE
  <1>4. \A p : EndsOn(p, im) => p \in Finals
    BY DEF EndsOn, Finals
  <1>5. \A p \in Finals : p.cb = "default_cb" /\ p.user_data \in SendCalls
    BY PairKindsDiffer
  <1>6. \A p \in Handles \cup Dispatches \cup Errs \cup Retries \cup DoSends
                \cup {SesPair, RefreshPair, GetContactsPair, ContactsPair} :
          p.cb # "default_cb"
    BY PairKindsDiffer, NamesDiffer DEF Names, HANDLE
  <1>7. \A p \in Firsts : p.user_data \notin SendCalls
    BY PairKindsDiffer
  <1>8. \A p \in Handles \cup Dispatches \cup Errs \cup Firsts \cup Retries \cup DoSends
                \cup {SesPair, RefreshPair, GetContactsPair, ContactsPair} : ~EndsOn(p, im)
    BY <1>4, <1>5, <1>6, <1>7
  <1>9. \A c : /\ SendsOn(DoSendPair(c), im) <=> c \in SendCalls /\ c[4] = im
               /\ SendsOn(RetryPair(c), im) <=> c \in SendCalls /\ c[4] = im
               /\ EndsOn(DefaultPair(c), im) <=> c \in SendCalls /\ c[4] = im
    <2> SUFFICES ASSUME NEW c
                 PROVE  /\ SendsOn(DoSendPair(c), im) <=> c \in SendCalls /\ c[4] = im
                        /\ SendsOn(RetryPair(c), im) <=> c \in SendCalls /\ c[4] = im
                        /\ EndsOn(DefaultPair(c), im) <=> c \in SendCalls /\ c[4] = im
      OBVIOUS
    <2>1. \A b : /\ DoSendPair(c) \in {DoSendPair(b), RetryPair(b)} => b = c
                 /\ RetryPair(c) \in {DoSendPair(b), RetryPair(b)} => b = c
                 /\ DefaultPair(c) = DefaultPair(b) => b = c
      BY <1>1
    <2> QED BY <2>1 DEF SendsOn, EndsOn
  <1> QED BY <1>2, <1>3, <1>4, <1>8, <1>9

(* The queue of a deferred that a handler returns: its chain, and the      *)
(* handle pairs, which resume the innermost activation first.              *)
LEMMA ReturnedQueue ==
  ASSUME EngineOK, NEW n, NEW chain \in ReturnedChains, Chain(n, chain, TRUE)
  PROVE  /\ n \in Deferreds /\ n \notin built /\ built' = built \cup {n}
         /\ Running /\ Current # <<>> /\ Top.dfr \in built /\ Top.dfr \in built'
         /\ Shift(Top.dfr) = 1
         /\ \A k \in DOMAIN callbacks'[n] :
              \/ k \in 1..Len(chain) /\ callbacks'[n][k] = chain[k]
              \/ callbacks'[n][k] \in Handles
         /\ /\ Len(chain) \in Nat /\ Len(chain) + 1 \in DOMAIN callbacks'[n]
            /\ callbacks'[n][Len(chain) + 1] = HandlePair(Top.dfr)
  <1>0. /\ DTypeOK /\ Running /\ Current # <<>> /\ n \notin built /\ n \in Deferreds
        /\ built' = built \cup {n}
        /\ callbacks' = [Popped EXCEPT ![n] = chain \o HandlePairs]
    BY DEF Chain, Allocate, InHandler, EngineOK, DInv
  <1>1. /\ Top.dfr \in built /\ Top.dfr \in Deferreds /\ Current = callbacks[Top.dfr]
        /\ Current \in Seq(Pair) /\ Popped \in [Deferreds -> Seq(Pair)]
        /\ Popped[Top.dfr] = Tail(Current)
    BY <1>0, ShapePopped, PoppedType
  <1>2. Depth \in Nat \ {0}
    BY <1>0, RunningFrames
  <1>3. callbacks'[Top.dfr] # callbacks[Top.dfr]
    <2>1. callbacks'[Top.dfr] = Tail(Current)
      BY <1>0, <1>1
    <2>2. Len(Tail(Current)) # Len(Current)
      BY <1>0, <1>1
    <2> QED BY <1>1, <2>1, <2>2
  <1>4. PICK q : q = chain \o HandlePairs
    OBVIOUS
  <1>5. callbacks'[n] = q /\ HandlePairs \in Seq(Handles) /\ HandlePairs # <<>>
    BY <1>0, <1>1, <1>4, AppendedHandles
  <1>6. /\ Len(HandlePairs) = Depth /\ Len(chain) \in Nat
        /\ DOMAIN q = 1..(Len(chain) + Depth)
        /\ \A i \in 1..Len(chain) : q[i] = chain[i]
        /\ \A i \in 1..Depth : q[Len(chain) + i] = HandlePairs[i]
    <2>1. Len(HandlePairs) = Depth /\ Len(chain) \in Nat
      BY <1>0, HandlePairsType, ChainsAreUsers
    <2> QED BY <1>4, <1>5, <2>1, ShapeReturned
  <1>7. \A i \in 1..Depth : HandlePairs[i] \in Handles
    <2>1. \A S : \A r \in Seq(S) : \A i \in 1..Len(r) : r[i] \in S
      OBVIOUS
    <2> QED BY <1>5, <1>6, <2>1
  <1>8. \A m, l \in Nat : \A j \in 1..(m + l) : j \in 1..m \/ \E i \in 1..l : j = m + i
    <2>1. \A m, l \in Nat : \A j \in 1..(m + l) :
            j \in 1..m \/ (j - m \in 1..l /\ j = m + (j - m))
      OBVIOUS
    <2> QED BY <2>1
  <1>9. \A k \in DOMAIN q : k \in 1..Len(chain) \/ \E i \in 1..Depth : k = Len(chain) + i
    <2>1. Len(chain) \in Nat /\ Depth \in Nat
      BY <1>2, <1>6
    <2>2. \A k \in 1..(Len(chain) + Depth) :
            k \in 1..Len(chain) \/ \E i \in 1..Depth : k = Len(chain) + i
      BY <1>8, <2>1
    <2>3. DOMAIN q = 1..(Len(chain) + Depth)
      BY <1>6
    <2> QED BY <2>2, <2>3
  <1>10. \A k \in DOMAIN q : \/ k \in 1..Len(chain) /\ q[k] = chain[k]
                             \/ q[k] \in Handles
    BY <1>6, <1>7, <1>9
  <1>11. /\ Len(chain) + 1 \in DOMAIN q /\ q[Len(chain) + 1] = HandlePair(Top.dfr)
    <2>1. \A l \in Nat \ {0} : 1 \in 1..l /\ l + 1 - 1 = l
      OBVIOUS
    <2>2. HandlePairs[1] = HandlePair(stack[Depth + 1 - 1].dfr)
      BY <1>0, <1>2, <2>1, HandlePairsType
    <2>3. HandlePairs[1] = HandlePair(Top.dfr)
      BY <1>2, <2>1, <2>2 DEF Top
    <2>4. \A m \in Nat, l \in Nat \ {0} : m + 1 \in 1..(m + l)
      OBVIOUS
    <2> QED BY <1>2, <1>6, <2>1, <2>3, <2>4
  <1> QED BY <1>0, <1>1, <1>3, <1>5, <1>6, <1>10, <1>11 DEF Shift

(* The pair with which a new deferred sends, and the one with which it     *)
(* resumes the innermost activation.                                       *)
SendsOnlyAt(im, n, h) == \A k \in Nat : SendsAt(im, n, k)' => k = h
ResumesAt(n, k) == k \in DOMAIN callbacks'[n] /\ callbacks'[n][k] = HandlePair(Top.dfr)

(* What a repeated call allocates: no default pair, and the pair that      *)
(* retries as the sender of that call.                                     *)
LEMMA RefreshSends ==
  ASSUME EngineOK, NEW im, NEW n, NEW call \in Calls, Refreshes(n, call)
  PROVE  /\ NoNewEnd(im) /\ SendsOnlyAt(im, n, 2)
         /\ call \notin SendCalls \/ call[4] # im => NoNewSender(im)
  <1>1. /\ Chain(n, RefreshChain(call), TRUE) /\ RefreshChain(call) \in ReturnedChains
        /\ RefreshChain(call) = <<RefreshPair, RetryPair(call)>>
    BY ChainForms DEF Refreshes, ReturnedChains
  <1>2. /\ n \in Deferreds /\ built' = built \cup {n}
        /\ \A k \in DOMAIN callbacks'[n] :
             \/ k \in 1..Len(RefreshChain(call)) /\ callbacks'[n][k] = RefreshChain(call)[k]
             \/ callbacks'[n][k] \in Handles
    BY <1>1, ReturnedQueue
  <1>3. request'[n] = <<"refresh">>
    BY <1>2 DEF Refreshes, Sends
  <1>4. \A k \in DOMAIN callbacks'[n] : \/ k = 1 /\ callbacks'[n][k] = RefreshPair
                                        \/ k = 2 /\ callbacks'[n][k] = RetryPair(call)
                                        \/ callbacks'[n][k] \in Handles
    <2>1. \A i \in 1..Len(RefreshChain(call)) : \/ i = 1 /\ RefreshChain(call)[i] = RefreshPair
                                                \/ i = 2 /\ RefreshChain(call)[i] = RetryPair(call)
      BY <1>1
    <2> QED BY <1>2, <2>1
  <1>5. RetryPair(call) \in Retries
    BY DEF Retries
  <1>6. \A k \in Nat : ~EndsAt(im, n, k)'
    BY <1>4, <1>5, PairsSend DEF EndsAt
  <1>7. \A k \in Nat : SendsAt(im, n, k)' => k = 2 /\ call \in SendCalls /\ call[4] = im
    <2>1. request'[n][1] # "message"
      BY <1>3
    <2> QED BY <1>4, <2>1, PairsSend DEF SendsAt
  <1> QED BY <1>2, <1>6, <1>7 DEF NoNewEnd, NoNewSender, SendsOnlyAt

(* What a call allocates: no default pair, and a sender of that call,      *)
(* after which its maker is resumed.                                       *)
LEMMA CallSends ==
  ASSUME EngineOK, TypedSessions, NEW im, NEW n, NEW call \in Calls, MakesCall(n, call)
  PROVE  /\ NoNewEnd(im) /\ \E h \in Nat : SendsOnlyAt(im, n, h) /\ ResumesAt(n, h + 1)
         /\ call \notin SendCalls \/ call[4] # im => NoNewSender(im)
  <1>1. Chain(n, ChainOf(call), TRUE) /\ ChainOf(call) \in ReturnedChains
    BY CallRequests DEF MakesCall
  <1>2. /\ n \in Deferreds /\ built' = built \cup {n}
        /\ \A k \in DOMAIN callbacks'[n] :
             \/ k \in 1..Len(ChainOf(call)) /\ callbacks'[n][k] = ChainOf(call)[k]
             \/ callbacks'[n][k] \in Handles
        /\ Len(ChainOf(call)) \in Nat /\ Len(ChainOf(call)) + 1 \in DOMAIN callbacks'[n]
        /\ callbacks'[n][Len(ChainOf(call)) + 1] = HandlePair(Top.dfr)
    BY <1>1, ReturnedQueue
  <1>3. request'[n] = RequestOf(call)
    BY <1>2 DEF MakesCall, Sends
  <1>4. CASE NeedsSession(call)
    <2>1. /\ call \in SendCalls
          /\ ChainOf(call) = <<DefaultPair(<<"create", call[2]>>), SesPair, DoSendPair(call)>>
          /\ RequestOf(call) = <<"create", call[2]>>
      BY <1>4, CallRequests, ChainForms
    <2>2. DefaultPair(<<"create", call[2]>>) \in Firsts /\ DoSendPair(call) \in DoSends
      BY <2>1, CallKinds DEF Firsts, DoSends
    <2>3. \A k \in DOMAIN callbacks'[n] :
            \/ callbacks'[n][k] \in Firsts \cup Handles \cup {SesPair}
            \/ k = 3 /\ callbacks'[n][k] = DoSendPair(call)
      <3>1. \A i \in 1..Len(ChainOf(call)) :
              \/ ChainOf(call)[i] \in Firsts \cup {SesPair}
              \/ i = 3 /\ ChainOf(call)[i] = DoSendPair(call)
        BY <2>1, <2>2
      <3> QED BY <1>2, <3>1
    <2>4. request'[n][1] # "message"
      BY <1>3, <2>1
    <2>5. \A k \in Nat : ~EndsAt(im, n, k)'
      BY <2>2, <2>3, PairsSend DEF EndsAt
    <2>7. \A k \in Nat : SendsAt(im, n, k)' => k = 3 /\ call \in SendCalls /\ call[4] = im
      BY <2>3, <2>4, PairsSend DEF SendsAt
    <2>6. Len(ChainOf(call)) = 3 /\ 3 \in Nat
      BY <2>1
    <2>8. SendsOnlyAt(im, n, 3) /\ ResumesAt(n, 3 + 1)
      BY <1>2, <2>6, <2>7 DEF SendsOnlyAt, ResumesAt
    <2> QED BY <1>2, <2>5, <2>6, <2>7, <2>8 DEF NoNewEnd, NoNewSender
  <1>5. CASE ~NeedsSession(call)
    <2>1. ChainOf(call) = <<>> /\ Len(ChainOf(call)) = 0 /\ 1..Len(ChainOf(call)) = {}
      BY <1>5, CallRequests
    <2>2. \A k \in DOMAIN callbacks'[n] : callbacks'[n][k] \in Handles
      BY <1>2, <2>1
    <2>3. request'[n][1] = "message" => call \in SendCalls /\ request'[n][3] = call[4]
      <3>1. CASE call \in SendCalls
        BY <1>3, <1>5, <3>1, CallRequests
      <3>2. CASE call \notin SendCalls
        <4>1. call[1] # "message"
          BY <3>2, CallKinds
        <4> QED BY <1>3, <3>2, <4>1, CallRequests
      <3> QED BY <3>1, <3>2
    <2>4. /\ \A k \in Nat : ~EndsAt(im, n, k)'
          /\ \A k \in Nat : SendsAt(im, n, k)' => k = 0 /\ call \in SendCalls /\ call[4] = im
      BY <2>2, <2>3, PairsSend DEF EndsAt, SendsAt
    <2>5. SendsOnlyAt(im, n, 0) /\ ResumesAt(n, 0 + 1) /\ 0 \in Nat
      BY <1>2, <2>1, <2>4 DEF SendsOnlyAt, ResumesAt
    <2> QED BY <1>2, <2>4, <2>5 DEF NoNewEnd, NoNewSender
  <1> QED BY <1>4, <1>5

(* A user's message builds one sender, and one default pair after it.      *)
LEMMA SendImBuilds ==
  ASSUME EngineOK, TypedSessions, NEW u \in Users, NEW im \in Ims, SendIm(u, im)
  PROVE  \E n \in Deferreds, h \in Nat :
           /\ n \notin built /\ built' = built \cup {n}
           /\ \A x : \A k \in Nat : SendsAt(x, n, k)' => x = im /\ k = h
           /\ \A x : \A k \in Nat : EndsAt(x, n, k)' => x = im /\ k = h + 2
           /\ h + 1 \in DOMAIN callbacks'[n] /\ callbacks'[n][h + 1] \in Errs
           /\ EndsAt(im, n, h + 2)'
  <1> DEFINE call == <<"send", u, list, im>>
  <1>1. call \in SendCalls /\ call \in Calls /\ call[4] = im
    BY DEF TypedSessions, SendCalls, Calls
  <1>2. PICK n \in Deferreds : /\ Build(n, ChainOf(call) \o SendChain(call), TRUE)
                               /\ Sends(n, RequestOf(call))
    BY DEF SendIm, BuildRequest, Build, Allocate
  <1> HIDE DEF call
  <1>3. /\ n \in Deferreds /\ n \notin built /\ built' = built \cup {n}
        /\ callbacks'[n] = ChainOf(call) \o SendChain(call)
        /\ request'[n] = RequestOf(call)
    BY <1>2 DEF Build, Allocate, Sends, EngineOK, DInv, DTypeOK
  <1>4. ErrPair(call) \in Errs /\ DefaultPair(call) \in Finals
    BY <1>1 DEF Errs, Finals
  <1>5. CASE NeedsSession(call)
    <2>1. /\ callbacks'[n] = <<DefaultPair(<<"create", call[2]>>), SesPair, DoSendPair(call),
                               ErrPair(call), DefaultPair(call)>>
          /\ request'[n] = <<"create", call[2]>>
      BY <1>1, <1>3, <1>5, CallRequests, ChainForms
    <2>2. DefaultPair(<<"create", call[2]>>) \in Firsts /\ DoSendPair(call) \in DoSends
      BY <1>1, CallKinds DEF Firsts, DoSends
    <2>3. /\ \A k \in DOMAIN callbacks'[n] :
               \/ callbacks'[n][k] \in Firsts \cup {SesPair} \cup Errs
               \/ k = 3 /\ callbacks'[n][k] = DoSendPair(call)
               \/ k = 5 /\ callbacks'[n][k] = DefaultPair(call)
          /\ 4 \in DOMAIN callbacks'[n] /\ callbacks'[n][4] = ErrPair(call)
          /\ 5 \in DOMAIN callbacks'[n] /\ callbacks'[n][5] = DefaultPair(call)
      BY <1>4, <2>1, <2>2
    <2>4. request'[n][1] # "message"
      BY <2>1
    <2>5. \A x : \A k \in Nat : SendsAt(x, n, k)' => x = im /\ k = 3
      BY <1>1, <1>4, <2>3, <2>4, PairsSend DEF SendsAt
    <2>6. \A x : \A k \in Nat : EndsAt(x, n, k)' => x = im /\ k = 5
      BY <1>1, <2>2, <2>3, PairsSend DEF EndsAt
    <2>7. EndsAt(im, n, 5)'
      <3>1. EndsOn(DefaultPair(call), im)
        BY <1>1, PairsSend
      <3> QED BY <1>3, <2>3, <3>1 DEF EndsAt
    <2>8. 3 \in Nat /\ 3 + 1 = 4 /\ 3 + 2 = 5
      OBVIOUS
    <2> WITNESS n \in Deferreds, 3 \in Nat
    <2> QED BY <1>3, <1>4, <2>3, <2>5, <2>6, <2>7, <2>8
  <1>6. CASE ~NeedsSession(call)
    <2>1. /\ ChainOf(call) = <<>> /\ SendChain(call) = <<ErrPair(call), DefaultPair(call)>>
          /\ request'[n] = <<"message", session_id[Contact(call)], call[4]>>
      BY <1>1, <1>3, <1>6, CallRequests, ChainForms
    <2>2. callbacks'[n] = <<ErrPair(call), DefaultPair(call)>>
      <3>1. SendChain(call) \in Seq({ErrPair(call), DefaultPair(call)})
        BY <2>1
      <3> QED BY <1>3, <2>1, <3>1
    <2>3. /\ \A k \in DOMAIN callbacks'[n] :
               \/ callbacks'[n][k] \in Errs
               \/ k = 2 /\ callbacks'[n][k] = DefaultPair(call)
          /\ 1 \in DOMAIN callbacks'[n] /\ callbacks'[n][1] = ErrPair(call)
          /\ 2 \in DOMAIN callbacks'[n] /\ callbacks'[n][2] = DefaultPair(call)
      BY <1>4, <2>2
    <2>4. request'[n][3] = im
      BY <1>1, <2>1
    <2>5. \A x : \A k \in Nat : SendsAt(x, n, k)' => x = im /\ k = 0
      BY <1>4, <2>3, <2>4, PairsSend DEF SendsAt
    <2>6. \A x : \A k \in Nat : EndsAt(x, n, k)' => x = im /\ k = 2
      BY <1>1, <2>3, PairsSend DEF EndsAt
    <2>7. EndsAt(im, n, 2)'
      <3>1. EndsOn(DefaultPair(call), im)
        BY <1>1, PairsSend
      <3> QED BY <1>3, <2>3, <3>1 DEF EndsAt
    <2>8. 0 \in Nat /\ 0 + 1 = 1 /\ 0 + 2 = 2
      OBVIOUS
    <2> WITNESS n \in Deferreds, 0 \in Nat
    <2> QED BY <1>3, <1>4, <2>3, <2>5, <2>6, <2>7, <2>8
  <1> QED BY <1>5, <1>6

(* A queue without pairs of a user's message has neither.                  *)
LEMMA BuildSilent ==
  ASSUME EngineOK, NEW im, NEW n, NEW chain, NEW r, Build(n, chain, r),
         \A k \in DOMAIN chain :
           chain[k] \in Firsts \cup Dispatches \cup {SesPair, GetContactsPair, ContactsPair},
         n \in pending' => request'[n][1] # "message"
  PROVE  NoNewSender(im) /\ NoNewEnd(im)
  <1>1. n \in Deferreds /\ built' = built \cup {n} /\ callbacks'[n] = chain
    BY DEF Build, Allocate, EngineOK, DInv, DTypeOK
  <1>2. \A k \in Nat : ~SendsAt(im, n, k)'
    BY <1>1, PairsSend DEF SendsAt, Waiting
  <1>3. \A k \in Nat : ~EndsAt(im, n, k)'
    BY <1>1, PairsSend DEF EndsAt
  <1> QED BY <1>1, <1>2, <1>3 DEF NoNewSender, NoNewEnd

(* The other events build neither.                                         *)
LEMMA OtherEvents ==
  ASSUME EngineOK, TypedSessions, Events, NEW im \in Ims, \A u \in Users : ~SendIm(u, im)
  PROVE  /\ Idle /\ NoNewSender(im) /\ NoNewEnd(im)
         /\ UNCHANGED accepted /\ (im \in sent' <=> im \in sent)
  <1>0. built' = built => NoNewSender(im) /\ NoNewEnd(im)
    BY DEF NoNewSender, NoNewEnd
  <1>1. ASSUME NEW u \in Users, NEW x \in Ims, SendIm(u, x)
        PROVE  /\ Idle /\ NoNewSender(im) /\ NoNewEnd(im)
               /\ UNCHANGED accepted /\ (im \in sent' <=> im \in sent)
    <2>1. x # im
      BY <1>1
    <2>2. PICK n \in Deferreds, h \in Nat :
            /\ n \notin built /\ built' = built \cup {n}
            /\ \A y : \A k \in Nat : SendsAt(y, n, k)' => y = x /\ k = h
            /\ \A y : \A k \in Nat : EndsAt(y, n, k)' => y = x /\ k = h + 2
            /\ h + 1 \in DOMAIN callbacks'[n] /\ callbacks'[n][h + 1] \in Errs
            /\ EndsAt(x, n, h + 2)'
      BY <1>1, SendImBuilds
    <2>3. NoNewSender(im) /\ NoNewEnd(im)
      BY <2>1, <2>2 DEF NoNewSender, NoNewEnd
    <2> QED BY <1>1, <2>1, <2>3 DEF SendIm
  <1>2. ASSUME NEW u \in Users, MarkAsRead(u)
        PROVE  NoNewSender(im) /\ NoNewEnd(im)
    <2> DEFINE s == conversation[u]
    <2>0. \A k \in DOMAIN <<>> :
            <<>>[k] \in Firsts \cup Dispatches \cup {SesPair, GetContactsPair, ContactsPair}
      OBVIOUS
    <2>1. CASE sessions[s].last > 0
      <3>1. PICK n : /\ Build(n, <<>>, TRUE) /\ Sends(n, <<"read", s, sessions[s].last>>)
                     /\ n \in Deferreds
        BY <1>2, <2>1 DEF MarkAsRead, BuildRequest, Build, Allocate
      <3>2. request'[n][1] # "message"
        BY <3>1 DEF Sends
      <3> QED BY <2>0, <3>1, <3>2, BuildSilent
    <2>2. CASE ~(sessions[s].last > 0)
      <3>1. PICK n : Build(n, <<>>, FALSE)
        BY <1>2, <2>2 DEF MarkAsRead
      <3>2. n \notin pending'
        BY <3>1 DEF Build, Allocate, EngineOK, DInv, PendingSound
      <3> QED BY <2>0, <3>1, <3>2, BuildSilent
    <2> QED BY <2>1, <2>2
  <1>3. ASSUME NEW s \in SessionIds, MessageReceived(s)
        PROVE  NoNewSender(im) /\ NoNewEnd(im)
    <2>1. CASE Known(s)
      BY <1>0, <1>3, <2>1 DEF MessageReceived, dvars
    <2>2. CASE ~Known(s)
      <3>1. PICK n, m : /\ Build(n, DispatchChain(s, m), TRUE) /\ Sends(n, <<"get", s>>)
                        /\ n \in Deferreds /\ m = Len(delivered) + 1
        BY <1>3, <2>2 DEF MessageReceived, BuildRequest, Build, Allocate
      <3>2. request'[n][1] # "message"
        BY <3>1 DEF Sends
      <3>3. DispatchChain(s, m) = <<DefaultPair(<<"get", s>>), SesPair, DispatchPair(s, m)>>
        BY ChainForms
      <3>4. DefaultPair(<<"get", s>>) \in Firsts
        BY CallKinds DEF Firsts
      <3>5. \A p : p = DispatchPair(s, m) => ~SendsOn(p, im) /\ ~EndsOn(p, im)
        <4>1. DispatchPair(s, m).cb = "dispatch_message"
          BY DEF DispatchPair, PairOf
        <4>2. \A c : /\ DoSendPair(c).cb = "do_send_im" /\ RetryPair(c).cb = "retry_cb"
                     /\ DefaultPair(c).cb = "default_cb"
          BY DEF DoSendPair, RetryPair, DefaultPair, PairOf
        <4> QED BY <4>1, <4>2 DEF SendsOn, EndsOn
      <3>6. n \in Deferreds /\ built' = built \cup {n} /\ callbacks'[n] = DispatchChain(s, m)
        BY <3>1 DEF Build, Allocate, EngineOK, DInv, DTypeOK
      <3>7. \A k \in DOMAIN callbacks'[n] :
              ~SendsOn(callbacks'[n][k], im) /\ ~EndsOn(callbacks'[n][k], im)
        BY <3>3, <3>4, <3>5, <3>6, PairsSend
      <3> QED BY <3>2, <3>6, <3>7 DEF NoNewSender, NoNewEnd, SendsAt, EndsAt
    <2> QED BY <2>1, <2>2
  <1>4. ASSUME NEW s \in SessionIds, SessionCreated(s)
        PROVE  NoNewSender(im) /\ NoNewEnd(im)
    BY <1>0, <1>4 DEF SessionCreated, dvars
  <1>5. ASSUME RefreshContacts
        PROVE  NoNewSender(im) /\ NoNewEnd(im)
    <2>1. PICK n : Build(n, ContactsChain, TRUE) /\ Sends(n, <<"contacts">>) /\ n \in Deferreds
      BY <1>5 DEF RefreshContacts, BuildRequest, Build, Allocate
    <2>2. request'[n][1] # "message"
      BY <2>1 DEF Sends
    <2>3. \A k \in DOMAIN ContactsChain :
            ContactsChain[k] \in Firsts \cup Dispatches \cup {SesPair, GetContactsPair, ContactsPair}
      <3>1. ContactsChain = <<GetContactsPair, ContactsPair>>
        BY ChainForms
      <3> QED BY <3>1
    <2> QED BY <2>1, <2>2, <2>3, BuildSilent
  <1>6. ASSUME \/ \E u \in Users : MarkAsRead(u)
               \/ \E s \in SessionIds : MessageReceived(s) \/ SessionCreated(s)
               \/ RefreshContacts
        PROVE  Idle /\ UNCHANGED <<accepted, sent>>
    BY <1>6 DEF MarkAsRead, MessageReceived, SessionCreated, RefreshContacts
  <1> QED BY <1>1, <1>2, <1>3, <1>4, <1>5, <1>6 DEF Events

(* Code that runs neither sends a message of the user's nor has one        *)
(* accepted, and what it allocates is a call of its own.                   *)
LEMMA OtherSteps ==
  ASSUME EngineOK, TypedSessions, Tables, NEW im,
         Handlers \/ RunEngine \/ UNCHANGED mvars
  PROVE  /\ UNCHANGED <<sent, accepted>>
         /\ \/ NoNewSender(im) /\ NoNewEnd(im)
            \/ \E n \in Deferreds, call \in SendCalls :
                 call[4] = im /\ (Refreshes(n, call) \/ MakesCall(n, call))
  <1>1. UNCHANGED <<sent, accepted>>
    <2>1. CASE RunEngine
      BY <2>1 DEF RunEngine
    <2>2. CASE UNCHANGED mvars
      BY <2>2 DEF mvars, ownvars
    <2>3. CASE Handlers
      BY <2>3 DEF Handlers, PassOn, Invalid, DefaultErr, RefreshWorkspaceCb, MakeCall,
                  SessionCb, DispatchMessage, MessagingErr, GetContactsCb, ownvars
    <2> QED BY <2>1, <2>2, <2>3
  <1>2. built' = built \/ ~Idle
    <2>1. CASE RunEngine
      BY <2>1 DEF RunEngine, Engine, SkipPair, Resume, FinishInner, FinishBase, Running, Idle
    <2>2. CASE UNCHANGED mvars
      BY <2>2 DEF mvars, dvars
    <2>3. CASE Handlers
      BY <2>3 DEF Handlers, PassOn, Invalid, DefaultErr, RefreshWorkspaceCb, MakeCall,
                  SessionCb, DispatchMessage, MessagingErr, GetContactsCb,
                  Calling, InHandler, Running, Idle
    <2> QED BY <2>1, <2>2, <2>3
  <1>3. ASSUME NEW n \in Deferreds, NEW call \in Calls, Refreshes(n, call) \/ MakesCall(n, call)
        PROVE  NoNewEnd(im) /\ (call \notin SendCalls \/ call[4] # im => NoNewSender(im))
    BY <1>3, RefreshSends, CallSends
  <1>4. CASE \E e \in built' : e \notin built
    <2>1. PICK e \in built' : e \notin built
      BY <1>4
    <2>2. NewQueue(e) /\ ~Idle
      BY <1>2, <2>1 DEF Tables
    <2>3. PICK call \in Calls : Refreshes(e, call) \/ MakesCall(e, call)
      BY <2>2 DEF NewQueue, Builds, BuildsAlone
    <2>4. e \in Deferreds
      BY <2>3 DEF Refreshes, MakesCall, Chain, Allocate
    <2> QED BY <1>1, <1>3, <2>3, <2>4
  <1>5. CASE ~\E e \in built' : e \notin built
    BY <1>1, <1>5 DEF NoNewSender, NoNewEnd
  <1> QED BY <1>4, <1>5

(* The default pair is not reached before the sender.                      *)
LEMMA EndReached ==
  ASSUME EngineOK, Running, NEW im, OneEnd(im), EndAfterSender(im), EndsAt(im, Top.dfr, 1)
  PROVE  \A d \in Deferreds : \A k \in Nat : ~SendsAt(im, d, k)
  <1>0. /\ Depth \in DOMAIN stack /\ Top.dfr \in Deferreds /\ OnStack(Top.dfr)
        /\ Top.dfr \in is_firing
    BY RunningFrames DEF EngineOK, DInv, OnStack, Top, StackSound
  <1> SUFFICES ASSUME NEW d \in Deferreds, NEW k \in Nat, SendsAt(im, d, k)
               PROVE  FALSE
    OBVIOUS
  <1>1. ~Ended(im)
    <2>1. 1 \in Nat
      OBVIOUS
    <2> QED BY <1>0, <2>1 DEF Ended
  <1>2. PICK p \in Seq(Deferreds) : Way(im, p, d, k + 1)
    BY <1>1 DEF EndAfterSender
  <1>3. /\ Len(p) \in Nat \ {0} /\ p[Len(p)] = d
        /\ \A i \in 1..Len(p) : /\ p[i] \in Deferreds
                                /\ Leads(im, p, i, IF i = Len(p) THEN k + 1 ELSE 1)
    BY <1>2 DEF Way
  <1>4. PICK n \in Nat : /\ n # 0 /\ Leads(im, p, 1, n) /\ p[1] \in Deferreds
                         /\ Len(p) = 1 => n = k + 1
    <2>1. \A m \in Nat \ {0} : 1 \in 1..m
      OBVIOUS
    <2>2. k + 1 \in Nat /\ k + 1 # 0 /\ 1 \in Nat /\ 1 # 0
      OBVIOUS
    <2> QED BY <1>3, <2>1, <2>2
  <1>5. p[1] = Top.dfr /\ n = 1
    <2>1. EndsAt(im, p[1], n) \/ EndsAt(im, p[1], n + 1)
      BY <1>4 DEF Leads
    <2>2. n + 1 \in Nat /\ n + 1 # 1 /\ 1 \in Nat
      BY <1>4
    <2> QED BY <1>0, <1>4, <2>1, <2>2 DEF OneEnd
  <1>6. CASE Len(p) = 1
    <2>1. k = 0 /\ d = Top.dfr
      BY <1>3, <1>4, <1>5, <1>6
    <2>2. Waiting(d)
      BY <2>1 DEF SendsAt, EngineOK, DInv, DTypeOK
    <2> QED BY <1>0, <2>1, <2>2 DEF Waiting, EngineOK, DInv, PendingSound
  <1>7. CASE Len(p) # 1
    <2>1. \A m \in Nat \ {0} : m # 1 => 2 \in 1..m /\ 2 # 1 /\ 2 - 1 = 1
      OBVIOUS
    <2>2. 2 \in 1..Len(p) /\ 2 # 1 /\ 2 - 1 = 1
      <3>1. Len(p) \in Nat \ {0}
        BY <1>3
      <3> QED BY <1>7, <2>1, <3>1
    <2>3. PICK j : Leads(im, p, 2, j)
      BY <1>3, <2>2
    <2>4. /\ p[2] \in built /\ j \in DOMAIN callbacks[p[2]]
          /\ callbacks[p[2]][j] = HandlePair(p[1])
      BY <2>2, <2>3 DEF Leads
    <2> QED BY <1>0, <1>4, <1>5, <2>4, WaitersApart
  <1> QED BY <1>6, <1>7

(* Running the pair that is the first takes it away.                       *)
LEMMA PopShifts ==
  ASSUME EngineOK, Running, Current # <<>>, callbacks' = Popped
  PROVE  Shift(Top.dfr) = 1
  <1>1. Current = callbacks[Top.dfr] /\ Current \in Seq(Pair) /\ Popped[Top.dfr] = Tail(Current)
    BY ShapePopped
  <1>2. Len(Tail(Current)) # Len(Current)
    BY <1>1
  <1> QED BY <1>1, <1>2 DEF Shift

(* Running the default pair is the end of the message.                     *)
LEMMA EndOver ==
  ASSUME EngineOK, EngineOK', Tables, NEW im, OneEnd(im), NoNewEnd(im), Running,
         EndsAt(im, Top.dfr, 1), Shift(Top.dfr) = 1
  PROVE  Ended(im)'
  <1>1. SUFFICES ASSUME NEW d \in Deferreds, NEW k \in Nat, EndsAt(im, d, k)'
                 PROVE  FALSE
    BY DEF Ended
  <1>2. k # 0 /\ EndsAt(im, d, k + Shift(d)) /\ k + Shift(d) \in Nat
    BY <1>1, EndOld
  <1>3. Top.dfr \in Deferreds /\ 1 \in Nat
    BY RunningFrames DEF EngineOK, DInv
  <1>4. d = Top.dfr /\ k + Shift(d) = 1
    BY <1>2, <1>3 DEF OneEnd
  <1>5. k + 1 = 1
    BY <1>4
  <1>6. k = 0
    BY <1>5
  <1> QED BY <1>2, <1>6

(* What takes a message to its default pair is in the engine's tables.     *)
LEMMA TakesSame ==
  ASSUME NEW im, Takes(im), UNCHANGED <<built, callbacks, stack, crashed>>
  PROVE  Takes(im)'
  BY DEF Takes, Running, Top, Depth, Way, Leads, EndsAt

(* An accepted message is taken to its default pair, or past it: a fault   *)
(* that is no expired token repeats nothing.                               *)
LEMMA TakesKept ==
  ASSUME EngineOK, EngineOK', [DNext]_dvars, Tables, Uses, NEW im,
         OneEnd(im), NoNewEnd(im), Takes(im)
  PROVE  Ended(im)' \/ Takes(im)'
  <1>0. /\ DTypeOK /\ Running /\ ~Idle /\ ~crashed' /\ stack \in Seq(Frame)
        /\ Top.mode = "err" => Top.val = "other"
    BY DEF Takes, EngineOK, DInv, DTypeOK, Idle, Running
  <1>1. /\ Depth \in Nat \ {0} /\ DOMAIN stack = 1..Depth /\ Depth \in 1..Depth
        /\ Top.dfr \in Deferreds /\ Top.mode \in {"cb", "err"}
    BY <1>0, RunningFrames
  <1>2. PICK p \in Seq(Deferreds) : Way(im, p, Top.dfr, 1)
    BY DEF Takes
  <1>3. /\ Len(p) \in Nat \ {0} /\ p # <<>> /\ p[Len(p)] = Top.dfr /\ Leads(im, p, Len(p), 1)
    <2>1. \A m \in Nat \ {0} : m \in 1..m
      OBVIOUS
    <2>2. Len(p) \in Nat \ {0}
      BY <1>2 DEF Way
    <2> QED BY <1>2, <2>1, <2>2 DEF Way
  <1>4. Top.dfr \in built /\ 1 \in DOMAIN Current /\ Current # <<>> /\ Current = callbacks[Top.dfr]
    <2>1. DOMAIN <<>> = {}
      OBVIOUS
    <2> QED BY <1>3, <2>1 DEF Leads, Current
  <1>5. /\ Head(Current) = Current[1] /\ Current[1] \in MPair
        /\ ~FinishInner /\ ~FinishBase
    BY <1>0, <1>4, ShapePopped DEF FinishInner, FinishBase
  <1>6. /\ callbacks' = Popped => Shift(Top.dfr) = 1
        /\ \A f : Fault(f) /\ Top.mode = "err" => callbacks' = Popped
        /\ Respond \/ SkipPair => callbacks' = Popped
    BY <1>0, <1>4, PopShifts DEF Fault, FaultedQueue, Respond, SkipPair
  <1>7. \/ Takes(im)'
        \/ Responds
        \/ \E f \in Faults : FaultsWith(f)
        \/ \E n \in Deferreds, call \in Calls : MakesCall(n, call)
        \/ SkipPair \/ Resume
    <2>1. CASE Keeps
      BY <2>1, TakesSame DEF Keeps, dvars
    <2>2. \A n \in Deferreds, call \in Calls : ~Refreshes(n, call)
      BY <1>0 DEF Refreshes
    <2>3. CASE RunEngine
      BY <1>5, <2>3 DEF RunEngine, Engine
    <2> QED BY <1>0, <2>1, <2>2, <2>3 DEF Uses, Builds, BuildsAlone, Fires, Fire
  <1>8. CASE EndsAt(im, Top.dfr, 1)
    <2>1. Current[1] \in Finals
      BY <1>4, <1>8, PairsSend DEF EndsAt
    <2>2. ~SkipPair /\ ~Resume
      BY <1>1, <1>5, <2>1, PairKindsDiffer, NamesDiffer DEF SkipPair, Resume, Handler, Names
    <2>3. \A q \in Errs \cup DoSends \cup Retries \cup {SesPair, RefreshPair, GetContactsPair} :
            q # Current[1]
      BY <2>1, PairKindsDiffer, NamesDiffer DEF Names
    <2>4. \A n \in Deferreds, call \in Calls : ~MakesCall(n, call)
      BY <2>3 DEF MakesCall
    <2>5. \A f \in Faults : FaultsWith(f) => callbacks' = Popped
      BY <1>6, <2>3 DEF FaultsWith
    <2>6. Responds => callbacks' = Popped
      BY <1>6 DEF Responds
    <2>7. Takes(im)' \/ Shift(Top.dfr) = 1
      BY <1>6, <1>7, <2>2, <2>4, <2>5, <2>6
    <2> QED BY <1>0, <1>8, <2>7, EndOver
  <1>9. CASE Len(p) = 1 /\ Current[1] \in Errs /\ EndsAt(im, Top.dfr, 2)
    <2>1. ~Resume
      BY <1>1, <1>5, <1>9, PairKindsDiffer, NamesDiffer DEF Resume, Handler, Names
    <2>2. \A q \in Firsts \cup Finals \cup Dispatches \cup DoSends \cup Retries
                   \cup {SesPair, RefreshPair, GetContactsPair, ContactsPair} : q # Current[1]
      BY <1>9, PairKindsDiffer, NamesDiffer DEF Names
    <2>3. ~Responds /\ \A n \in Deferreds, call \in Calls : ~MakesCall(n, call)
      BY <2>2 DEF Responds, MakesCall
    <2>4. \A f \in Faults : FaultsWith(f) => f = Top.val /\ Top.mode = "err" /\ Fault(f)
      BY <1>9, <2>2 DEF FaultsWith
    <2>5. ASSUME SkipPair \/ \E f \in Faults : FaultsWith(f)
          PROVE  Takes(im)'
      <3>1. callbacks' = Popped /\ built' = built
        BY <1>6, <2>4, <2>5 DEF SkipPair, Fault
      <3>2. stack' # <<>> /\ Top'.dfr = Top.dfr /\ Top'.mode = Top.mode /\ Top'.val = Top.val
        <4>1. CASE SkipPair
          BY <1>0, <4>1 DEF SkipPair, Top, Depth, Running
        <4>2. ASSUME NEW f \in Faults, FaultsWith(f)
              PROVE  stack' # <<>> /\ Top'.dfr = Top.dfr /\ Top'.mode = Top.mode /\ Top'.val = Top.val
          <5>1. /\ GoOn("err", Top.val) /\ Top.mode = "err"
            BY <2>4, <4>2 DEF Fault
          <5>2. /\ DOMAIN stack' = DOMAIN stack
                /\ \A i \in DOMAIN stack : stack'[i].dfr = stack[i].dfr
            BY <1>0, <5>1, GoOnSameDeferreds
          <5>3. stack' # <<>> /\ Depth' = Depth /\ Top' = stack'[Depth]
            BY <1>0, <5>2, SameDepth
          <5>4. stack'[Depth] = [dfr |-> Top.dfr, mode |-> "err", val |-> Top.val]
            BY <1>1, <5>1 DEF GoOn
          <5> QED BY <5>1, <5>3, <5>4
        <4> QED BY <2>5, <4>1, <4>2
      <3>3. Way(im, p, Top.dfr, 1)'
        <4>1. Leads(im, p, 1, 2)
          BY <1>3, <1>4, <1>9 DEF Leads, EndsAt
        <4>2. Way(im, p, Top.dfr, 2)
          <5>1. \A m \in Nat \ {0} : m = 1 => \A i \in 1..m : i = 1
            OBVIOUS
          <5>2. \A i \in 1..Len(p) : i = 1
            BY <1>3, <1>9, <5>1
          <5> QED BY <1>3, <1>9, <4>1, <5>2 DEF Way
        <4>3. Shift(Top.dfr) = 1 /\ 1 \in Nat \ {0} /\ 1 + 1 = 2
          BY <1>6, <3>1
        <4>4. PICK d : d = Top.dfr
          OBVIOUS
        <4>5. Way(im, p, d, 1 + Shift(d)) /\ d \in built'
          BY <1>4, <3>1, <4>2, <4>3, <4>4
        <4>6. Way(im, p, d, 1)'
          BY <4>3, <4>5, WayKept
        <4> QED BY <3>2, <4>4, <4>6
      <3> QED BY <1>0, <1>2, <3>2, <3>3 DEF Takes, Running
    <2> QED BY <1>7, <2>1, <2>3, <2>5

<1>10. CASE Len(p) # 1
    <2>1. /\ Current[1] = HandlePair(p[Len(p) - 1]) /\ Current[1] \in Handles
          /\ p[Len(p) - 1] \in Deferreds
      <3>1. \A m \in Nat \ {0} : m # 1 => m - 1 \in 1..m
        OBVIOUS
      <3>2. Len(p) - 1 \in 1..Len(p)
        <4>1. Len(p) \in Nat \ {0}
          BY <1>3
        <4> QED BY <1>10, <3>1, <4>1
      <3>3. \A i \in 1..Len(p) : p[i] \in Deferreds
        BY <1>2
      <3>4. Current[1] = HandlePair(p[Len(p) - 1])
        BY <1>3, <1>4, <1>10 DEF Leads
      <3> QED BY <3>2, <3>3, <3>4 DEF Handles
    <2>2. \A q \in Firsts \cup Finals \cup Dispatches \cup DoSends \cup Retries \cup Errs
                   \cup {SesPair, RefreshPair, GetContactsPair, ContactsPair} : q # Current[1]
      BY <2>1, PairKindsDiffer, NamesDiffer DEF Names, HANDLE
    <2>3. /\ ~Responds /\ \A n \in Deferreds, call \in Calls : ~MakesCall(n, call)
          /\ \A f \in Faults : ~FaultsWith(f)
      BY <2>2 DEF Responds, MakesCall, FaultsWith
    <2>4. ~SkipPair
      BY <1>1, <1>5, <2>1, PairKindsDiffer, NamesDiffer DEF SkipPair, Handler
    <2>5. ASSUME Resume
          PROVE  Takes(im)'
      <3>1. stack' = Append(stack, [dfr |-> p[Len(p) - 1], mode |-> Top.mode, val |-> Top.val])
        <4>1. Current[1].user_data = p[Len(p) - 1]
          BY <2>1 DEF HandlePair
        <4> QED BY <1>0, <1>5, <2>5, <4>1 DEF Resume, Enter
      <3>2. /\ stack' # <<>> /\ Top'.dfr = p[Len(p) - 1] /\ Top'.mode = Top.mode
            /\ Top'.val = Top.val
        BY <1>0, <3>1 DEF Top, Depth
      <3>3. PICK r : r = [i \in 1..(Len(p) - 1) |-> p[i]]
        OBVIOUS
      <3>4. /\ r \in Seq(Deferreds) /\ Len(r) = Len(p) - 1 /\ r # <<>>
            /\ \A i \in 1..Len(r) : /\ r[i] = p[i] /\ i \in 1..Len(p) /\ i # Len(p)
                                    /\ i # 1 => i - 1 \in 1..Len(r)
            /\ Len(r) \in 1..Len(r) /\ 1 \in 1..Len(r)
        <4>1. \A m \in Nat \ {0} : m # 1 =>
                /\ m - 1 \in Nat \ {0} /\ m - 1 \in 1..(m - 1) /\ 1 \in 1..(m - 1)
                /\ \A i \in 1..(m - 1) : /\ i \in 1..m /\ i # m
                                         /\ i # 1 => i - 1 \in 1..(m - 1)
          OBVIOUS
        <4>2. PICK m \in Nat \ {0} : m = Len(p) /\ m # 1
          BY <1>3, <1>10
        <4>3. \A i \in 1..m : p[i] \in Deferreds
          BY <1>2, <4>2
        <4>4. r \in [1..(m - 1) -> Deferreds]
          BY <3>3, <4>1, <4>2, <4>3
        <4>5. r \in Seq(Deferreds) /\ Len(r) = m - 1
          BY <4>1, <4>2, <4>4, SequenceFromFunction
        <4>6. r # <<>>
          <5>1. Len(<<>>) = 0
            OBVIOUS
          <5> QED BY <4>1, <4>2, <4>5, <5>1
        <4>7. \A i \in 1..(m - 1) : r[i] = p[i]
          BY <3>3, <4>2
        <4> QED BY <4>1, <4>2, <4>5, <4>6, <4>7
      <3>5. \A i \in 1..Len(p) : i # Len(p) => Leads(im, p, i, 1)'
        BY <1>2, WayBelow
      <3>6. ASSUME NEW i \in 1..Len(r)
            PROVE  Leads(im, r, i, 1)'
        <4>1. Leads(im, p, i, 1)' /\ r[i] = p[i] /\ r[1] = p[1]
          BY <3>4, <3>5
        <4>2. i # 1 => r[i - 1] = p[i - 1]
          BY <3>4
        <4> QED BY <4>1, <4>2 DEF Leads
      <3>7. r[Len(r)] = Top'.dfr
        BY <3>2, <3>4
      <3>8. Way(im, r, Top.dfr, 1)'
        BY <3>4, <3>6, <3>7 DEF Way
      <3> QED BY <1>0, <3>2, <3>4, <3>8 DEF Takes, Running
    <2> QED BY <1>7, <2>3, <2>4, <2>5
  <1>11. \/ EndsAt(im, Top.dfr, 1)
         \/ Current[1] \in Errs /\ EndsAt(im, Top.dfr, 2)
         \/ Len(p) # 1
    <2>1. Len(p) = 1 => \/ EndsAt(im, p[1], 1)
                        \/ callbacks[p[1]][1] \in Errs /\ EndsAt(im, p[1], 1 + 1)
      BY <1>3 DEF Leads
    <2>2. 1 + 1 = 2
      OBVIOUS
    <2> QED BY <1>3, <1>4, <2>1, <2>2
  <1> QED BY <1>8, <1>9, <1>10, <1>11

(* A step that neither sends nor accepts the message.                      *)
LEMMA OncePlain ==
  ASSUME EngineOK, EngineOK', [DNext]_dvars, Tables, Uses, NEW im, Once(im),
         NoNewSender(im), NoNewEnd(im),
         im \in sent' <=> im \in sent, Accepted(im)' <=> Accepted(im)
  PROVE  Once(im)'
  <1>0. OneSender(im) /\ OneEnd(im) /\ EndAfterSender(im) /\ AcceptedEnds(im) /\ UnsentAbsent(im)
    BY DEF Once
  <1>1. /\ OneSender(im)' /\ EndAfterSender(im)'
        /\ \A d \in Deferreds : \A k \in Nat :
             SendsAt(im, d, k)' => \E j \in Nat : SendsAt(im, d, j)
    BY <1>0, OnceOld
  <1>2. OneEnd(im)' /\ (Ended(im) => Ended(im)')
    BY <1>0, EndOld
  <1>3. AcceptedEnds(im)'
    <2>1. Takes(im) => Ended(im)' \/ Takes(im)'
      BY <1>0, TakesKept
    <2> QED BY <1>0, <1>1, <1>2, <2>1 DEF AcceptedEnds
  <1>4. UnsentAbsent(im)'
    BY <1>0, <1>1, <1>2 DEF UnsentAbsent
  <1> QED BY <1>1, <1>2, <1>3, <1>4 DEF Once

(* The user sends it: its queue has the one sender and the one default     *)
(* pair.                                                                   *)
LEMMA OnceSent ==
  ASSUME EngineOK, EngineOK', [DNext]_dvars, Tables, TypedSessions, NEW u \in Users, NEW im \in Ims,
         Once(im), SendIm(u, im)
  PROVE  Once(im)' /\ (Accepted(im)' <=> Accepted(im))
  <1>0. /\ im \notin sent /\ im \in sent' /\ accepted' = accepted
        /\ \A d \in Deferreds : \A k \in Nat : ~SendsAt(im, d, k)
        /\ Ended(im) /\ ~Accepted(im)
    BY DEF SendIm, Once, UnsentAbsent
  <1>1. PICK n \in Deferreds, h \in Nat :
           /\ n \notin built /\ built' = built \cup {n}
           /\ \A x : \A k \in Nat : SendsAt(x, n, k)' => x = im /\ k = h
           /\ \A x : \A k \in Nat : EndsAt(x, n, k)' => x = im /\ k = h + 2
           /\ h + 1 \in DOMAIN callbacks'[n] /\ callbacks'[n][h + 1] \in Errs
           /\ EndsAt(im, n, h + 2)'
    BY SendImBuilds
  <1>2. \A s \in {0, 1}, k \in Nat : k + s \in Nat
    OBVIOUS
  <1>3. \A d \in Deferreds : \A k \in Nat : SendsAt(im, d, k)' => d = n /\ k = h
    <2> SUFFICES ASSUME NEW d \in Deferreds, NEW k \in Nat, SendsAt(im, d, k)', d # n
                 PROVE  FALSE
      BY <1>1
    <2>1. d \in built' /\ d \in built
      BY <1>1 DEF SendsAt, Waiting, EngineOK, DInv, PendingSound
    <2>2. k + Shift(d) \in Nat
      BY <1>2, <2>1, QueueMoves
    <2>3. SendsAt(im, d, 0) \/ SendsAt(im, d, k + Shift(d))
      BY <2>1, SenderWas
    <2> QED BY <1>0, <2>2, <2>3
  <1>4. \A d \in Deferreds : \A k \in Nat : EndsAt(im, d, k)' => d = n /\ k = h + 2
    <2> SUFFICES ASSUME NEW d \in Deferreds, NEW k \in Nat, EndsAt(im, d, k)', d # n
                 PROVE  FALSE
      BY <1>1
    <2>1. d \in built' /\ d \in built
      BY <1>1 DEF EndsAt
    <2>2. k + Shift(d) \in Nat
      BY <1>2, <2>1, QueueMoves
    <2>3. EndsAt(im, d, k + Shift(d))
      BY <2>1, EndWas
    <2> QED BY <1>0, <2>2, <2>3 DEF Ended
  <1>5. Way(im, <<n>>, n, h + 1)'
    <2>1. (h + 1) + 1 = h + 2
      OBVIOUS
    <2>2. n \in built' /\ EndsAt(im, n, (h + 1) + 1)'
      BY <1>1, <2>1
    <2>3. Leads(im, <<n>>, 1, h + 1)'
      BY <1>1, <2>2 DEF Leads
    <2>4. /\ <<n>> \in Seq(Deferreds) /\ <<n>> # <<>> /\ Len(<<n>>) = 1 /\ <<n>>[1] = n
          /\ \A i \in 1..1 : i = 1
      OBVIOUS
    <2> QED BY <2>3, <2>4 DEF Way
  <1>6. OneSender(im)' /\ OneEnd(im)'
    BY <1>3, <1>4 DEF OneSender, OneEnd
  <1>7. EndAfterSender(im)'
    <2>1. <<n>> \in Seq(Deferreds)
      OBVIOUS
    <2> QED BY <1>3, <1>5, <2>1 DEF EndAfterSender
  <1>8. Accepted(im)' <=> Accepted(im)
    BY <1>0 DEF Accepted
  <1>9. AcceptedEnds(im)' /\ UnsentAbsent(im)'
    BY <1>0, <1>8 DEF AcceptedEnds, UnsentAbsent
  <1> QED BY <1>6, <1>7, <1>8, <1>9 DEF Once

(* A handler makes the call: the new deferred has the sender now, and      *)
(* resumes the queue in which it was.                                      *)
LEMMA OnceCalled ==
  ASSUME EngineOK, EngineOK', [DNext]_dvars, Tables, TypedSessions, NEW im, Once(im),
         NEW n, NEW call \in SendCalls, call[4] = im, MakesCall(n, call),
         UNCHANGED <<sent, accepted>>
  PROVE  Once(im)'
  <1>0. OneSender(im) /\ OneEnd(im) /\ EndAfterSender(im) /\ AcceptedEnds(im) /\ UnsentAbsent(im)
    BY DEF Once
  <1>1. call \in Calls /\ Chain(n, ChainOf(call), TRUE) /\ ChainOf(call) \in ReturnedChains
    BY CallRequests, CallKinds DEF MakesCall
  <1>2. /\ n \in Deferreds /\ n \notin built /\ built' = built \cup {n}
        /\ Running /\ Current # <<>> /\ Top.dfr \in built /\ Top.dfr \in built'
        /\ Shift(Top.dfr) = 1
    BY <1>1, ReturnedQueue
  <1>3. Current = callbacks[Top.dfr] /\ 1 \in DOMAIN Current /\ Top.dfr \in Deferreds
    BY <1>2, ShapePopped
  <1>4. SendsAt(im, Top.dfr, 1)
    <2>1. SendsOn(Current[1], im)
      BY PairsSend DEF MakesCall
    <2> QED BY <1>2, <1>3, <2>1 DEF SendsAt
  <1>5. 1 \in Nat /\ 1 # 0 /\ \A k \in Nat : k + 1 = 1 => k = 0
    OBVIOUS
  <1>6. ~Accepted(im) /\ im \in sent
    BY <1>0, <1>3, <1>4, <1>5 DEF AcceptedEnds, UnsentAbsent
  <1>7. PICK h \in Nat : SendsOnlyAt(im, n, h) /\ ResumesAt(n, h + 1)
    BY <1>1, CallSends
  <1>8. NoNewEnd(im)
    BY <1>1, CallSends
  <1>9. OneEnd(im)' /\ (Ended(im) => Ended(im)')
    BY <1>0, <1>8, EndOld
  <1>10. \A d \in Deferreds : \A k \in Nat : SendsAt(im, d, k)' => d = n /\ k = h
    <2> SUFFICES ASSUME NEW d \in Deferreds, NEW k \in Nat, SendsAt(im, d, k)', d # n
                 PROVE  FALSE
      BY <1>7 DEF SendsOnlyAt
    <2>1. d \in built' /\ d \in built
      BY <1>2 DEF SendsAt, Waiting, EngineOK, DInv, PendingSound
    <2>2. k + Shift(d) \in Nat /\ 0 \in Nat
      <3>1. \A s \in {0, 1}, j \in Nat : j + s \in Nat
        OBVIOUS
      <3> QED BY <2>1, <3>1, QueueMoves
    <2>3. /\ k = 0 => SendsAt(im, d, 0)
          /\ k # 0 => SendsAt(im, d, k + Shift(d))
      BY <2>1, SenderWas
    <2>4. k # 0
      BY <1>0, <1>3, <1>4, <1>5, <2>2, <2>3 DEF OneSender
    <2>5. d = Top.dfr /\ k + Shift(d) = 1
      BY <1>0, <1>3, <1>4, <1>5, <2>2, <2>3, <2>4 DEF OneSender
    <2>6. k + 1 = 1
      BY <1>2, <2>5
    <2> QED BY <1>5, <2>4, <2>6
  <1>11. ASSUME ~Ended(im)
         PROVE  \E p \in Seq(Deferreds) : Way(im, p, n, h + 1)'
    <2>1. PICK q \in Seq(Deferreds) : Way(im, q, Top.dfr, 1 + 1)
      BY <1>0, <1>3, <1>4, <1>5, <1>11 DEF EndAfterSender
    <2>2. PICK d \in Deferreds : d = Top.dfr
      BY <1>3
    <2>3. Way(im, q, d, 1 + Shift(d)) /\ d \in built' /\ 1 \in Nat \ {0}
      BY <1>2, <2>1, <2>2
    <2>4. Way(im, q, d, 1)'
      BY <2>3, WayKept
    <2>5. PICK p : p = Append(q, n)
      OBVIOUS
    <2>6. PICK m \in Nat \ {0} : m = Len(q)
      BY <2>4 DEF Way
    <2>7. /\ p \in Seq(Deferreds) /\ Len(p) = m + 1 /\ p[m + 1] = n
          /\ \A i \in 1..m : p[i] = q[i]
      BY <1>2, <2>1, <2>5, <2>6
    <2>8. /\ \A i \in 1..(m + 1) : i \in 1..m \/ i = m + 1
          /\ \A i \in 1..m : i # m + 1 /\ (i # 1 => i - 1 \in 1..m)
          /\ (m + 1) - 1 = m /\ m \in 1..m /\ 1 \in 1..m /\ m + 1 # 1 /\ m + 1 # 0
      OBVIOUS
    <2>9. q[m] = d /\ \A i \in 1..m : Leads(im, q, i, 1)'
      BY <2>4, <2>6 DEF Way
    <2>10. ASSUME NEW i \in 1..m
           PROVE  Leads(im, p, i, 1)'
      <3>1. Leads(im, q, i, 1)' /\ p[i] = q[i] /\ p[1] = q[1] /\ (i # 1 => p[i - 1] = q[i - 1])
        BY <2>7, <2>8, <2>9
      <3> QED BY <3>1 DEF Leads
    <2>11. Leads(im, p, m + 1, h + 1)'
      <3>1. p[(m + 1) - 1] = Top.dfr
        BY <2>2, <2>7, <2>8, <2>9
      <3>2. n \in built'
        BY <1>2
      <3> QED BY <1>7, <2>7, <2>8, <3>1, <3>2 DEF Leads, ResumesAt
    <2>12. p # <<>>
      <3>1. Len(<<>>) = 0
        OBVIOUS
      <3> QED BY <2>7, <2>8, <3>1
    <2>13. \A i \in 1..Len(p) : Leads(im, p, i, IF i = Len(p) THEN h + 1 ELSE 1)'
      BY <2>7, <2>8, <2>10, <2>11
    <2>14. Way(im, p, n, h + 1)'
      BY <2>7, <2>12, <2>13 DEF Way
    <2> QED BY <2>7, <2>14
  <1>12. OneSender(im)'
    BY <1>10 DEF OneSender
  <1>13. EndAfterSender(im)'
    BY <1>9, <1>10, <1>11 DEF EndAfterSender
  <1>14. AcceptedEnds(im)' /\ UnsentAbsent(im)'
    BY <1>6 DEF AcceptedEnds, UnsentAbsent, Accepted
  <1> QED BY <1>9, <1>12, <1>13, <1>14 DEF Once

(* The default pair is run, and would repeat the message: it had not been  *)
(* sent, and the pair that retries is its sender now.                      *)
LEMMA OnceRefreshed ==
  ASSUME EngineOK, EngineOK', [DNext]_dvars, Tables, TypedSessions, NEW im, Once(im),
         NEW n, NEW call \in SendCalls, call[4] = im, Refreshes(n, call),
         UNCHANGED <<sent, accepted>>
  PROVE  Once(im)'
  <1>0. OneSender(im) /\ OneEnd(im) /\ EndAfterSender(im) /\ AcceptedEnds(im) /\ UnsentAbsent(im)
    BY DEF Once
  <1>1. call \in Calls /\ Chain(n, RefreshChain(call), TRUE) /\ RefreshChain(call) \in ReturnedChains
    BY CallKinds DEF Refreshes, ReturnedChains
  <1>2. /\ n \in Deferreds /\ n \notin built /\ built' = built \cup {n}
        /\ Running /\ Current # <<>> /\ Top.dfr \in built /\ Shift(Top.dfr) = 1
    BY <1>1, ReturnedQueue
  <1>3. Current = callbacks[Top.dfr] /\ 1 \in DOMAIN Current /\ Top.dfr \in Deferreds
    BY <1>2, ShapePopped
  <1>4. EndsAt(im, Top.dfr, 1) /\ ~Ended(im)
    <2>1. EndsOn(Current[1], im)
      BY PairsSend DEF Refreshes
    <2>2. EndsAt(im, Top.dfr, 1) /\ 1 \in Nat
      BY <1>2, <1>3, <2>1 DEF EndsAt
    <2> QED BY <1>3, <2>2 DEF Ended
  <1>5. \A d \in Deferreds : \A k \in Nat : ~SendsAt(im, d, k)
    BY <1>0, <1>2, <1>4, EndReached
  <1>6. NoNewEnd(im) /\ SendsOnlyAt(im, n, 2)
    BY <1>1, RefreshSends
  <1>7. Ended(im)' /\ OneEnd(im)'
    BY <1>0, <1>2, <1>4, <1>6, EndOver, EndOld
  <1>8. ~Accepted(im) /\ im \in sent
    <2>1. ~Takes(im)
      BY DEF Takes, Refreshes
    <2> QED BY <1>0, <1>4, <2>1 DEF AcceptedEnds, UnsentAbsent
  <1>9. \A d \in Deferreds : \A k \in Nat : SendsAt(im, d, k)' => d = n /\ k = 2
    <2> SUFFICES ASSUME NEW d \in Deferreds, NEW k \in Nat, SendsAt(im, d, k)', d # n
                 PROVE  FALSE
      BY <1>6 DEF SendsOnlyAt
    <2>1. d \in built' /\ d \in built
      BY <1>2 DEF SendsAt, Waiting, EngineOK, DInv, PendingSound
    <2>2. k + Shift(d) \in Nat /\ 0 \in Nat
      <3>1. \A s \in {0, 1}, j \in Nat : j + s \in Nat
        OBVIOUS
      <3> QED BY <2>1, <3>1, QueueMoves
    <2>3. SendsAt(im, d, 0) \/ SendsAt(im, d, k + Shift(d))
      BY <2>1, SenderWas
    <2> QED BY <1>5, <2>2, <2>3
  <1>10. OneSender(im)' /\ EndAfterSender(im)'
    BY <1>7, <1>9 DEF OneSender, EndAfterSender
  <1>11. AcceptedEnds(im)' /\ UnsentAbsent(im)'
    BY <1>8 DEF AcceptedEnds, UnsentAbsent, Accepted
  <1> QED BY <1>7, <1>10, <1>11 DEF Once

(* The server accepts it: the request that it has answered was the sender, *)
(* and its queue leads to the default pair.                                *)
LEMMA OnceAccepted ==
  ASSUME EngineOK, EngineOK', [DNext]_dvars, Tables, NEW im, Once(im),
         NEW d \in Deferreds, Reply(d) \/ OtherFault(d),
         request[d][1] = "message", request[d][3] = im, Accepted(im)'
  PROVE  Once(im)' /\ ~Accepted(im)
  <1>0. OneSender(im) /\ OneEnd(im) /\ EndAfterSender(im) /\ AcceptedEnds(im) /\ UnsentAbsent(im)
    BY DEF Once
  <1>1. PICK mode, val : /\ mode \in {"cb", "err"} /\ Fire(d, mode, val)
                         /\ mode = "err" => val = "other"
    BY DEF Reply, OtherFault
  <1>2. /\ stack = <<>> /\ d \in pending /\ d \in built /\ ~crashed' /\ d \notin is_firing
        /\ UNCHANGED <<built, callbacks>> /\ sent' = sent
        /\ stack' = <<[dfr |-> d, mode |-> mode, val |-> val]>>
    <2>1. Append(<<>>, [dfr |-> d, mode |-> mode, val |-> val])
            = <<[dfr |-> d, mode |-> mode, val |-> val]>>
      OBVIOUS
    <2> QED BY <1>1, <2>1 DEF Fire, Enter, Idle, EngineOK, DInv, PendingSound, Reply, OtherFault
  <1>3. stack' # <<>> /\ Top' = [dfr |-> d, mode |-> mode, val |-> val] /\ Base' = d
    BY <1>2 DEF Top, Depth, Base
  <1>4. SendsAt(im, d, 0)
    BY <1>2 DEF SendsAt, Waiting
  <1>5. 0 \in Nat /\ \A s \in {0, 1}, k \in Nat : /\ k + s \in Nat
                                                  /\ k # 0 => k + s # 0
    OBVIOUS
  <1>6. ~Accepted(im) /\ im \in sent
    BY <1>0, <1>4, <1>5 DEF AcceptedEnds, UnsentAbsent
  <1>7. NoNewEnd(im) /\ NoNewSender(im)
    BY <1>2 DEF NoNewEnd, NoNewSender
  <1>8. /\ OneSender(im)' /\ EndAfterSender(im)'
        /\ OneEnd(im)' /\ (Ended(im) => Ended(im)')
    BY <1>0, <1>7, OnceOld, EndOld
  <1>9. \A e \in Deferreds : \A k \in Nat : ~SendsAt(im, e, k)'
    <2> SUFFICES ASSUME NEW e \in Deferreds, NEW k \in Nat, SendsAt(im, e, k)'
                 PROVE  FALSE
      OBVIOUS
    <2>1. e \in built' /\ e \in built
      BY <1>2 DEF SendsAt, Waiting, EngineOK, DInv, PendingSound
    <2>2. k + Shift(e) \in Nat /\ (k # 0 => k + Shift(e) # 0)
      BY <1>5, <2>1, QueueMoves
    <2>3. /\ k = 0 => SendsAt(im, e, 0)
          /\ k # 0 => SendsAt(im, e, k + Shift(e))
      BY <2>1, SenderWas
    <2>4. k = 0
      BY <1>0, <1>4, <1>5, <2>2, <2>3 DEF OneSender
    <2>5. e = d
      BY <1>0, <1>4, <1>5, <2>3, <2>4 DEF OneSender
    <2>6. ~Waiting(d)' /\ 0 \notin DOMAIN callbacks'[d]
      BY <1>3 DEF Waiting, EngineOK, DInv, DTypeOK
    <2> QED BY <2>4, <2>5, <2>6 DEF SendsAt
  <1>10. Ended(im)' \/ Takes(im)'
    <2>1. ASSUME NEW p \in Seq(Deferreds), Way(im, p, d, 0 + 1)
          PROVE  Takes(im)'
      <3>1. Shift(d) = 0
        BY <1>2 DEF Shift
      <3>2. Way(im, p, d, 1 + Shift(d)) /\ 1 \in Nat \ {0}
        <4>1. 0 + 1 = 1 + 0 /\ 1 \in Nat \ {0}
          OBVIOUS
        <4> QED BY <2>1, <3>1, <4>1
      <3>3. Way(im, p, d, 1)'
        BY <1>2, <3>2, WayKept
      <3>4. Way(im, p, Top.dfr, 1)'
        BY <1>3, <3>3
      <3> QED BY <1>1, <1>2, <1>3, <3>4 DEF Takes, Running
    <2> QED BY <1>0, <1>4, <1>5, <1>8, <2>1 DEF EndAfterSender
  <1>11. AcceptedEnds(im)' /\ UnsentAbsent(im)'
    BY <1>2, <1>6, <1>9, <1>10 DEF AcceptedEnds, UnsentAbsent
  <1> QED BY <1>6, <1>8, <1>11 DEF Once

MOnce == AcceptedOnce /\ \A im \in Ims : Once(im)

(* What the answers do to the list of accepted messages.                   *)
LEMMA AnswerKinds ==
  ASSUME TypedMessages, NEW d \in Deferreds, Reply(d) \/ ExpiredReply(d) \/ OtherFault(d)
  PROVE  /\ built' = built /\ sent' = sent
         /\ \/ accepted' = accepted
            \/ /\ Reply(d) \/ OtherFault(d)
               /\ request[d][1] = "message"
               /\ accepted' = Append(accepted, <<request[d][3], request[d][2]>>)
  BY DEF Reply, ExpiredReply, OtherFault, Accept, Fire

(* Every step keeps the one sender, and the one acceptance.                *)
LEMMA MOnceStep ==
  ASSUME EngineOK, EngineOK', [DNext]_dvars, TypedSessions, TypedMessages, TypedRequests,
         MOnce, [MNext]_mvars, Uses
  PROVE  MOnce'
  <1>0. Tables
    BY UsesTables
  <1>1. ASSUME NEW u \in Users, NEW im \in Ims, SendIm(u, im), NEW x \in Ims
        PROVE  Once(x)'
    <2>1. accepted' = accepted
      BY <1>1 DEF SendIm
    <2>2. CASE \E v \in Users : SendIm(v, x)
      BY <1>0, <2>1, <2>2, OnceSent DEF MOnce
    <2>3. CASE ~\E v \in Users : SendIm(v, x)
      <3>1. Events
        BY <1>1 DEF Events
      <3>2. /\ NoNewSender(x) /\ NoNewEnd(x) /\ (x \in sent' <=> x \in sent)
        BY <2>3, <3>1, OtherEvents
      <3>3. Accepted(x)' <=> Accepted(x)
        BY <2>1 DEF Accepted
      <3> QED BY <1>0, <2>1, <3>2, <3>3, OncePlain DEF MOnce
    <2> QED BY <2>2, <2>3
  <1>2. ASSUME Events, ~\E u \in Users, im \in Ims : SendIm(u, im), NEW x \in Ims
        PROVE  Once(x)'
    <2>1. /\ NoNewSender(x) /\ NoNewEnd(x) /\ (x \in sent' <=> x \in sent) /\ accepted' = accepted
      BY <1>2, OtherEvents
    <2>2. Accepted(x)' <=> Accepted(x)
      BY <2>1 DEF Accepted
    <2> QED BY <1>0, <2>1, <2>2, OncePlain DEF MOnce
  <1>3. ASSUME Handlers \/ RunEngine \/ UNCHANGED mvars, NEW x \in Ims
        PROVE  Once(x)'
    <2>1. /\ sent' = sent /\ accepted' = accepted
          /\ \/ NoNewSender(x) /\ NoNewEnd(x)
             \/ \E n \in Deferreds, call \in SendCalls :
                  call[4] = x /\ (Refreshes(n, call) \/ MakesCall(n, call))
      BY <1>0, <1>3, OtherSteps
    <2>2. CASE NoNewSender(x) /\ NoNewEnd(x)
      <3>1. Accepted(x)' <=> Accepted(x)
        BY <2>1 DEF Accepted
      <3> QED BY <1>0, <2>1, <2>2, <3>1, OncePlain DEF MOnce
    <2>3. ASSUME NEW n \in Deferreds, NEW call \in SendCalls, call[4] = x,
                 Refreshes(n, call) \/ MakesCall(n, call)
          PROVE  Once(x)'
      <3>1. Once(x)
        BY DEF MOnce
      <3> QED BY <1>0, <2>1, <2>3, <3>1, OnceRefreshed, OnceCalled
    <2> QED BY <2>1, <2>2, <2>3
  <1>4. accepted' = accepted => AcceptedOnce'
    BY DEF MOnce, AcceptedOnce
  <1>5. ASSUME NEW d \in Deferreds, Reply(d) \/ ExpiredReply(d) \/ OtherFault(d)
        PROVE  MOnce'
    <2>1. built' = built /\ sent' = sent
      BY <1>5, AnswerKinds
    <2>2. ASSUME NEW x \in Ims, Accepted(x)' <=> Accepted(x)
          PROVE  Once(x)'
      <3>1. NoNewSender(x) /\ NoNewEnd(x)
        BY <2>1 DEF NoNewSender, NoNewEnd
      <3> QED BY <1>0, <2>1, <2>2, <3>1, OncePlain DEF MOnce
    <2>3. CASE accepted' = accepted
      <3>1. \A x : Accepted(x)' <=> Accepted(x)
        BY <2>3 DEF Accepted
      <3> QED BY <1>4, <2>2, <2>3, <3>1 DEF MOnce
    <2>4. CASE /\ Reply(d) \/ OtherFault(d)
               /\ request[d][1] = "message"
               /\ accepted' = Append(accepted, <<request[d][3], request[d][2]>>)
      <3>1. PICK im : im = request[d][3]
        OBVIOUS
      <3>2. im \in Ims
        <4>1. d \in pending
          BY <2>4 DEF Reply, OtherFault, Fire
        <4>2. request[d] \in Requests
          BY <4>1 DEF TypedRequests
        <4> QED BY <2>4, <3>1, <4>2 DEF Requests
      <3>3. /\ accepted \in Seq(Ims \X SessionIds) /\ Len(accepted) \in Nat
            /\ DOMAIN accepted' = 1..(Len(accepted) + 1) /\ DOMAIN accepted = 1..Len(accepted)
            /\ \A i \in DOMAIN accepted : accepted'[i] = accepted[i]
            /\ accepted'[Len(accepted) + 1][1] = im
        BY <2>4, <3>1 DEF TypedMessages
      <3>4. \A m \in Nat : \A i \in 1..(m + 1) : i \in 1..m \/ i = m + 1
        OBVIOUS
      <3>5. /\ \A i \in DOMAIN accepted' : i \in DOMAIN accepted \/ i = Len(accepted) + 1
            /\ Len(accepted) + 1 \in DOMAIN accepted'
            /\ \A i \in DOMAIN accepted : i \in DOMAIN accepted'
        <4>1. \A m \in Nat : m + 1 \in 1..(m + 1) /\ \A i \in 1..m : i \in 1..(m + 1)
          OBVIOUS
        <4> QED BY <3>3, <3>4, <4>1
      <3>6. Accepted(im)' /\ \A x : x # im => (Accepted(x)' <=> Accepted(x))
        BY <3>3, <3>5 DEF Accepted
      <3>7. Once(im)' /\ ~Accepted(im)
        BY <1>0, <2>4, <3>1, <3>2, <3>6, OnceAccepted DEF MOnce
      <3>8. AcceptedOnce'
        BY <3>3, <3>5, <3>7 DEF MOnce, AcceptedOnce, Accepted
      <3>9. \A x \in Ims : Once(x)'
        BY <2>2, <3>6, <3>7
      <3> QED BY <3>8, <3>9 DEF MOnce
    <2> QED BY <1>5, <2>3, <2>4, AnswerKinds
  <1>6. Events \/ Handlers \/ RunEngine \/ UNCHANGED mvars => accepted' = accepted
    <2>1. Events => accepted' = accepted
      BY DEF Events, SendIm, MarkAsRead, MessageReceived, SessionCreated, RefreshContacts
    <2> QED BY <1>0, <2>1, OtherSteps
  <1>7. ASSUME accepted' = accepted, \A x \in Ims : Once(x)'
        PROVE  MOnce'
    BY <1>4, <1>7 DEF MOnce
  <1> QED BY <1>1, <1>2, <1>3, <1>5, <1>6, <1>7 DEF MNext, Answers

(* The server accepts a message of the user at most once, however often    *)
(* tokens expire, calls are repeated and answers come too late: what is    *)
(* sent again had been refused.                                            *)
THEOREM MessagesAcceptedOnce == MSpec => []AcceptedOnce
  <1>1. MInit => MOnce
    <2> SUFFICES ASSUME MInit
                 PROVE  MOnce
      OBVIOUS
    <2>1. built = {} /\ pending = {} /\ accepted = <<>> /\ DOMAIN accepted = {}
      BY DEF MInit, DInit
    <2>2. \A im : /\ \A d \in Deferreds : \A k \in Nat : ~SendsAt(im, d, k)
                  /\ Ended(im) /\ ~Accepted(im)
                  /\ \A d \in Deferreds : \A k \in Nat : ~EndsAt(im, d, k)
      BY <2>1 DEF SendsAt, Waiting, EndsAt, Ended, Accepted
    <2>3. \A im : Once(im)
      BY <2>2 DEF Once, OneSender, OneEnd, EndAfterSender, AcceptedEnds, UnsentAbsent
    <2> QED BY <2>1, <2>3 DEF MOnce, AcceptedOnce
  <1>2. MInv /\ MInv' /\ MOnce /\ [MNext]_mvars => MOnce'
    <2>1. MInv /\ [MNext]_mvars => [DNext]_dvars
      BY MInvStep
    <2> QED BY <2>1, MOnceStep, StepsUse DEF MInv
  <1>3. MOnce => AcceptedOnce
    BY DEF MOnce
  <1> QED BY <1>1, <1>2, <1>3, MInvAlways, PTL DEF MSpec
=============================================================================
