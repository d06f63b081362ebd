--------------------------- MODULE DeferredProofs ---------------------------
(***************************************************************************)
(* Safety of the deferred engine for any number of deferreds, any handlers *)
(* and any queues of callback pairs.                                       *)
(***************************************************************************)
EXTENDS Deferred, TLAPS

(* A deferred that a handle pair resumes has begun to fire, has not        *)
(* finished and is not running.                                            *)
HandlesAwaited ==
  \A d, e \in Deferreds : \A i \in DOMAIN callbacks[e] :
    WaitsAt(d, e, i) => Suspended(d)

(* No two handle pairs of allocated deferreds resume the same deferred.    *)
HandlesUnique ==
  \A d, e1, e2 \in Deferreds :
    \A i1 \in DOMAIN callbacks[e1], i2 \in DOMAIN callbacks[e2] :
      WaitsAt(d, e1, i1) /\ WaitsAt(d, e2, i2) => e1 = e2 /\ i1 = i2

(* Every suspended deferred is resumed by a handle pair.                   *)
SuspendedAwaited ==
  \A d \in built :
    Suspended(d) => \E e \in built : \E i \in DOMAIN callbacks[e] :
                      WaitsAt(d, e, i)

(* An activation runs an allocated deferred that has not finished, and no  *)
(* deferred runs twice at a time.                                          *)
StackSound ==
  /\ \A i \in DOMAIN stack : stack[i].dfr \in (built \cap is_firing) \ fired
  /\ \A i, j \in DOMAIN stack : stack[i].dfr = stack[j].dfr => i = j

(* A request in flight has not begun to fire, but for the one whose event  *)
(* is being handled.                                                       *)
PendingSound ==
  /\ pending \subseteq built
  /\ \A d \in pending \cap is_firing : stack # <<>> /\ d = Base

DInv ==
  /\ DTypeOK
  /\ ~crashed
  /\ fired \cap built \subseteq is_firing
  /\ StackSound
  /\ PendingSound
  /\ HandlesAwaited
  /\ HandlesUnique
  /\ SuspendedAwaited

-----------------------------------------------------------------------------
(* Popping a queue: Tail drops the first pair and shifts the others.       *)
LEMMA TailProperties ==
  ASSUME NEW S, NEW q \in Seq(S), q # <<>>
  PROVE  /\ Len(q) \in Nat \ {0}
         /\ 1 \in DOMAIN q
         /\ Head(q) = q[1]
         /\ Head(q) \in S
         /\ Tail(q) \in Seq(S)
         /\ DOMAIN Tail(q) = 1..(Len(q) - 1)
         /\ \A i \in 1..(Len(q) - 1) : Tail(q)[i] = q[i + 1] /\ i + 1 \in DOMAIN q
  OBVIOUS

(* A function on an initial interval is a sequence.                        *)
LEMMA SequenceFromFunction ==
  ASSUME NEW S, NEW n \in Nat, NEW f \in [1..n -> S]
  PROVE  f \in Seq(S) /\ Len(f) = n /\ DOMAIN f = 1..n
  OBVIOUS

(* Concatenation: the places of the first sequence, then of the second.    *)
LEMMA ConcatProperties ==
  ASSUME NEW S, NEW q \in Seq(S), NEW r \in Seq(S)
  PROVE  /\ DOMAIN (q \o r) = 1..(Len(q) + Len(r))
         /\ \A i \in 1..Len(q) : (q \o r)[i] = q[i]
         /\ \A j \in 1..Len(r) : (q \o r)[Len(q) + j] = r[j]
  OBVIOUS

(* A running engine has an innermost and an outermost activation.          *)
LEMMA RunningFrames ==
  ASSUME DTypeOK, Running
  PROVE  /\ Depth \in Nat \ {0}
         /\ DOMAIN stack = 1..Depth
         /\ 1 \in 1..Depth /\ Depth \in 1..Depth
         /\ Top \in Frame
         /\ Top.dfr \in Deferreds /\ Top.mode \in {"cb", "err"} /\ Top.val \in Result
         /\ Base \in Deferreds
         /\ Current \in Seq(Pair)
         /\ \A i \in 1..Depth : stack[i] \in Frame /\ stack[i].dfr \in Deferreds
  <1>1. stack \in Seq(Frame) /\ stack # <<>>
    BY DEF DTypeOK, Running
  <1>2. Depth \in Nat \ {0} /\ DOMAIN stack = 1..Depth
    BY <1>1 DEF Depth
  <1>3. 1 \in 1..Depth /\ Depth \in 1..Depth
    BY <1>2
  <1>4. stack[1] \in Frame /\ stack[Depth] \in Frame
    BY <1>1, <1>2, <1>3
  <1>5. /\ Top.dfr \in Deferreds /\ Top.mode \in {"cb", "err"} /\ Top.val \in Result
        /\ Base \in Deferreds
    BY <1>4 DEF Top, Base, Frame
  <1>6. Current \in Seq(Pair)
    BY <1>5 DEF DTypeOK, Current
  <1>7. \A i \in 1..Depth : stack[i] \in Frame
    BY <1>1, <1>2
  <1>8. \A i \in 1..Depth : stack[i].dfr \in Deferreds
    BY <1>7 DEF Frame
  <1> QED
    BY <1>7, <1>8, <1>2, <1>3, <1>4, <1>5, <1>6 DEF Top

(* Popping keeps the table of queues a table of queues of pairs.           *)
LEMMA PoppedType ==
  ASSUME DTypeOK, Running, Current # <<>>
  PROVE  /\ Popped \in [Deferreds -> Seq(Pair)]
         /\ Head(Current) \in Pair
  BY RunningFrames, TailProperties DEF DTypeOK, Popped, Current

(* Going on with a new result keeps the activations typed.                 *)
LEMMA GoOnType ==
  ASSUME DTypeOK, Running, NEW m \in {"cb", "err"}, NEW v \in Result, GoOn(m, v)
  PROVE  stack' \in Seq(Frame)
  BY RunningFrames DEF DTypeOK, GoOn, Frame

(* Entering a deferred keeps the activations typed.                        *)
LEMMA EnterType ==
  ASSUME DTypeOK, NEW d \in Deferreds, NEW m \in {"cb", "err"},
         NEW v \in Result, Enter(d, m, v)
  PROVE  /\ stack' \in Seq(Frame)
         /\ is_firing' \subseteq Deferreds
         /\ crashed' \in BOOLEAN
  <1>1. [dfr |-> d, mode |-> m, val |-> v] \in Frame
    BY DEF Frame
  <1>2. Append(stack, [dfr |-> d, mode |-> m, val |-> v]) \in Seq(Frame)
    BY <1>1 DEF DTypeOK
  <1>3. stack' \in Seq(Frame)
    BY <1>2 DEF DTypeOK, Enter
  <1>4. is_firing' \subseteq Deferreds
    BY DEF DTypeOK, Enter
  <1>5. crashed' \in BOOLEAN
    BY DEF DTypeOK, Enter
  <1> QED
    BY <1>3, <1>4, <1>5

(* Every pair that a chain appends is the handle pair of an activation.    *)
LEMMA HandlePairsType ==
  ASSUME DTypeOK, Running
  PROVE  /\ HandlePairs \in Seq(Pair)
         /\ Len(HandlePairs) = Depth
         /\ \A i \in 1..Depth : /\ Depth + 1 - i \in DOMAIN stack
                                /\ HandlePairs[i] = HandlePair(stack[Depth + 1 - i].dfr)
  <1>1. \A i \in 1..Depth : Depth + 1 - i \in 1..Depth
    BY RunningFrames
  <1>2. \A i \in 1..Depth : HandlePair(stack[Depth + 1 - i].dfr) \in Pair
    BY <1>1, RunningFrames DEF Pair
  <1>3. HandlePairs \in [1..Depth -> Pair]
    BY <1>2 DEF HandlePairs
  <1>4. Depth \in Nat
    BY RunningFrames
  <1>5. HandlePairs \in Seq(Pair) /\ Len(HandlePairs) = Depth
    BY <1>3, <1>4, SequenceFromFunction
  <1> QED
    BY <1>1, <1>5, RunningFrames DEF HandlePairs

(* Initially and after every step the state is typed.                      *)
LEMMA TypeInit == DInit => DTypeOK
  <1> <<>> \in Seq(Pair) /\ <<>> \in Seq(Frame)
    OBVIOUS
  <1> QED
    BY DEF DInit, DTypeOK

(* Queues that Build makes are well-typed.                                 *)
LEMMA TypeBuild ==
  ASSUME DTypeOK, NEW d \in Deferreds, NEW chain \in Chains,
         NEW registered \in BOOLEAN, Build(d, chain, registered)
  PROVE  DTypeOK'
  <1>1. chain \in Seq(Pair)
    BY CallbacksAssumption DEF Pair
  <1> QED
    BY <1>1 DEF Build, Allocate, DTypeOK

(* Firing a request in flight keeps the types: a frame is pushed.          *)
LEMMA TypeFire ==
  ASSUME DTypeOK, NEW d \in Deferreds, NEW m \in {"cb", "err"},
         NEW v \in Result, Fire(d, m, v)
  PROVE  DTypeOK'
  BY EnterType DEF Fire, DTypeOK

(* Resuming the outer deferred keeps the types: HandlePair names it.       *)
LEMMA TypeResume ==
  ASSUME DTypeOK, Resume
  PROVE  DTypeOK'
  <1>1. Running /\ Current # <<>> /\ Handler = HANDLE
    BY DEF Resume
  <1>2. Head(Current).user_data \in Deferreds
    <2>1. Head(Current) \in Pair
      BY <1>1, PoppedType
    <2>2. Head(Current).cb = HANDLE \/ Head(Current).err = HANDLE
      BY <1>1 DEF Handler
    <2> QED
      BY <2>1, <2>2, CallbacksAssumption DEF Pair, UserPair, HandlePair
  <1>3. Top.mode \in {"cb", "err"} /\ Top.val \in Result
    BY <1>1, RunningFrames
  <1>4. Enter(Head(Current).user_data, Top.mode, Top.val)
    BY DEF Resume
  <1>5. /\ stack' \in Seq(Frame)
        /\ is_firing' \subseteq Deferreds
        /\ crashed' \in BOOLEAN
    BY <1>2, <1>3, <1>4, EnterType
  <1>6. callbacks' \in [Deferreds -> Seq(Pair)]
    BY <1>1, PoppedType DEF Resume
  <1> QED
    BY <1>5, <1>6 DEF Resume, DTypeOK

(* Skipping a pair without a handler keeps the types.                      *)
LEMMA TypeSkipPair ==
  ASSUME DTypeOK, SkipPair
  PROVE  DTypeOK'
  BY PoppedType DEF SkipPair, DTypeOK

(* A response keeps the types: the innermost frame is replaced.            *)
LEMMA TypeRespond ==
  ASSUME DTypeOK, Respond
  PROVE  DTypeOK'
  <1>1. Running /\ Current # <<>>
    BY DEF Respond, InHandler
  <1>2. stack' \in Seq(Frame)
    BY <1>1, GoOnType DEF Respond, Result
  <1> QED
    BY <1>1, <1>2, PoppedType DEF Respond, DTypeOK

(* A fault keeps the types, whether or not the pair goes back.             *)
LEMMA TypeFault ==
  ASSUME DTypeOK, NEW f \in Faults, Fault(f)
  PROVE  DTypeOK'
  <1>1. Running /\ Current # <<>>
    BY DEF Fault, InHandler
  <1>2. stack' \in Seq(Frame)
    BY <1>1, GoOnType DEF Fault, Result
  <1>3. callbacks' \in [Deferreds -> Seq(Pair)]
    BY <1>1, PoppedType DEF Fault, FaultedQueue, DTypeOK
  <1> QED
    BY <1>2, <1>3 DEF Fault, DTypeOK

(* A returned deferred gets a queue of pairs: user pairs, then handles.    *)
LEMMA TypeChain ==
  ASSUME DTypeOK, NEW d \in Deferreds, NEW chain \in Chains,
         NEW registered \in BOOLEAN, Chain(d, chain, registered)
  PROVE  DTypeOK'
  <1>1. Running /\ Current # <<>>
    BY DEF Chain, InHandler
  <1>2. chain \in Seq(Pair)
    BY CallbacksAssumption DEF Pair
  <1>3. chain \o HandlePairs \in Seq(Pair)
    BY <1>1, <1>2, HandlePairsType
  <1>4. callbacks' \in [Deferreds -> Seq(Pair)]
    BY <1>1, <1>3, PoppedType DEF Chain
  <1>5. pending' \subseteq Deferreds
    BY DEF Chain, Answered, DTypeOK
  <1>6. stack' \in Seq(Frame)
    BY DEF Chain
  <1> QED
    BY <1>4, <1>5, <1>6 DEF Chain, Allocate, DTypeOK

(* The end of an inner queue keeps the types.                              *)
LEMMA TypeFinishInner ==
  ASSUME DTypeOK, FinishInner
  PROVE  DTypeOK'
  <1>1. Running /\ Depth > 1
    BY DEF FinishInner
  <1> DEFINE n == Depth - 1
             below(i) == IF i = n
                         THEN [dfr |-> stack[i].dfr, mode |-> "cb", val |-> Top.val]
                         ELSE stack[i]
  <1>2. n \in Nat /\ \A i \in 1..n : i \in 1..Depth
    BY <1>1, RunningFrames
  <1>3. \A i \in 1..n : below(i) \in Frame
    BY <1>1, <1>2, RunningFrames DEF Frame
  <1>4. stack' = [i \in 1..n |-> below(i)]
    BY DEF FinishInner
  <1>5. stack' \in Seq(Frame)
    BY <1>2, <1>3, <1>4, SequenceFromFunction
  <1> QED
    BY <1>1, <1>5, RunningFrames DEF FinishInner, DTypeOK

(* The end of the event keeps the types.                                   *)
LEMMA TypeFinishBase ==
  ASSUME DTypeOK, FinishBase
  PROVE  DTypeOK'
  <1>1. Running
    BY DEF FinishBase
  <1>2. stack' \in Seq(Frame)
    BY DEF FinishBase
  <1> QED
    BY <1>1, <1>2, RunningFrames DEF FinishBase, Answered, DTypeOK

(* Every step of the engine and of its users keeps the types.              *)
LEMMA TypeStep == DTypeOK /\ [DNext]_dvars => DTypeOK'
  <1> SUFFICES ASSUME DTypeOK, [DNext]_dvars
               PROVE  DTypeOK'
    OBVIOUS
  <1>1. ASSUME NEW d \in Deferreds, NEW chain \in Chains, NEW r \in BOOLEAN,
               Build(d, chain, r)
        PROVE  DTypeOK'
    BY <1>1, TypeBuild
  <1>2. ASSUME NEW d \in Deferreds, Fire(d, "cb", RESPONSE)
        PROVE  DTypeOK'
    BY <1>2, TypeFire DEF Result
  <1>3. ASSUME NEW d \in Deferreds, NEW f \in Faults, Fire(d, "err", f)
        PROVE  DTypeOK'
    BY <1>3, TypeFire DEF Result
  <1>4. CASE UserCode
    BY <1>4, TypeRespond, TypeFault, TypeChain DEF UserCode
  <1>5. CASE Engine
    BY <1>5, TypeSkipPair, TypeResume, TypeFinishInner, TypeFinishBase DEF Engine
  <1>6. CASE DropPending
    BY <1>6 DEF DropPending, DTypeOK
  <1>7. CASE UNCHANGED dvars
    BY <1>7 DEF dvars, DTypeOK
  <1> QED
    BY <1>1, <1>2, <1>3, <1>4, <1>5, <1>6, <1>7 DEF DNext

(* The state of the engine and of its table is always typed.               *)
THEOREM TypeCorrect == DSpec => []DTypeOK
  <1>1. DInit => DTypeOK
    BY TypeInit
  <1>2. DTypeOK /\ [DNext]_dvars => DTypeOK'
    BY TypeStep
  <1> QED
    BY <1>1, <1>2, PTL DEF DSpec

-----------------------------------------------------------------------------
(* A pair is a handle pair in both of its members or in neither.           *)
LEMMA PairKinds ==
  ASSUME NEW p \in Pair
  PROVE  \/ /\ p.user_data \in Deferreds
            /\ p = HandlePair(p.user_data)
            /\ p.cb = HANDLE /\ p.err = HANDLE
         \/ /\ p \in UserPair
            /\ p.cb # HANDLE /\ p.err # HANDLE
            /\ \A d : p # HandlePair(d)
  BY CallbacksAssumption DEF Pair, UserPair, HandlePair

(* User code builds no handle pairs.                                       *)
LEMMA UserPairIsNoHandle ==
  ASSUME NEW p \in UserPair, NEW d
  PROVE  p # HandlePair(d) /\ p.cb # HANDLE /\ p.err # HANDLE
  BY CallbacksAssumption DEF UserPair, HandlePair

(* Handle pairs of different deferreds differ.                             *)
LEMMA HandlePairInjective ==
  ASSUME NEW d1, NEW d2, HandlePair(d1) = HandlePair(d2)
  PROVE  d1 = d2
  BY DEF HandlePair

(* A waiting place is a place in a queue, and its target a deferred.       *)
LEMMA HandlePlace ==
  ASSUME NEW B \in SUBSET Deferreds, NEW C \in [Deferreds -> Seq(Pair)],
         NEW d, NEW e \in B, NEW i \in DOMAIN C[e], C[e][i] = HandlePair(d)
  PROVE  e \in Deferreds /\ i \in Nat \ {0} /\ d \in Deferreds
  <1>1. C[e] \in Seq(Pair)
    OBVIOUS
  <1>2. i \in Nat \ {0} /\ C[e][i] \in Pair
    BY <1>1
  <1>3. C[e][i].user_data \in Deferreds
    BY <1>2, PairKinds
  <1> QED
    BY <1>2, <1>3 DEF HandlePair

(* A deferred waits where a queue holds its handle pair.                   *)
LEMMA WaitsAtPlace ==
  ASSUME DTypeOK, NEW d, NEW e, NEW i, WaitsAt(d, e, i)
  PROVE  /\ e \in built /\ e \in Deferreds /\ d \in Deferreds
         /\ i \in DOMAIN callbacks[e] /\ i \in Nat \ {0}
  BY HandlePlace DEF WaitsAt, DTypeOK

(* The same in the next state.                                             *)
LEMMA WaitsAtPlaceNext ==
  ASSUME DTypeOK', NEW d, NEW e, NEW i, WaitsAt(d, e, i)'
  PROVE  /\ e \in built' /\ e \in Deferreds /\ d \in Deferreds
         /\ i \in DOMAIN callbacks'[e] /\ i \in Nat \ {0}
  BY HandlePlace DEF WaitsAt, DTypeOK

(* Popping moves the waiting places of the innermost activation's queue    *)
(* up by one and leaves all others.                                        *)
LEMMA WaitsAfterPop ==
  ASSUME DTypeOK, Running, Current # <<>>, callbacks' = Popped, built' = built,
         NEW d \in Deferreds, NEW e \in Deferreds, NEW i \in Nat \ {0}
  PROVE  WaitsAt(d, e, i)' <=> WaitsAt(d, e, IF e = Top.dfr THEN i + 1 ELSE i)
  <1>1. CASE e = Top.dfr
    <2>1. callbacks'[e] = Tail(Current) /\ callbacks[e] = Current
      BY <1>1 DEF Popped, Current, DTypeOK
    <2>2. /\ DOMAIN Tail(Current) = 1..(Len(Current) - 1)
          /\ \A j \in 1..(Len(Current) - 1) : Tail(Current)[j] = Current[j + 1]
          /\ DOMAIN Current = 1..Len(Current)
          /\ Len(Current) \in Nat
      BY RunningFrames, TailProperties
    <2>3. i \in DOMAIN Tail(Current) <=> i + 1 \in DOMAIN Current
      BY <2>2
    <2> QED
      BY <1>1, <2>1, <2>2, <2>3 DEF WaitsAt
  <1>2. CASE e # Top.dfr
    <2>1. callbacks'[e] = callbacks[e]
      BY <1>2 DEF Popped, DTypeOK
    <2> QED
      BY <1>2, <2>1 DEF WaitsAt
  <1> QED
    BY <1>1, <1>2

(* A turn that pops a user pair, or puts it back, and goes on with the     *)
(* same activations keeps the invariant.                                   *)
LEMMA InvUserTurn ==
  ASSUME DInv, DTypeOK', Running, Current # <<>>, Head(Current) \in UserPair,
         callbacks' \in {callbacks, Popped},
         UNCHANGED <<built, is_firing, fired, pending, crashed>>,
         DOMAIN stack' = DOMAIN stack,
         \A i \in DOMAIN stack : stack'[i].dfr = stack[i].dfr
  PROVE  DInv'
  <1> USE DEF DInv
  <1>1. \A d : OnStack(d)' <=> OnStack(d)
    BY DEF OnStack
  <1>2. \A d : Suspended(d)' <=> Suspended(d)
    BY <1>1 DEF Suspended
  <1>3. StackSound'
    BY DEF StackSound
  <1>4. PendingSound'
    <2>1. stack' # <<>> /\ Base' = Base
      BY RunningFrames DEF Base
    <2> QED
      BY <2>1 DEF PendingSound
  <1>5. CASE callbacks' = callbacks
    <2>1. \A d, e, i : WaitsAt(d, e, i)' <=> WaitsAt(d, e, i)
      BY <1>5 DEF WaitsAt
    <2> QED
      BY <1>2, <1>3, <1>4, <1>5, <2>1
         DEF HandlesAwaited, HandlesUnique, SuspendedAwaited
  <1>6. CASE callbacks' = Popped
    <2> DEFINE from(e, i) == IF e = Top.dfr THEN i + 1 ELSE i
    <2>1. \A d, e \in Deferreds : \A i \in Nat \ {0} :
            WaitsAt(d, e, i)' <=> WaitsAt(d, e, from(e, i))
      BY <1>6, WaitsAfterPop
    <2>2. \A d, e, i : WaitsAt(d, e, i)' =>
            /\ d \in Deferreds /\ e \in Deferreds /\ i \in Nat \ {0}
            /\ e \in built /\ WaitsAt(d, e, from(e, i))
      <3> SUFFICES ASSUME NEW d, NEW e, NEW i, WaitsAt(d, e, i)'
                   PROVE  /\ d \in Deferreds /\ e \in Deferreds /\ i \in Nat \ {0}
                          /\ e \in built /\ WaitsAt(d, e, from(e, i))
        OBVIOUS
      <3>1. /\ e \in built' /\ e \in Deferreds /\ d \in Deferreds
            /\ i \in Nat \ {0}
        BY WaitsAtPlaceNext
      <3> QED
        BY <3>1, <2>1
    <2>3. HandlesAwaited'
      BY <1>2, <2>2, WaitsAtPlace DEF HandlesAwaited
    <2>4. HandlesUnique'
      <3> SUFFICES ASSUME NEW d, NEW e1, NEW e2, NEW i1, NEW i2,
                          WaitsAt(d, e1, i1)', WaitsAt(d, e2, i2)'
                   PROVE  e1 = e2 /\ i1 = i2
        BY DEF HandlesUnique
      <3>1. WaitsAt(d, e1, from(e1, i1)) /\ WaitsAt(d, e2, from(e2, i2))
        BY <2>2
      <3>2. e1 = e2 /\ from(e1, i1) = from(e2, i2)
        BY <3>1, WaitsAtPlace DEF HandlesUnique
      <3>3. i1 \in Nat /\ i2 \in Nat
        BY <2>2
      <3> QED
        BY <3>2, <3>3
    <2>5. SuspendedAwaited'
      <3> SUFFICES ASSUME NEW d \in built, Suspended(d)
                   PROVE  \E e \in built : \E i \in DOMAIN callbacks'[e] :
                            WaitsAt(d, e, i)'
        BY <1>2 DEF SuspendedAwaited
      <3>1. PICK e \in built : \E i \in DOMAIN callbacks[e] : WaitsAt(d, e, i)
        BY DEF SuspendedAwaited
      <3>2. PICK i \in DOMAIN callbacks[e] : WaitsAt(d, e, i)
        BY <3>1
      <3>3. d \in Deferreds /\ e \in Deferreds /\ i \in Nat \ {0}
        BY <3>2, WaitsAtPlace
      <3>4. e = Top.dfr => i # 1
        <4>1. Current[1] = Head(Current)
          BY RunningFrames, TailProperties
        <4>2. Current[1] # HandlePair(d)
          BY <4>1, UserPairIsNoHandle
        <4> QED
          BY <3>2, <4>2 DEF WaitsAt, Current
      <3>5. PICK j \in Nat \ {0} : from(e, j) = i
        <4>1. /\ e = Top.dfr => i - 1 \in Nat \ {0} /\ from(e, i - 1) = i
              /\ e # Top.dfr => from(e, i) = i
          BY <3>3, <3>4
        <4> QED
          BY <3>3, <4>1
      <3>6. WaitsAt(d, e, j)'
        <4>1. WaitsAt(d, e, from(e, j))
          BY <3>2, <3>5
        <4> QED
          BY <4>1, <3>3, <2>1
      <3> QED
        BY <3>6, WaitsAtPlaceNext
    <2> QED
      BY <1>3, <1>4, <2>3, <2>4, <2>5
  <1> QED
    BY <1>5, <1>6
(* A pair whose member for the mode is no handle is a user pair.           *)
LEMMA UserHandler ==
  ASSUME DTypeOK, Running, Current # <<>>, Handler # HANDLE
  PROVE  Head(Current) \in UserPair
  BY PoppedType, PairKinds DEF Handler

(* Going on replaces the innermost activation by one of the same deferred. *)
LEMMA GoOnSameDeferreds ==
  ASSUME DTypeOK, Running, NEW m, NEW v, GoOn(m, v)
  PROVE  /\ DOMAIN stack' = DOMAIN stack
         /\ \A i \in DOMAIN stack : stack'[i].dfr = stack[i].dfr
  BY RunningFrames DEF GoOn, Top

(* Skipping a user pair disturbs no handle pair.                           *)
LEMMA InvSkipPair == DInv /\ SkipPair => DInv'
  <1> SUFFICES ASSUME DInv, SkipPair
               PROVE  DInv'
    OBVIOUS
  <1>1. DTypeOK /\ DTypeOK'
    BY TypeSkipPair DEF DInv
  <1>2. Running /\ Current # <<>> /\ Head(Current) \in UserPair
    BY <1>1, UserHandler, CallbacksAssumption DEF SkipPair
  <1> QED
    BY <1>1, <1>2, InvUserTurn DEF SkipPair

(* A response pops a user pair and changes no activation.                  *)
LEMMA InvRespond == DInv /\ Respond => DInv'
  <1> SUFFICES ASSUME DInv, Respond
               PROVE  DInv'
    OBVIOUS
  <1>1. DTypeOK /\ DTypeOK'
    BY TypeRespond DEF DInv
  <1>2. Running /\ Current # <<>> /\ Head(Current) \in UserPair
    BY <1>1, UserHandler, CallbacksAssumption DEF Respond, InHandler
  <1>3. /\ DOMAIN stack' = DOMAIN stack
        /\ \A i \in DOMAIN stack : stack'[i].dfr = stack[i].dfr
    BY <1>1, <1>2, GoOnSameDeferreds DEF Respond
  <1> QED
    BY <1>1, <1>2, <1>3, InvUserTurn DEF Respond

(* A fault after a callback pops nothing, after an errback a user pair.    *)
LEMMA InvFault == ASSUME NEW f \in Faults PROVE DInv /\ Fault(f) => DInv'
  <1> SUFFICES ASSUME DInv, Fault(f)
               PROVE  DInv'
    OBVIOUS
  <1>1. DTypeOK /\ DTypeOK'
    BY TypeFault DEF DInv
  <1>2. Running /\ Current # <<>> /\ Head(Current) \in UserPair
    BY <1>1, UserHandler, CallbacksAssumption DEF Fault, InHandler
  <1>3. /\ DOMAIN stack' = DOMAIN stack
        /\ \A i \in DOMAIN stack : stack'[i].dfr = stack[i].dfr
    BY <1>1, <1>2, GoOnSameDeferreds DEF Fault
  <1> QED
    BY <1>1, <1>2, <1>3, InvUserTurn DEF Fault, FaultedQueue

(* A fresh deferred holds user pairs only, and nothing refers to it: the   *)
(* waiting places stay what they were.                                     *)
LEMMA InvBuild ==
  ASSUME NEW d \in Deferreds, NEW chain \in Chains, NEW registered \in BOOLEAN
  PROVE  DInv /\ Build(d, chain, registered) => DInv'
  <1> SUFFICES ASSUME DInv, Build(d, chain, registered)
               PROVE  DInv'
    OBVIOUS
  <1> USE DEF DInv
  <1>1. DTypeOK /\ DTypeOK'
    BY TypeBuild
  <1>2. /\ d \notin built /\ built' = built \cup {d}
        /\ is_firing' = is_firing \ {d} /\ fired' = fired \ {d}
        /\ stack' = stack /\ crashed' = crashed
        /\ callbacks' = [callbacks EXCEPT ![d] = chain]
    BY DEF Build, Allocate
  <1>3. \A x, e, i : WaitsAt(x, e, i)' <=> WaitsAt(x, e, i)
    <2>1. \A x, i : ~WaitsAt(x, d, i)'
      <3>1. chain \in Seq(UserPair)
        BY CallbacksAssumption
      <3>2. \A i \in DOMAIN chain : chain[i] \in UserPair
        BY <3>1
      <3>3. callbacks'[d] = chain
        BY <1>1, <1>2 DEF DTypeOK
      <3> QED
        BY <3>2, <3>3, UserPairIsNoHandle DEF WaitsAt
    <2>2. \A x, e, i : e # d => (WaitsAt(x, e, i)' <=> WaitsAt(x, e, i))
      <3>1. \A e \in built : e # d => callbacks'[e] = callbacks[e]
        BY <1>1, <1>2 DEF DTypeOK
      <3> QED
        BY <1>2, <3>1 DEF WaitsAt
    <2>3. \A x, i : ~WaitsAt(x, d, i)
      BY <1>2 DEF WaitsAt
    <2> QED
      BY <2>1, <2>2, <2>3
  <1>4. \A x : OnStack(x)' <=> OnStack(x)
    BY <1>2 DEF OnStack
  <1>5. \A x : Suspended(x)' <=> Suspended(x)
    BY <1>2, <1>4 DEF Suspended
  <1>6. StackSound'
    BY <1>2 DEF StackSound
  <1>7. PendingSound'
    BY <1>2 DEF PendingSound, Build, Base
  <1>8. HandlesAwaited'
    BY <1>1, <1>3, <1>5, WaitsAtPlace DEF HandlesAwaited
  <1>9. HandlesUnique'
    BY <1>1, <1>3, WaitsAtPlace DEF HandlesUnique
  <1>10. SuspendedAwaited'
    <2> SUFFICES ASSUME NEW x \in built', Suspended(x)'
                 PROVE  \E e \in built' : \E i \in DOMAIN callbacks'[e] :
                          WaitsAt(x, e, i)'
      BY DEF SuspendedAwaited
    <2>1. PICK e, i : WaitsAt(x, e, i)
      BY <1>5 DEF SuspendedAwaited, Suspended
    <2> QED
      BY <1>1, <1>3, <2>1, WaitsAtPlaceNext
  <1> QED
    BY <1>1, <1>2, <1>6, <1>7, <1>8, <1>9, <1>10

(* The deferred that is fired was not firing, so nothing resumes it.       *)
LEMMA InvFire ==
  ASSUME NEW d \in Deferreds, NEW m \in {"cb", "err"}, NEW v \in Result
  PROVE  DInv /\ Fire(d, m, v) => DInv'
  <1> SUFFICES ASSUME DInv, Fire(d, m, v)
               PROVE  DInv'
    OBVIOUS
  <1> USE DEF DInv
  <1>1. DTypeOK /\ DTypeOK'
    BY TypeFire
  <1>2. stack = <<>> /\ d \in built /\ d \notin is_firing /\ d \notin fired
    BY DEF Fire, Idle, PendingSound
  <1>3. /\ stack' = <<[dfr |-> d, mode |-> m, val |-> v]>>
        /\ is_firing' = is_firing \cup {d}
        /\ UNCHANGED <<built, callbacks, fired, pending, crashed>>
    BY <1>2 DEF Fire, Enter
  <1>4. \A x, e, i : WaitsAt(x, e, i)' <=> WaitsAt(x, e, i)
    BY <1>3 DEF WaitsAt
  <1>5. DOMAIN stack' = {1} /\ stack'[1].dfr = d /\ Base' = d
    BY <1>3 DEF Base
  <1>6. \A x : Suspended(x)' <=> Suspended(x)
    <2>1. \A x : OnStack(x)' <=> x = d
      BY <1>5 DEF OnStack
    <2>2. \A x : ~OnStack(x)
      BY <1>2 DEF OnStack
    <2> QED
      BY <1>2, <1>3, <2>1, <2>2 DEF Suspended
  <1>7. StackSound'
    BY <1>2, <1>3, <1>5 DEF StackSound
  <1>8. PendingSound'
    BY <1>2, <1>3, <1>5 DEF PendingSound
  <1>9. HandlesAwaited' /\ HandlesUnique'
    BY <1>3, <1>4, <1>6 DEF HandlesAwaited, HandlesUnique
  <1>10. SuspendedAwaited'
    BY <1>3, <1>4, <1>6 DEF SuspendedAwaited
  <1> QED
    BY <1>1, <1>3, <1>7, <1>8, <1>9, <1>10
(* The first pair of the innermost queue apart, popping keeps every        *)
(* waiting place, one position up in that queue.                           *)
LEMMA PopKeepsWaiter ==
  ASSUME DTypeOK, Running, Current # <<>>, callbacks' = Popped, built' = built,
         NEW d, NEW e, NEW i, WaitsAt(d, e, i), e = Top.dfr => i # 1
  PROVE  \E j \in Nat \ {0} : WaitsAt(d, e, j)'
  <1>1. d \in Deferreds /\ e \in Deferreds /\ i \in Nat \ {0}
    BY WaitsAtPlace
  <1>2. PICK j \in Nat \ {0} : (IF e = Top.dfr THEN j + 1 ELSE j) = i
    <2>1. e = Top.dfr => i - 1 \in Nat \ {0} /\ (i - 1) + 1 = i
      BY <1>1
    <2> QED
      BY <1>1, <2>1
  <1>3. WaitsAt(d, e, j)' <=> WaitsAt(d, e, IF e = Top.dfr THEN j + 1 ELSE j)
    BY <1>1, WaitsAfterPop
  <1> QED
    BY <1>2, <1>3

(* The deferred that is resumed was suspended, so it has not finished, and *)
(* the pair that is popped was the only one that resumes it.               *)
LEMMA InvResume == DInv /\ Resume => DInv'
  <1> SUFFICES ASSUME DInv, Resume
               PROVE  DInv'
    OBVIOUS
  <1> USE DEF DInv
  <1> DEFINE t == Head(Current).user_data
             from(e, i) == IF e = Top.dfr THEN i + 1 ELSE i
  <1>1. DTypeOK /\ DTypeOK'
    BY TypeResume
  <1>2. /\ Running /\ Current # <<>> /\ Handler = HANDLE
        /\ callbacks' = Popped
        /\ UNCHANGED <<built, fired, pending>>
    BY DEF Resume
  <1>3. Current[1] = HandlePair(t) /\ 1 \in DOMAIN Current
    BY <1>1, <1>2, PoppedType, PairKinds, RunningFrames, TailProperties DEF Handler
  <1>4. Top.dfr \in built /\ ~OnStack(t) /\ t \in (built \cap is_firing) \ fired
    <2>1. Top.dfr \in built /\ Top.dfr \in Deferreds
      BY <1>1, <1>2, RunningFrames DEF StackSound, Top
    <2>2. WaitsAt(t, Top.dfr, 1)
      BY <1>3, <2>1 DEF WaitsAt, Current
    <2>3. Suspended(t)
      BY <1>1, <2>2, WaitsAtPlace DEF HandlesAwaited
    <2> QED
      BY <2>1, <2>3 DEF Suspended
  <1>5. PICK t0 : t0 = t
    OBVIOUS
  <1>6. /\ stack' = Append(stack, [dfr |-> t0, mode |-> Top.mode, val |-> Top.val])
        /\ is_firing' = is_firing \cup {t0}
        /\ UNCHANGED <<built, fired, pending, crashed>>
    BY <1>2, <1>4, <1>5 DEF Resume, Enter
  <1>7. /\ DOMAIN stack' = 1..(Depth + 1)
        /\ stack'[Depth + 1].dfr = t0
        /\ \A i \in 1..Depth : stack'[i] = stack[i]
        /\ DOMAIN stack = 1..Depth /\ Depth \in Nat \ {0}
    BY <1>1, <1>2, <1>6, RunningFrames DEF Depth, DTypeOK
  <1>8. \A x : OnStack(x)' <=> OnStack(x) \/ x = t0
    <2>1. \A i : i \in 1..(Depth + 1) <=> i \in 1..Depth \/ i = Depth + 1
      BY <1>7
    <2> QED
      BY <1>7, <2>1 DEF OnStack
  <1>9. \A x : Suspended(x)' <=> Suspended(x) /\ x # t0
    BY <1>4, <1>5, <1>6, <1>8 DEF Suspended
  <1>10. \A x, e, i : WaitsAt(x, e, i)' =>
           /\ x \in Deferreds /\ e \in Deferreds /\ i \in Nat \ {0}
           /\ WaitsAt(x, e, from(e, i))
    <2> SUFFICES ASSUME NEW x, NEW e, NEW i, WaitsAt(x, e, i)'
                 PROVE  /\ x \in Deferreds /\ e \in Deferreds /\ i \in Nat \ {0}
                        /\ WaitsAt(x, e, from(e, i))
      OBVIOUS
    <2>1. x \in Deferreds /\ e \in Deferreds /\ i \in Nat \ {0}
      BY <1>1, WaitsAtPlaceNext
    <2> QED
      BY <1>1, <1>2, <2>1, WaitsAfterPop
  <1>11. StackSound'
    <2>1. \A i \in 1..Depth : stack[i].dfr # t0
      BY <1>4, <1>5, <1>7 DEF OnStack
    <2>2. \A i, j \in 1..(Depth + 1) : stack'[i].dfr = stack'[j].dfr => i = j
      <3>1. \A i \in 1..(Depth + 1) : i \in 1..Depth \/ i = Depth + 1
        BY <1>7
      <3> QED
        BY <1>7, <2>1, <3>1 DEF StackSound
    <2>3. \A i \in 1..(Depth + 1) : stack'[i].dfr \in (built' \cap is_firing') \ fired'
      <3>1. \A i \in 1..(Depth + 1) : i \in 1..Depth \/ i = Depth + 1
        BY <1>7
      <3> QED
        BY <1>4, <1>5, <1>6, <1>7, <3>1 DEF StackSound
    <2> QED
      BY <1>7, <2>2, <2>3 DEF StackSound
  <1>12. PendingSound'
    <2>1. Base' = Base /\ stack' # <<>>
      BY <1>7 DEF Base
    <2>2. t0 \in pending => t0 = Base
      BY <1>4, <1>5 DEF PendingSound
    <2> QED
      BY <1>6, <2>1, <2>2 DEF PendingSound
  <1>13. HandlesAwaited'
    <2> SUFFICES ASSUME NEW x, NEW e, NEW i, WaitsAt(x, e, i)'
                 PROVE  Suspended(x)'
      BY DEF HandlesAwaited
    <2>1. /\ x \in Deferreds /\ e \in Deferreds /\ i \in Nat \ {0}
          /\ WaitsAt(x, e, from(e, i))
      BY <1>10
    <2>2. Suspended(x)
      BY <1>1, <2>1, WaitsAtPlace DEF HandlesAwaited
    <2>3. x # t0
      <3> SUFFICES ASSUME x = t0 PROVE FALSE
        OBVIOUS
      <3>1. WaitsAt(x, Top.dfr, 1)
        BY <1>3, <1>4, <1>5 DEF WaitsAt, Current
      <3>2. e = Top.dfr /\ from(e, i) = 1
        BY <1>1, <2>1, <3>1, WaitsAtPlace DEF HandlesUnique
      <3> QED
        BY <2>1, <3>2
    <2> QED
      BY <1>9, <2>2, <2>3
  <1>14. HandlesUnique'
    <2> SUFFICES ASSUME NEW x, NEW e1, NEW e2, NEW i1, NEW i2,
                        WaitsAt(x, e1, i1)', WaitsAt(x, e2, i2)'
                 PROVE  e1 = e2 /\ i1 = i2
      BY DEF HandlesUnique
    <2>1. e1 = e2 /\ from(e1, i1) = from(e2, i2)
      BY <1>1, <1>10, WaitsAtPlace DEF HandlesUnique
    <2>2. i1 \in Nat /\ i2 \in Nat
      BY <1>10
    <2> QED
      BY <2>1, <2>2
  <1>15. SuspendedAwaited'
    <2> SUFFICES ASSUME NEW x \in built, Suspended(x), x # t0
                 PROVE  \E e \in built' : \E i \in DOMAIN callbacks'[e] :
                          WaitsAt(x, e, i)'
      BY <1>2, <1>9 DEF SuspendedAwaited
    <2>1. PICK e, i : WaitsAt(x, e, i)
      BY DEF SuspendedAwaited
    <2>2. e = Top.dfr => i # 1
      BY <1>3, <1>5, <2>1, HandlePairInjective DEF WaitsAt, Current
    <2>3. PICK j : WaitsAt(x, e, j)'
      BY <1>1, <1>2, <2>1, <2>2, PopKeepsWaiter
    <2> QED
      BY <1>1, <2>3, WaitsAtPlaceNext
  <1> QED
    BY <1>1, <1>6, <1>11, <1>12, <1>13, <1>14, <1>15
(* Every deferred on the stack comes to wait in the fresh one, each in one *)
(* place, and those that waited before wait where they did.                *)
LEMMA InvChain ==
  ASSUME NEW d \in Deferreds, NEW chain \in Chains, NEW registered \in BOOLEAN
  PROVE  DInv /\ Chain(d, chain, registered) => DInv'
  <1> SUFFICES ASSUME DInv, Chain(d, chain, registered)
               PROVE  DInv'
    OBVIOUS
  <1> USE DEF DInv
  <1> DEFINE from(e, i) == IF e = Top.dfr THEN i + 1 ELSE i
             n == Len(chain)
  <1>1. DTypeOK /\ DTypeOK'
    BY TypeChain
  <1>2. /\ Running /\ Current # <<>> /\ Head(Current) \in UserPair
        /\ d \notin built /\ built' = built \cup {d}
        /\ is_firing' = is_firing \ {d} /\ fired' = fired \ {d}
        /\ callbacks' = [Popped EXCEPT ![d] = chain \o HandlePairs]
        /\ stack' = <<>> /\ crashed' = crashed
    BY <1>1, UserHandler, CallbacksAssumption DEF Chain, Allocate, InHandler
  <1>3. /\ Depth \in Nat \ {0} /\ DOMAIN stack = 1..Depth
        /\ Top.dfr \in built /\ Top.dfr \in Deferreds /\ Top.dfr # d
    BY <1>1, <1>2, RunningFrames DEF StackSound, Top
  <1>4. /\ chain \in Seq(UserPair) /\ chain \in Seq(Pair) /\ n \in Nat
        /\ \A i \in 1..n : chain[i] \in UserPair
    BY CallbacksAssumption DEF Pair
  <1>5. /\ DOMAIN callbacks'[d] = 1..(n + Depth)
        /\ \A i \in 1..n : callbacks'[d][i] = chain[i]
        /\ \A k \in 1..Depth : /\ n + Depth + 1 - k \in (n + 1)..(n + Depth)
                               /\ callbacks'[d][n + Depth + 1 - k]
                                    = HandlePair(stack[k].dfr)
        /\ \A i \in (n + 1)..(n + Depth) :
             \E k \in 1..Depth : i = n + Depth + 1 - k
    <2>1. callbacks'[d] = chain \o HandlePairs
      BY <1>1, <1>2, PoppedType
    <2>2. HandlePairs \in Seq(Pair) /\ Len(HandlePairs) = Depth
      BY <1>1, <1>2, HandlePairsType
    <2>3. DOMAIN callbacks'[d] = 1..(n + Depth)
      BY <1>4, <2>1, <2>2, ConcatProperties
    <2>4. \A i \in 1..n : callbacks'[d][i] = chain[i]
      BY <1>4, <2>1, <2>2, ConcatProperties
    <2>5. \A j \in 1..Depth : callbacks'[d][n + j] = HandlePairs[j]
      BY <1>4, <2>1, <2>2, ConcatProperties
    <2>6. ASSUME NEW k \in 1..Depth
          PROVE  /\ n + Depth + 1 - k \in (n + 1)..(n + Depth)
                 /\ callbacks'[d][n + Depth + 1 - k] = HandlePair(stack[k].dfr)
      <3>1. PICK j \in 1..Depth : j = Depth + 1 - k
        BY <1>3
      <3>2. HandlePairs[j] = HandlePair(stack[Depth + 1 - j].dfr)
        BY <1>1, <1>2, HandlePairsType
      <3>3. Depth + 1 - j = k /\ n + Depth + 1 - k = n + j
        BY <1>3, <1>4, <3>1
      <3>4. n + j \in (n + 1)..(n + Depth)
        BY <1>3, <1>4
      <3> QED
        BY <2>5, <3>2, <3>3, <3>4
    <2>7. ASSUME NEW i \in (n + 1)..(n + Depth)
          PROVE  \E k \in 1..Depth : i = n + Depth + 1 - k
      <3>1. n + Depth + 1 - i \in 1..Depth /\ i = n + Depth + 1 - (n + Depth + 1 - i)
        BY <1>3, <1>4
      <3> QED
        BY <3>1
    <2> QED
      BY <2>3, <2>4, <2>6, <2>7
  <1>6. \A e \in Deferreds : e # d => callbacks'[e] = Popped[e]
    BY <1>1, <1>2, PoppedType
  <1>7. \A x : Suspended(x)' <=> Suspended(x) \/ OnStack(x)
    <2>1. \A x : ~OnStack(x)'
      BY <1>2 DEF OnStack
    <2>2. \A x : OnStack(x) => x \in (built \cap is_firing) \ fired
      BY DEF OnStack, StackSound
    <2> QED
      BY <1>2, <2>1, <2>2 DEF Suspended
  <1>8. \A x, i : WaitsAt(x, d, i)' =>
          \E k \in 1..Depth : i = n + Depth + 1 - k /\ x = stack[k].dfr
    <2> SUFFICES ASSUME NEW x, NEW i, WaitsAt(x, d, i)'
                 PROVE  \E k \in 1..Depth : i = n + Depth + 1 - k /\ x = stack[k].dfr
      OBVIOUS
    <2>1. i \in 1..(n + Depth) /\ callbacks'[d][i] = HandlePair(x)
      BY <1>5 DEF WaitsAt
    <2>2. i \notin 1..n
      BY <1>4, <1>5, <2>1, UserPairIsNoHandle
    <2>3. i \in (n + 1)..(n + Depth)
      BY <1>3, <1>4, <2>1, <2>2
    <2>4. PICK k \in 1..Depth : i = n + Depth + 1 - k
      BY <1>5, <2>3
    <2>5. HandlePair(x) = HandlePair(stack[k].dfr)
      BY <1>5, <2>1, <2>4
    <2> QED
      BY <2>4, <2>5, HandlePairInjective
  <1>9. \A x, e, i : WaitsAt(x, e, i)' /\ e # d =>
          /\ x \in Deferreds /\ e \in Deferreds /\ i \in Nat \ {0}
          /\ WaitsAt(x, e, from(e, i))
    <2> SUFFICES ASSUME NEW x, NEW e, NEW i, WaitsAt(x, e, i)', e # d
                 PROVE  /\ x \in Deferreds /\ e \in Deferreds /\ i \in Nat \ {0}
                        /\ WaitsAt(x, e, from(e, i))
      OBVIOUS
    <2>1. x \in Deferreds /\ e \in Deferreds /\ i \in Nat \ {0} /\ e \in built
      BY <1>1, <1>2, WaitsAtPlaceNext
    <2>2. i \in DOMAIN Popped[e] /\ Popped[e][i] = HandlePair(x)
      <3>1. callbacks'[e] = Popped[e]
        BY <1>6, <2>1
      <3>2. i \in DOMAIN callbacks'[e] /\ callbacks'[e][i] = HandlePair(x)
        BY DEF WaitsAt
      <3> QED
        BY <3>1, <3>2
    <2>3. CASE e = Top.dfr
      <3>1. Popped[e] = Tail(Current) /\ callbacks[e] = Current
        BY <1>1, <2>1, <2>3 DEF Popped, Current, DTypeOK
      <3>2. i + 1 \in DOMAIN Current /\ Tail(Current)[i] = Current[i + 1]
        BY <1>1, <1>2, <2>2, <3>1, RunningFrames, TailProperties
      <3> QED
        BY <2>1, <2>2, <2>3, <3>1, <3>2 DEF WaitsAt
    <2>4. CASE e # Top.dfr
      <3>1. Popped[e] = callbacks[e]
        BY <1>1, <2>1, <2>4 DEF Popped, DTypeOK
      <3> QED
        BY <2>1, <2>2, <2>4, <3>1 DEF WaitsAt
    <2> QED
      BY <2>3, <2>4
  <1>10. StackSound'
    BY <1>2 DEF StackSound
  <1>11. PendingSound'
    <2>1. pending' \subseteq (pending \ {Base}) \cup {d}
      BY DEF Chain, Answered
    <2>2. pending \cap is_firing \subseteq {Base} /\ pending \subseteq built
      BY DEF PendingSound
    <2>3. pending' \cap is_firing' = {}
      BY <1>2, <2>1, <2>2
    <2> QED
      BY <1>2, <2>1, <2>2, <2>3 DEF PendingSound
  <1>12. HandlesAwaited'
    <2> SUFFICES ASSUME NEW x, NEW e, NEW i, WaitsAt(x, e, i)'
                 PROVE  Suspended(x)'
      BY DEF HandlesAwaited
    <2>1. CASE e = d
      BY <1>3, <1>7, <1>8, <2>1 DEF OnStack
    <2>2. CASE e # d
      BY <1>1, <1>7, <1>9, <2>2, WaitsAtPlace DEF HandlesAwaited
    <2> QED
      BY <2>1, <2>2
  <1>13. HandlesUnique'
    <2> SUFFICES ASSUME NEW x, NEW e1, NEW e2, NEW i1, NEW i2,
                        WaitsAt(x, e1, i1)', WaitsAt(x, e2, i2)'
                 PROVE  e1 = e2 /\ i1 = i2
      BY DEF HandlesUnique
    <2>1. \A e, i : WaitsAt(x, e, i)' /\ e # d => ~OnStack(x)
      BY <1>1, <1>9, WaitsAtPlace DEF HandlesAwaited, Suspended
    <2>2. \A i : WaitsAt(x, d, i)' => OnStack(x)
      BY <1>3, <1>8 DEF OnStack
    <2>3. CASE e1 = d /\ e2 = d
      <3>1. PICK k1 \in 1..Depth : i1 = n + Depth + 1 - k1 /\ x = stack[k1].dfr
        BY <1>8, <2>3
      <3>2. PICK k2 \in 1..Depth : i2 = n + Depth + 1 - k2 /\ x = stack[k2].dfr
        BY <1>8, <2>3
      <3>3. k1 = k2
        BY <1>3, <3>1, <3>2 DEF StackSound
      <3> QED
        BY <2>3, <3>1, <3>2, <3>3
    <2>4. CASE e1 # d /\ e2 # d
      <3>1. e1 = e2 /\ from(e1, i1) = from(e2, i2)
        BY <1>1, <1>9, <2>4, WaitsAtPlace DEF HandlesUnique
      <3>2. i1 \in Nat /\ i2 \in Nat
        BY <1>9, <2>4
      <3> QED
        BY <3>1, <3>2
    <2> QED
      BY <2>1, <2>2, <2>3, <2>4
  <1>14. SuspendedAwaited'
    <2> SUFFICES ASSUME NEW x, Suspended(x) \/ OnStack(x)
                 PROVE  \E e, i : WaitsAt(x, e, i)'
      BY <1>1, <1>7, WaitsAtPlaceNext DEF SuspendedAwaited
    <2>1. CASE OnStack(x)
      <3>1. PICK k \in 1..Depth : stack[k].dfr = x
        BY <1>3, <2>1 DEF OnStack
      <3>2. PICK i \in (n + 1)..(n + Depth) : i = n + Depth + 1 - k
        BY <1>5
      <3>3. callbacks'[d][i] = HandlePair(x)
        BY <1>5, <3>1, <3>2
      <3>4. i \in DOMAIN callbacks'[d] /\ d \in built'
        BY <1>2, <1>3, <1>4, <1>5, <3>3
      <3> QED
        BY <3>3, <3>4 DEF WaitsAt
    <2>2. CASE Suspended(x)
      <3>1. PICK e, i : WaitsAt(x, e, i)
        BY <2>2 DEF SuspendedAwaited, Suspended
      <3>2. e \in built /\ e \in Deferreds /\ i \in Nat \ {0} /\ e # d
        BY <1>1, <1>2, <3>1, WaitsAtPlace
      <3>3. callbacks'[e] = Popped[e]
        BY <1>6, <3>2
      <3>4. CASE e = Top.dfr
        <4>1. Popped[e] = Tail(Current) /\ callbacks[e] = Current
          BY <1>1, <3>4, <3>2 DEF Popped, Current, DTypeOK
        <4>2. Current[1] # HandlePair(x)
          BY <1>1, <1>2, RunningFrames, TailProperties, UserPairIsNoHandle
        <4>3. i \in DOMAIN Current /\ Current[i] = HandlePair(x)
          BY <3>1, <4>1 DEF WaitsAt
        <4>4. PICK j : j = i - 1
          OBVIOUS
        <4>5. j + 1 = i /\ j \in DOMAIN Tail(Current) /\ Tail(Current)[j] = Current[i]
          <5>1. Len(Current) \in Nat /\ DOMAIN Current = 1..Len(Current)
            BY <1>1, <1>2, RunningFrames
          <5>2. i # 1 /\ j + 1 = i /\ j \in 1..(Len(Current) - 1)
            BY <3>2, <4>2, <4>3, <4>4, <5>1
          <5> QED
            BY <1>1, <1>2, <5>2, RunningFrames, TailProperties
        <4> QED
          BY <1>2, <3>2, <3>3, <4>1, <4>3, <4>5 DEF WaitsAt
      <3>5. CASE e # Top.dfr
        <4>1. Popped[e] = callbacks[e]
          BY <1>1, <3>2, <3>5 DEF Popped, DTypeOK
        <4> QED
          BY <1>2, <3>1, <3>2, <3>3, <4>1 DEF WaitsAt
      <3> QED
        BY <3>4, <3>5
    <2> QED
      BY <2>1, <2>2
  <1> QED
    BY <1>1, <1>2, <1>10, <1>11, <1>12, <1>13, <1>14

(* The deferred that finishes ran, so nothing resumes it.                  *)
LEMMA InvFinishInner == DInv /\ FinishInner => DInv'
  <1> SUFFICES ASSUME DInv, FinishInner
               PROVE  DInv'
    OBVIOUS
  <1> USE DEF DInv
  <1>1. DTypeOK /\ DTypeOK'
    BY TypeFinishInner
  <1>2. /\ Running /\ Depth > 1
        /\ UNCHANGED <<built, callbacks, is_firing, pending, crashed>>
    BY DEF FinishInner
  <1>3. /\ Depth \in Nat /\ DOMAIN stack = 1..Depth /\ Depth \in 1..Depth
        /\ Depth - 1 \in Nat /\ 1 \in 1..(Depth - 1)
        /\ \A i \in 1..(Depth - 1) : i \in 1..Depth /\ i # Depth
        /\ \A i \in 1..Depth : i \in 1..(Depth - 1) \/ i = Depth
    BY <1>1, <1>2, RunningFrames
  <1>4. PICK t : t = stack[Depth].dfr
    OBVIOUS
  <1>5. /\ DOMAIN stack' = 1..(Depth - 1)
        /\ \A i \in 1..(Depth - 1) : stack'[i].dfr = stack[i].dfr
        /\ fired' = fired \cup {t}
    BY <1>4 DEF FinishInner, Top
  <1>6. t \in (built \cap is_firing) \ fired /\ \A i \in 1..(Depth - 1) : stack[i].dfr # t
    BY <1>3, <1>4 DEF StackSound
  <1>7. \A x : OnStack(x)' <=> OnStack(x) /\ x # t
    BY <1>3, <1>4, <1>5, <1>6 DEF OnStack
  <1>8. \A x : Suspended(x)' <=> Suspended(x)
    <2>1. OnStack(t)
      BY <1>3, <1>4 DEF OnStack
    <2> QED
      BY <1>2, <1>5, <1>7, <2>1 DEF Suspended
  <1>9. \A x, e, i : WaitsAt(x, e, i)' <=> WaitsAt(x, e, i)
    BY <1>2 DEF WaitsAt
  <1>10. StackSound'
    BY <1>2, <1>3, <1>5, <1>6 DEF StackSound
  <1>11. PendingSound'
    <2>1. Base' = Base /\ stack' # <<>>
      BY <1>3, <1>5 DEF Base
    <2> QED
      BY <1>2, <2>1 DEF PendingSound
  <1>12. HandlesAwaited' /\ HandlesUnique' /\ SuspendedAwaited'
    BY <1>2, <1>8, <1>9 DEF HandlesAwaited, HandlesUnique, SuspendedAwaited
  <1> QED
    BY <1>1, <1>2, <1>5, <1>6, <1>10, <1>11, <1>12

(* The deferred that is freed has an empty queue and nothing resumes it.   *)
LEMMA InvFinishBase == DInv /\ FinishBase => DInv'
  <1> SUFFICES ASSUME DInv, FinishBase
               PROVE  DInv'
    OBVIOUS
  <1> USE DEF DInv
  <1>1. DTypeOK /\ DTypeOK'
    BY TypeFinishBase
  <1>2. PICK b : b = Base
    OBVIOUS
  <1>3. /\ Running /\ Depth = 1
        /\ built' = built \ {b} /\ fired' = fired \cup {b} /\ stack' = <<>>
        /\ pending' = pending \ {b}
        /\ UNCHANGED <<callbacks, is_firing, crashed>>
    BY <1>2 DEF FinishBase, Answered
  <1>4. DOMAIN stack = {1} /\ stack[1].dfr = b /\ callbacks[b] = <<>>
    BY <1>1, <1>2, <1>3, RunningFrames DEF FinishBase, Current, Top, Base
  <1>5. b \in (built \cap is_firing) \ fired
    BY <1>4 DEF StackSound
  <1>6. \A x : Suspended(x)' <=> Suspended(x)
    <2>1. \A x : OnStack(x) <=> x = b
      BY <1>4 DEF OnStack
    <2>2. \A x : ~OnStack(x)'
      BY <1>3 DEF OnStack
    <2> QED
      BY <1>3, <2>1, <2>2 DEF Suspended
  <1>7. \A x, e, i : WaitsAt(x, e, i)' <=> WaitsAt(x, e, i)
    BY <1>3, <1>4 DEF WaitsAt
  <1>8. StackSound'
    BY <1>3 DEF StackSound
  <1>9. PendingSound'
    BY <1>2, <1>3 DEF PendingSound
  <1>10. HandlesAwaited' /\ HandlesUnique'
    BY <1>3, <1>6, <1>7 DEF HandlesAwaited, HandlesUnique
  <1>11. SuspendedAwaited'
    <2> SUFFICES ASSUME NEW x, Suspended(x)
                 PROVE  \E e, i : WaitsAt(x, e, i)'
      BY <1>1, <1>6, WaitsAtPlaceNext DEF SuspendedAwaited
    <2> QED
      BY <1>7 DEF SuspendedAwaited, Suspended
  <1> QED
    BY <1>1, <1>3, <1>8, <1>9, <1>10, <1>11

(* Dropping the table leaves every deferred as it is.                      *)
LEMMA InvDropPending == DInv /\ DropPending => DInv'
  <1> SUFFICES ASSUME DInv, DropPending
               PROVE  DInv'
    OBVIOUS
  <1> USE DEF DInv
  <1>1. pending' = {} /\ UNCHANGED <<built, callbacks, is_firing, fired, stack, crashed>>
    BY DEF DropPending
  <1>2. DTypeOK'
    BY <1>1 DEF DTypeOK
  <1>3. StackSound' /\ PendingSound'
    BY <1>1 DEF StackSound, PendingSound
  <1>4. (\A x : Suspended(x)' <=> Suspended(x)) /\
        (\A x, e, i : WaitsAt(x, e, i)' <=> WaitsAt(x, e, i))
    BY <1>1 DEF Suspended, OnStack, WaitsAt
  <1>5. HandlesAwaited' /\ HandlesUnique' /\ SuspendedAwaited'
    BY <1>1, <1>4 DEF HandlesAwaited, HandlesUnique, SuspendedAwaited
  <1> QED
    BY <1>1, <1>2, <1>3, <1>5

(* Nothing is allocated at first.                                          *)
LEMMA InvInit == DInit => DInv
  <1> SUFFICES ASSUME DInit
               PROVE  DInv
    OBVIOUS
  <1>1. DTypeOK
    BY TypeInit
  <1>2. built = {} /\ pending = {} /\ stack = <<>> /\ crashed = FALSE
    BY DEF DInit
  <1>3. StackSound /\ PendingSound
    BY <1>2 DEF StackSound, PendingSound
  <1>4. HandlesAwaited /\ HandlesUnique /\ SuspendedAwaited
    BY <1>2 DEF HandlesAwaited, HandlesUnique, SuspendedAwaited, WaitsAt
  <1> QED
    BY <1>1, <1>2, <1>3, <1>4 DEF DInv

(* Every step keeps the inductive invariant.                               *)
LEMMA InvStep == DInv /\ [DNext]_dvars => DInv'
  <1> SUFFICES ASSUME DInv, [DNext]_dvars
               PROVE  DInv'
    OBVIOUS
  <1>1. ASSUME NEW d \in Deferreds, NEW chain \in Chains, NEW r \in BOOLEAN,
               Build(d, chain, r)
        PROVE  DInv'
    BY <1>1, InvBuild
  <1>2. ASSUME NEW d \in Deferreds, Fire(d, "cb", RESPONSE)
        PROVE  DInv'
    BY <1>2, InvFire DEF Result
  <1>3. ASSUME NEW d \in Deferreds, NEW f \in Faults, Fire(d, "err", f)
        PROVE  DInv'
    BY <1>3, InvFire DEF Result
  <1>4. CASE UserCode
    BY <1>4, InvRespond, InvFault, InvChain DEF UserCode
  <1>5. CASE Engine
    BY <1>5, InvSkipPair, InvResume, InvFinishInner, InvFinishBase DEF Engine
  <1>6. CASE DropPending
    BY <1>6, InvDropPending
  <1>7. CASE UNCHANGED dvars
    BY <1>7 DEF dvars, DInv, DTypeOK, StackSound, PendingSound, HandlesAwaited,
                HandlesUnique, SuspendedAwaited, Suspended, OnStack, WaitsAt, Base
  <1> QED
    BY <1>1, <1>2, <1>3, <1>4, <1>5, <1>6, <1>7 DEF DNext

(* The inductive invariant always holds.                                   *)
LEMMA InvAlways == DSpec => []DInv
  <1>1. DInit => DInv
    BY InvInit
  <1>2. DInv /\ [DNext]_dvars => DInv'
    BY InvStep
  <1> QED
    BY <1>1, <1>2, PTL DEF DSpec

(* No deferred is fired again after its queue has been run, so no caller   *)
(* of libballyhoo_deferred_callback or _errback is given NULL.             *)
THEOREM RefiredNever == DSpec => []NeverRefired
  <1>1. DInv => NeverRefired
    BY DEF DInv, NeverRefired
  <1> QED
    BY <1>1, InvAlways, PTL

(* Between two events of the main loop, every request in the table can     *)
(* still be timed out.                                                     *)
THEOREM FiringNever == DSpec => []NoneLeftFiring
  <1>1. DInv => NoneLeftFiring
    BY DEF DInv, PendingSound, NoneLeftFiring, Idle
  <1> QED
    BY <1>1, InvAlways, PTL

(* A suspended deferred waits in one place of one queue, and nothing else  *)
(* waits: no chain of deferreds is lost or resumed twice.                  *)
THEOREM ResumedOnce == DSpec => []OneWaker
  <1>1. DInv => OneWaker
    <2> SUFFICES ASSUME DInv
                 PROVE  OneWaker
      OBVIOUS
    <2>1. built \subseteq Deferreds
      BY DEF DInv, DTypeOK
    <2> QED
      BY <2>1 DEF DInv, OneWaker, HandlesAwaited, HandlesUnique, SuspendedAwaited
  <1> QED
    BY <1>1, InvAlways, PTL

(* Nothing refers to a deferred that has been freed.                       *)
THEOREM DanglingNever == DSpec => []NoDanglingDeferred
  <1>1. DInv => NoDanglingDeferred
    <2> SUFFICES ASSUME DInv
                 PROVE  NoDanglingDeferred
      OBVIOUS
    <2>1. DTypeOK
      BY DEF DInv
    <2>2. ASSUME NEW e \in built, NEW i \in DOMAIN callbacks[e],
                 callbacks[e][i].cb = HANDLE
          PROVE  callbacks[e][i].user_data \in built
      <3>1. callbacks[e] \in Seq(Pair) /\ e \in Deferreds
        BY <2>1 DEF DTypeOK
      <3>2. callbacks[e][i] \in Pair
        BY <3>1
      <3>3. WaitsAt(callbacks[e][i].user_data, e, i)
        BY <2>2, <3>2, PairKinds DEF WaitsAt
      <3>4. Suspended(callbacks[e][i].user_data)
        BY <2>1, <3>3, WaitsAtPlace DEF DInv, HandlesAwaited
      <3> QED
        BY <3>4 DEF Suspended
    <2> QED
      BY <2>2 DEF NoDanglingDeferred, DInv, StackSound, PendingSound
  <1> QED
    BY <1>1, InvAlways, PTL

-----------------------------------------------------------------------------
(* S holds the deferreds whose handlers have all had their turn: what is   *)
(* left in their queues resumes others of their kind.  All that lie below  *)
(* the innermost activation are of that kind, and so is every deferred     *)
(* that a handle pair after another one resumes.                           *)
SpentSet(S) ==
  /\ \A e \in S : \A i \in DOMAIN callbacks[e] :
       \E t \in S : callbacks[e][i] = HandlePair(t)
  /\ \A e \in built : \A i, j \in DOMAIN callbacks[e] :
       i < j /\ callbacks[e][i].cb = HANDLE =>
         \E t \in S : callbacks[e][j] = HandlePair(t)
  /\ \A i \in DOMAIN stack : i < Depth => stack[i].dfr \in S
  /\ stack # <<>> /\ Top.mode = "cb" /\ Top.val \in Faults => Top.dfr \in S

(* A fault that is handed to callbacks was left over by errbacks that did  *)
(* not handle it, in a deferred with nothing but resumptions to come.      *)
Spent == \E S \in SUBSET built : SpentSet(S)

(* The parts of SpentSet that are about queues, for a table of queues C of *)
(* the deferreds B.                                                        *)
SpentQueues(S, B, C) ==
  /\ \A e \in S : \A i \in DOMAIN C[e] : \E t \in S : C[e][i] = HandlePair(t)
  /\ \A e \in B : \A i, j \in DOMAIN C[e] :
       i < j /\ C[e][i].cb = HANDLE => \E t \in S : C[e][j] = HandlePair(t)

(* Popping the innermost queue keeps what is said of the queues.           *)
LEMMA SpentPopped ==
  ASSUME DTypeOK, Running, Current # <<>>, NEW S \in SUBSET built,
         SpentQueues(S, built, callbacks)
  PROVE  SpentQueues(S, built, Popped)
  <1>1. /\ Top.dfr \in Deferreds /\ Current \in Seq(Pair)
        /\ Popped[Top.dfr] = Tail(Current) /\ callbacks[Top.dfr] = Current
        /\ \A e \in Deferreds \ {Top.dfr} : Popped[e] = callbacks[e]
    BY RunningFrames DEF Popped, Current, DTypeOK
  <1>2. built \subseteq Deferreds
    BY DEF DTypeOK
  <1>3. /\ Len(Current) \in Nat \ {0}
        /\ DOMAIN Tail(Current) = 1..(Len(Current) - 1)
        /\ \A i \in 1..(Len(Current) - 1) :
             Tail(Current)[i] = Current[i + 1] /\ i + 1 \in DOMAIN Current
    BY <1>1, TailProperties
  <1>4. ASSUME NEW e \in S, NEW i \in DOMAIN Popped[e]
        PROVE  \E t \in S : Popped[e][i] = HandlePair(t)
    <2>1. CASE e = Top.dfr
      <3>1. i + 1 \in DOMAIN callbacks[e] /\ Popped[e][i] = callbacks[e][i + 1]
        BY <1>1, <1>3, <1>4, <2>1
      <3> QED BY <3>1 DEF SpentQueues
    <2>2. CASE e # Top.dfr
      <3>1. Popped[e] = callbacks[e]
        BY <1>1, <1>2, <2>2
      <3> QED BY <3>1, <1>4 DEF SpentQueues
    <2> QED BY <2>1, <2>2
  <1>5. ASSUME NEW e \in built, NEW i \in DOMAIN Popped[e], NEW j \in DOMAIN Popped[e],
               i < j, Popped[e][i].cb = HANDLE
        PROVE  \E t \in S : Popped[e][j] = HandlePair(t)
    <2>1. CASE e = Top.dfr
      <3>1. /\ i \in 1..(Len(Current) - 1) /\ j \in 1..(Len(Current) - 1)
        BY <1>1, <1>3, <1>5, <2>1
      <3>2. /\ i + 1 \in DOMAIN callbacks[e] /\ Popped[e][i] = callbacks[e][i + 1]
            /\ j + 1 \in DOMAIN callbacks[e] /\ Popped[e][j] = callbacks[e][j + 1]
        BY <1>1, <1>3, <3>1, <2>1
      <3>3. i + 1 < j + 1
        BY <1>5, <3>1
      <3>4. callbacks[e][i + 1].cb = HANDLE
        BY <1>5, <3>2
      <3> QED BY <3>2, <3>3, <3>4 DEF SpentQueues
    <2>2. CASE e # Top.dfr
      <3>1. Popped[e] = callbacks[e]
        BY <1>1, <1>2, <2>2
      <3> QED BY <3>1, <1>5 DEF SpentQueues
    <2> QED BY <2>1, <2>2
  <1> QED BY <1>4, <1>5 DEF SpentQueues

(* A turn that goes on with a response or to the errbacks, or skips.       *)
LEMMA SpentTurn ==
  ASSUME DTypeOK, Spent, Running, Current # <<>>, built' = built,
         callbacks' \in {callbacks, Popped}, stack \in Seq(Frame),
         \/ stack' = stack
         \/ \E m, v : GoOn(m, v) /\ (m = "cb" => v \notin Faults)
  PROVE  Spent'
  <1>1. PICK S \in SUBSET built : SpentSet(S)
    BY DEF Spent
  <1>2. SpentQueues(S, built, callbacks)
    BY <1>1 DEF SpentSet, SpentQueues
  <1>3. SpentQueues(S, built, callbacks')
    BY <1>2, SpentPopped
  <1>4. /\ Depth \in Nat \ {0} /\ DOMAIN stack = 1..Depth
    BY RunningFrames
  <1>5. /\ DOMAIN stack' = DOMAIN stack /\ Depth' = Depth /\ stack' # <<>>
        /\ \A i \in DOMAIN stack : stack'[i].dfr = stack[i].dfr
        /\ Top'.dfr = Top.dfr
        /\ Top'.mode = "cb" /\ Top'.val \in Faults => Top.mode = "cb" /\ Top.val \in Faults
    <2>1. CASE stack' = stack
      BY <2>1 DEF Depth, Top, Running
    <2>2. CASE \E m, v : GoOn(m, v) /\ (m = "cb" => v \notin Faults)
      <3>1. PICK m, v : GoOn(m, v) /\ (m = "cb" => v \notin Faults)
        BY <2>2
      <3>2. /\ Len(stack') = Depth /\ DOMAIN stack' = DOMAIN stack
            /\ stack'[Depth] = [dfr |-> Top.dfr, mode |-> m, val |-> v]
            /\ \A i \in DOMAIN stack : i # Depth => stack'[i] = stack[i]
        BY <1>4, <3>1 DEF GoOn, Depth
      <3> QED BY <1>4, <3>1, <3>2 DEF Depth, Top
    <2> QED BY <2>1, <2>2
  <1>6. SpentSet(S)'
    <2>1. \A i \in DOMAIN stack' : i < Depth' => stack'[i].dfr \in S
      BY <1>1, <1>5 DEF SpentSet
    <2>2. stack' # <<>> /\ Top'.mode = "cb" /\ Top'.val \in Faults => Top'.dfr \in S
      BY <1>1, <1>5 DEF SpentSet, Running
    <2> QED BY <1>3, <2>1, <2>2 DEF SpentSet, SpentQueues
  <1> QED BY <1>6 DEF Spent

(* A queue that user code builds holds no handle pairs.                    *)
LEMMA SpentBuild ==
  ASSUME DInv, Spent, NEW d \in Deferreds, NEW chain \in Chains,
         NEW registered \in BOOLEAN, Build(d, chain, registered)
  PROVE  Spent'
  <1>1. PICK S \in SUBSET built : SpentSet(S)
    BY DEF Spent
  <1>2. /\ d \notin built /\ built' = built \cup {d} /\ stack' = stack
        /\ callbacks'[d] = chain
        /\ \A e \in built : callbacks'[e] = callbacks[e]
    BY DEF Build, Allocate, DInv, DTypeOK
  <1>3. \A i \in DOMAIN chain : chain[i].cb # HANDLE
    <2>1. chain \in Seq(UserPair)
      BY CallbacksAssumption
    <2>2. \A i \in DOMAIN chain : chain[i] \in UserPair
      BY <2>1
    <2> QED BY <2>2, UserPairIsNoHandle
  <1>4. SpentSet(S)'
    <2>1. \A e \in S : \A i \in DOMAIN callbacks'[e] :
            \E t \in S : callbacks'[e][i] = HandlePair(t)
      BY <1>1, <1>2 DEF SpentSet
    <2>2. \A e \in built' : \A i, j \in DOMAIN callbacks'[e] :
            i < j /\ callbacks'[e][i].cb = HANDLE =>
              \E t \in S : callbacks'[e][j] = HandlePair(t)
      BY <1>1, <1>2, <1>3 DEF SpentSet
    <2> QED BY <1>1, <1>2, <2>1, <2>2 DEF SpentSet, Top, Depth
  <1> QED BY <1>2, <1>4 DEF Spent

(* An event begins with one activation.                                    *)
LEMMA SpentFire ==
  ASSUME DInv, Spent, NEW d \in Deferreds, NEW m \in {"cb", "err"}, NEW v,
         m = "cb" => v \notin Faults, Fire(d, m, v)
  PROVE  Spent'
  <1>1. PICK S \in SUBSET built : SpentSet(S)
    BY DEF Spent
  <1>2. stack = <<>> /\ d \notin fired
    BY DEF Fire, Idle, DInv, PendingSound
  <1>3. stack' = <<[dfr |-> d, mode |-> m, val |-> v]>> /\ UNCHANGED <<built, callbacks>>
    BY <1>2 DEF Fire, Enter
  <1>4. Len(stack') = 1 /\ DOMAIN stack' = {1} /\ stack'[1].mode = m /\ stack'[1].val = v
    BY <1>3
  <1>5. SpentSet(S)'
    BY <1>1, <1>3, <1>4 DEF SpentSet, Top, Depth
  <1> QED BY <1>3, <1>5 DEF Spent

(* The deferred that resumes another has spent its handlers: handle pairs  *)
(* come last in its queue.                                                 *)
LEMMA SpentResume ==
  ASSUME DInv, Spent, Resume
  PROVE  Spent'
  <1>1. PICK S \in SUBSET built : SpentSet(S)
    BY DEF Spent
  <1>2. DTypeOK /\ Running /\ Current # <<>> /\ Handler = HANDLE /\ callbacks' = Popped
          /\ built' = built
    BY DEF Resume, DInv
  <1>0. PICK S1 : S1 = S \cup {Top.dfr}
    OBVIOUS
  <1>3. /\ Top.dfr \in Deferreds /\ Current = callbacks[Top.dfr]
        /\ Current \in Seq(Pair) /\ Depth \in Nat \ {0} /\ DOMAIN stack = 1..Depth
        /\ Depth \in DOMAIN stack
    BY <1>2, RunningFrames DEF Current
  <1>4. Top.dfr \in built
    BY <1>3 DEF DInv, StackSound, Top
  <1>5. /\ Popped[Top.dfr] = Tail(Current)
        /\ \A e \in built \ {Top.dfr} : Popped[e] = callbacks[e]
    BY <1>2, <1>3 DEF Popped, Current, DTypeOK
  <1>6. /\ Len(Current) \in Nat \ {0} /\ 1 \in DOMAIN Current /\ Head(Current) = Current[1]
        /\ DOMAIN Tail(Current) = 1..(Len(Current) - 1)
        /\ \A i \in 1..(Len(Current) - 1) :
             Tail(Current)[i] = Current[i + 1] /\ i + 1 \in DOMAIN Current
    BY <1>2, <1>3, TailProperties
  <1>7. PICK t \in Deferreds : Current[1] = HandlePair(t) /\ t = Head(Current).user_data
    BY <1>2, <1>6, PoppedType, PairKinds DEF Handler
  <1>8. SpentQueues(S1, built, callbacks')
    <2>1. SpentQueues(S, built, Popped)
      BY <1>1, <1>2, SpentPopped DEF SpentSet, SpentQueues
    <2>2. ASSUME NEW i \in DOMAIN Popped[Top.dfr]
          PROVE  \E x \in S : Popped[Top.dfr][i] = HandlePair(x)
      <3>1. i + 1 \in DOMAIN Current /\ Popped[Top.dfr][i] = Current[i + 1] /\ 1 < i + 1
        BY <1>5, <1>6, <2>2
      <3>2. Current[1].cb = HANDLE
        BY <1>7 DEF HandlePair
      <3> QED BY <1>1, <1>3, <1>4, <1>6, <3>1, <3>2 DEF SpentSet
    <2> QED BY <1>0, <1>2, <1>5, <2>1, <2>2 DEF SpentQueues
  <1>9. stack' = Append(stack, [dfr |-> t, mode |-> Top.mode, val |-> Top.val])
    <2>1. WaitsAt(t, Top.dfr, 1)
      BY <1>3, <1>4, <1>6, <1>7 DEF WaitsAt
    <2>2. t \notin fired
      BY <1>2, <2>1, WaitsAtPlace DEF DInv, HandlesAwaited, Suspended
    <2> QED BY <1>7, <2>2 DEF Resume, Enter
  <1>10. /\ DOMAIN stack' = 1..(Depth + 1) /\ Depth' = Depth + 1
         /\ stack'[Depth + 1].dfr = t /\ stack'[Depth + 1].mode = Top.mode
         /\ stack'[Depth + 1].val = Top.val
         /\ \A i \in 1..Depth : stack'[i] = stack[i]
    BY <1>2, <1>9 DEF Depth, DTypeOK
  <1>11. \A i \in DOMAIN stack' : i < Depth' => stack'[i].dfr \in S1
    <2>1. \A i \in 1..(Depth + 1) : i < Depth + 1 => i \in 1..Depth /\ (i < Depth \/ i = Depth)
      BY <1>3
    <2> QED BY <1>0, <1>1, <1>3, <1>10, <2>1 DEF SpentSet, Top
  <1>12. Top'.mode = "cb" /\ Top'.val \in Faults => Top'.dfr \in S1
    <2> SUFFICES ASSUME Top.mode = "cb", Top.val \in Faults
                 PROVE  t \in S
      BY <1>0, <1>10 DEF Top
    <2>1. Top.dfr \in S
      BY <1>1, <1>2 DEF SpentSet, Running
    <2>2. PICK x \in S : Current[1] = HandlePair(x)
      BY <1>1, <1>3, <1>6, <2>1 DEF SpentSet
    <2> QED BY <1>7, <2>2, HandlePairInjective
  <1>13. SpentSet(S1)'
    BY <1>2, <1>8, <1>11, <1>12 DEF SpentSet, SpentQueues
  <1>14. S1 \in SUBSET built'
    BY <1>0, <1>2, <1>4
  <1> QED BY <1>13, <1>14 DEF Spent

(* The pairs that are appended resume the innermost activation, then those *)
(* below it.                                                               *)
LEMMA SpentChain ==
  ASSUME DInv, Spent, NEW d \in Deferreds, NEW chain \in Chains,
         NEW registered \in BOOLEAN, Chain(d, chain, registered)
  PROVE  Spent'
  <1>1. PICK S \in SUBSET built : SpentSet(S)
    BY DEF Spent
  <1>2. /\ DTypeOK /\ Running /\ Current # <<>>
        /\ d \notin built /\ built' = built \cup {d} /\ stack' = <<>>
        /\ callbacks' = [Popped EXCEPT ![d] = chain \o HandlePairs]
    BY DEF Chain, Allocate, InHandler, DInv
  <1>3. SpentQueues(S, built, Popped)
    BY <1>1, <1>2, SpentPopped DEF SpentSet, SpentQueues
  <1>4. /\ callbacks'[d] = chain \o HandlePairs
        /\ \A e \in built : callbacks'[e] = Popped[e]
    BY <1>2, PoppedType DEF DTypeOK
  <1> DEFINE n == Len(chain)
  <1>5. /\ chain \in Seq(UserPair) /\ chain \in Seq(Pair) /\ n \in Nat
        /\ \A i \in 1..n : chain[i].cb # HANDLE
    <2>1. chain \in Seq(UserPair) /\ chain \in Seq(Pair)
      BY CallbacksAssumption DEF Pair
    <2>2. n \in Nat /\ \A i \in 1..n : chain[i] \in UserPair
      BY <2>1
    <2> QED BY <2>1, <2>2, UserPairIsNoHandle
  <1>6. /\ Depth \in Nat /\ DOMAIN stack = 1..Depth
        /\ HandlePairs \in Seq(Pair) /\ Len(HandlePairs) = Depth
        /\ \A i \in 1..Depth : HandlePairs[i] = HandlePair(stack[Depth + 1 - i].dfr)
    BY <1>2, RunningFrames, HandlePairsType
  <1>7. /\ DOMAIN callbacks'[d] = 1..(n + Depth)
        /\ \A i \in 1..n : callbacks'[d][i] = chain[i]
        /\ \A j \in 1..Depth : callbacks'[d][n + j] = HandlePairs[j]
    <2>0. HandlePairs \in Seq(Pair) /\ Len(HandlePairs) = Depth /\ chain \in Seq(Pair)
            /\ callbacks'[d] = chain \o HandlePairs
      BY <1>4, <1>5, <1>6
    <2>1. DOMAIN callbacks'[d] = 1..(n + Depth)
      BY <2>0, ConcatProperties
    <2>2. \A i \in 1..n : callbacks'[d][i] = chain[i]
      BY <1>4, <1>5, <1>6, ConcatProperties
    <2>3. \A j \in 1..Depth : callbacks'[d][n + j] = HandlePairs[j]
      BY <1>4, <1>5, <1>6, ConcatProperties
    <2> QED BY <2>1, <2>2, <2>3
  <1>8. ASSUME NEW i \in DOMAIN callbacks'[d], NEW j \in DOMAIN callbacks'[d],
               i < j, callbacks'[d][i].cb = HANDLE
        PROVE  \E t \in S : callbacks'[d][j] = HandlePair(t)
    <2>1. i \notin 1..n
      BY <1>5, <1>7, <1>8
    <2>2. PICK k \in 1..Depth : j = n + k /\ Depth + 1 - k \in 1..Depth /\ Depth + 1 - k < Depth
      <3>1. /\ j - n \in 1..Depth /\ j = n + (j - n)
            /\ Depth + 1 - (j - n) \in 1..Depth /\ Depth + 1 - (j - n) < Depth
        BY <1>5, <1>6, <1>7, <1>8, <2>1
      <3> QED BY <3>1
    <2>3. callbacks'[d][j] = HandlePair(stack[Depth + 1 - k].dfr)
      BY <1>6, <1>7, <2>2
    <2>4. stack[Depth + 1 - k].dfr \in S
      BY <1>1, <1>6, <2>2 DEF SpentSet
    <2> QED BY <2>3, <2>4
  <1>9. SpentSet(S)'
    <2>1. SpentQueues(S, built', callbacks')
      BY <1>2, <1>3, <1>4, <1>8 DEF SpentQueues
    <2>2. DOMAIN stack' = {}
      BY <1>2
    <2> QED BY <1>2, <2>1, <2>2 DEF SpentSet, SpentQueues
  <1> QED BY <1>2, <1>9 DEF Spent

(* The activation below the innermost has spent its handlers.              *)
LEMMA SpentFinishInner ==
  ASSUME DInv, Spent, FinishInner
  PROVE  Spent'
  <1>1. PICK S \in SUBSET built : SpentSet(S)
    BY DEF Spent
  <1>2. DTypeOK /\ Running /\ Depth > 1 /\ UNCHANGED <<built, callbacks>>
    BY DEF FinishInner, DInv
  <1>3. /\ Depth \in Nat /\ DOMAIN stack = 1..Depth
        /\ Depth - 1 \in Nat /\ Depth - 1 \in 1..Depth /\ Depth - 1 < Depth
        /\ \A i \in 1..(Depth - 1) : i \in 1..Depth /\ i < Depth
    BY <1>2, RunningFrames
  <1>4. /\ Depth' = Depth - 1 /\ DOMAIN stack' = 1..(Depth - 1)
        /\ \A i \in 1..(Depth - 1) : stack'[i].dfr = stack[i].dfr
    <2>1. stack' = [i \in 1..(Depth - 1) |->
                      IF i = Depth - 1
                      THEN [dfr |-> stack[i].dfr, mode |-> "cb", val |-> Top.val]
                      ELSE stack[i]]
      BY DEF FinishInner
    <2>2. Len(stack') = Depth - 1
      BY <1>3, <2>1
    <2> QED BY <2>1, <2>2 DEF Depth
  <1>5. \A i \in DOMAIN stack' : stack'[i].dfr \in S
    BY <1>1, <1>3, <1>4 DEF SpentSet
  <1>6. Top'.dfr \in S
    <2>1. Depth - 1 \in DOMAIN stack'
      BY <1>2, <1>3, <1>4
    <2> QED BY <1>4, <1>5, <2>1 DEF Top
  <1>7. SpentSet(S)'
    BY <1>1, <1>2, <1>5, <1>6 DEF SpentSet
  <1> QED BY <1>2, <1>7 DEF Spent

(* Nothing resumes the deferred that is freed.                             *)
LEMMA SpentFinishBase ==
  ASSUME DInv, Spent, FinishBase
  PROVE  Spent'
  <1>1. PICK S \in SUBSET built : SpentSet(S)
    BY DEF Spent
  <1>0. PICK S1 : S1 = S \ {Base}
    OBVIOUS
  <1>2. /\ DTypeOK /\ Running /\ Depth = 1 /\ built' = built \ {Base} /\ stack' = <<>>
        /\ callbacks' = callbacks
    BY DEF FinishBase, DInv
  <1>3. OnStack(Base)
    BY <1>2, RunningFrames DEF OnStack, Base
  <1>4. ASSUME NEW e \in built, NEW i \in DOMAIN callbacks[e], NEW t \in S,
               callbacks[e][i] = HandlePair(t)
        PROVE  t \in S1
    <2>1. WaitsAt(t, e, i)
      BY <1>4 DEF WaitsAt
    <2>2. ~OnStack(t)
      BY <1>2, <2>1, WaitsAtPlace DEF DInv, HandlesAwaited, Suspended
    <2> QED BY <1>0, <1>3, <2>2
  <1>5. SpentSet(S1)'
    <2>1. \A e \in S1 : \A i \in DOMAIN callbacks[e] :
            \E t \in S1 : callbacks[e][i] = HandlePair(t)
      BY <1>0, <1>1, <1>4 DEF SpentSet
    <2>2. \A e \in built' : \A i, j \in DOMAIN callbacks[e] :
            i < j /\ callbacks[e][i].cb = HANDLE =>
              \E t \in S1 : callbacks[e][j] = HandlePair(t)
      BY <1>1, <1>2, <1>4 DEF SpentSet
    <2>3. DOMAIN stack' = {}
      BY <1>2
    <2> QED BY <1>2, <2>1, <2>2, <2>3 DEF SpentSet
  <1>6. S1 \in SUBSET built'
    BY <1>0, <1>2
  <1> QED BY <1>5, <1>6 DEF Spent

(* Initially and after every step, unhandled faults find only resumptions. *)
LEMMA SpentStep ==
  ASSUME DInv, Spent, [DNext]_dvars
  PROVE  Spent'
  <1>0. DTypeOK /\ stack \in Seq(Frame)
    BY DEF DInv, DTypeOK
  <1>1. ASSUME NEW d \in Deferreds, NEW chain \in Chains, NEW r \in BOOLEAN,
               Build(d, chain, r)
        PROVE  Spent'
    BY <1>1, SpentBuild
  <1>2. ASSUME NEW d \in Deferreds, Fire(d, "cb", RESPONSE)
        PROVE  Spent'
    BY <1>2, SpentFire, CallbacksAssumption
  <1>3. ASSUME NEW d \in Deferreds, NEW f \in Faults, Fire(d, "err", f)
        PROVE  Spent'
    BY <1>3, SpentFire
  <1>4. CASE UserCode
    <2>1. CASE Respond
      BY <1>0, <2>1, SpentTurn, CallbacksAssumption DEF Respond, InHandler
    <2>2. ASSUME NEW f \in Faults, Fault(f)
          PROVE  Spent'
      BY <1>0, <2>2, SpentTurn DEF Fault, InHandler, FaultedQueue
    <2> QED BY <1>4, <2>1, <2>2, SpentChain DEF UserCode
  <1>5. CASE Engine
    <2>1. CASE SkipPair
      BY <1>0, <2>1, SpentTurn DEF SkipPair
    <2> QED BY <1>5, <2>1, SpentResume, SpentFinishInner, SpentFinishBase DEF Engine
  <1>6. CASE DropPending \/ UNCHANGED dvars
    <2>1. UNCHANGED <<built, callbacks, stack>>
      BY <1>6 DEF DropPending, dvars
    <2>2. \A S : SpentSet(S)' <=> SpentSet(S)
      BY <2>1 DEF SpentSet, Top, Depth
    <2> QED BY <2>1, <2>2 DEF Spent
  <1> QED BY <1>1, <1>2, <1>3, <1>4, <1>5, <1>6 DEF DNext

(* A spent deferred calls no handler of the user.                          *)
LEMMA SpentCallsNone ==
  ASSUME DInv, Spent
  PROVE  FaultsReachNoCallback
  <1> SUFFICES ASSUME InHandler, Top.mode = "cb", Top.val \in Faults
               PROVE  FALSE
    BY DEF FaultsReachNoCallback
  <1>1. DTypeOK /\ Running /\ Current # <<>> /\ Handler \in Callbacks
    BY DEF InHandler, DInv
  <1>2. PICK S \in SUBSET built : SpentSet(S)
    BY DEF Spent
  <1>3. Top.dfr \in S
    BY <1>1, <1>2 DEF SpentSet, Running
  <1>4. 1 \in DOMAIN Current /\ Head(Current) = Current[1]
    BY <1>1, RunningFrames, TailProperties
  <1>5. PICK t \in S : Current[1] = HandlePair(t)
    BY <1>2, <1>3, <1>4 DEF SpentSet, Current
  <1>6. Handler = HANDLE
    BY <1>4, <1>5 DEF Handler, HandlePair
  <1> QED BY <1>1, <1>6, CallbacksAssumption

(* A fault that no errback has handled reaches no callback of the user,    *)
(* although the engine hands it on as the result of a response.            *)
THEOREM FaultsNeverReachCallbacks == DSpec => []FaultsReachNoCallback
  <1>1. DInit => DInv /\ Spent
    <2>1. DInit => SpentSet({})
      BY DEF DInit, SpentSet
    <2> QED BY <2>1, InvInit DEF Spent
  <1>2. (DInv /\ Spent) /\ [DNext]_dvars => (DInv /\ Spent)'
    BY InvStep, SpentStep
  <1>3. DInv /\ Spent => FaultsReachNoCallback
    BY SpentCallsNone
  <1> QED BY <1>1, <1>2, <1>3, PTL DEF DSpec
=============================================================================
