-------------------------- MODULE ConnectionSafety --------------------------
(***************************************************************************)
(* Safety of the log-in, the keep-alive and the sweep, for any timing and  *)
(* any number of deferreds.                                                *)
(***************************************************************************)
EXTENDS ConnectionProofs

(* The requests in the table that have not begun to fire.                  *)
Waiting == pending \ is_firing

(* Those stay as they are, and d comes at most, with a queue that begins   *)
(* as chain does.                                                          *)
WaitingAnd(d, chain) ==
  /\ d \notin Waiting
  /\ Waiting \subseteq Waiting' /\ Waiting' \subseteq Waiting \cup {d}
  /\ \A e \in Waiting : callbacks'[e] = callbacks[e]
  /\ callbacks'[d][1] = chain[1]

WaitingSame ==
  Waiting' = Waiting /\ \A e \in Waiting : callbacks'[e] = callbacks[e]

(* A step that does not concern the keep-alive: whatever it adds to the    *)
(* table is no ping.                                                       *)
NoAlarm ==
  /\ Waiting \subseteq Waiting'
  /\ \A e \in Waiting : callbacks'[e] = callbacks[e] /\ ttl'[e] = ttl[e]
  /\ \A e \in Waiting' \ Waiting : callbacks'[e][1] # PingPair
  /\ sweep' = sweep
  /\ alarm' \in {alarm, Period}

(* The pings that are not being swept expire before the next is due: there *)
(* is one at most.                                                         *)
Pings == {d \in Waiting \ sweep : callbacks[d][1] = PingPair}

OnePingInTime ==
  ~freed =>
    /\ \A d \in Pings : ttl[d] < alarm
    /\ \A d, e \in Pings : d = e

(* Without a token whatever is left of the log-in runs its errbacks.       *)
NoTokenNoCallback ==
  ~token /\ stack # <<>> /\ Current # <<>> /\ Current[1] \in LastPairs
    => Top.mode = "err"

-----------------------------------------------------------------------------
(* Only its reply takes a request out of those that wait.                  *)
LEMMA WaitingBuild ==
  ASSUME EngineOK, NEW d, NEW chain, NEW registered, Build(d, chain, registered)
  PROVE  WaitingAnd(d, chain)
  <1>1. /\ d \in Deferreds \ built /\ is_firing' = is_firing \ {d}
        /\ callbacks' = [callbacks EXCEPT ![d] = chain]
        /\ pending' \in {pending, pending \cup {d}}
    BY DEF Build, Allocate
  <1>2. pending \subseteq built /\ pending \subseteq Deferreds
    BY DEF EngineOK, DInv, PendingSound, DTypeOK
  <1>3. /\ callbacks'[d] = chain
        /\ \A e \in Deferreds \ {d} : callbacks'[e] = callbacks[e]
    BY <1>1 DEF EngineOK, DInv, DTypeOK
  <1> QED BY <1>1, <1>2, <1>3 DEF WaitingAnd, Waiting

(* The same when a handler returns the deferred of its request.            *)
LEMMA WaitingChain ==
  ASSUME EngineOK, NEW d, NEW chain \in {WorkspacesChain, SwitchChain},
         Chain(d, chain, TRUE)
  PROVE  WaitingAnd(d, chain)
  <1>1. /\ d \in Deferreds \ built /\ is_firing' = is_firing \ {d}
        /\ callbacks' = [Popped EXCEPT ![d] = chain \o HandlePairs]
        /\ pending' = (pending \ {Base}) \cup {d}
        /\ Running /\ Current # <<>>
    BY DEF Chain, Allocate, Answered, InHandler
  <1>2. pending \subseteq built /\ pending \subseteq Deferreds /\ DTypeOK
    BY DEF EngineOK, DInv, PendingSound, DTypeOK
  <1>3. Base \in is_firing /\ Top.dfr \in is_firing
    BY <1>1, <1>2, RunningFrames DEF EngineOK, DInv, StackSound, Base, Top
  <1>4. \A e \in Deferreds \ {Top.dfr} : Popped[e] = callbacks[e]
    BY <1>1, ShapedHead DEF EngineOK
  <1>5. /\ callbacks'[d] = chain \o HandlePairs
        /\ \A e \in Deferreds \ {d} : callbacks'[e] = Popped[e]
    BY <1>1, <1>2, PoppedType DEF DTypeOK
  <1>6. (chain \o HandlePairs)[1] = chain[1]
    <2>1. chain \in Seq(Pair) /\ Len(chain) = 1
      BY ChainsAssumption, CallbacksAssumption
      DEF ConnectionChains, Pair, WorkspacesChain, SwitchChain
    <2>2. HandlePairs \in Seq(Pair)
      BY <1>1, <1>2, HandlePairsType
    <2> QED BY <2>1, <2>2, ConcatProperties
  <1> QED BY <1>1, <1>2, <1>3, <1>4, <1>5, <1>6 DEF WaitingAnd, Waiting

(* The loops and the handlers are about deferreds that fire.               *)
LEMMA WaitingEngine ==
  ASSUME EngineOK, Engine \/ Respond \/ \E f \in Faults : Fault(f)
  PROVE  WaitingSame
  <1>0. DTypeOK /\ Running /\ pending \subseteq Deferreds
    BY DEF EngineOK, DInv, DTypeOK, Engine, SkipPair, Resume, FinishInner,
      FinishBase, Respond, Fault, InHandler
  <1>1. Base \in is_firing /\ Top.dfr \in is_firing
    BY <1>0, RunningFrames DEF EngineOK, DInv, StackSound, Base, Top
  <1>2. callbacks' \in {callbacks, Popped}
    BY DEF Engine, SkipPair, Resume, FinishInner, FinishBase, Respond, Fault,
      FaultedQueue
  <1>3. \A e \in Waiting : callbacks'[e] = callbacks[e]
    BY <1>0, <1>1, <1>2 DEF Popped, Waiting, DTypeOK
  <1>4. Waiting' = Waiting
    <2>1. CASE Resume
      BY <2>1, ResumesRest DEF Resume, Waiting, EngineOK
    <2>2. CASE FinishBase
      BY <1>1, <2>2 DEF FinishBase, Answered, Waiting
    <2>3. CASE ~(Resume \/ FinishBase)
      BY <2>3 DEF Engine, SkipPair, FinishInner, Respond, Fault, Waiting
    <2> QED BY <2>1, <2>2, <2>3
  <1> QED BY <1>3, <1>4 DEF WaitingSame

(* The queues that are not a ping's.                                       *)
LEMMA NotPing ==
  /\ AuthChain[1] # PingPair /\ ContactsChain[1] # PingPair
  /\ WorkspacesChain[1] # PingPair /\ SwitchChain[1] # PingPair
  /\ PingChain = <<PingPair>>
  <1>1. NULL \notin Names
    BY NullAssumption
  <1> QED
    BY <1>1, PairFields
    DEF AuthChain, ContactsChain, WorkspacesChain, SwitchChain, PingChain,
      PingPair, UserCallback, Names

(* What a new request may do to the expirations.                           *)
LEMMA ExpiresRest ==
  ASSUME Timers, NEW d, NEW timeout, ExpiresIn(d, timeout)
  PROVE  /\ \A e \in Deferreds \ {d} : ttl'[e] = ttl[e]
         /\ d \in Deferreds => ttl'[d] = timeout
  BY DEF ExpiresIn, Timers

(* A step that does not touch the engine or its timers.                    *)
LEMMA NoAlarmStill ==
  ASSUME ConnectionInv, WaitingSame, UNCHANGED <<ttl, alarm, sweep>>
  PROVE  NoAlarm
  BY DEF WaitingSame, NoAlarm

(* A step that makes a request other than a ping.                          *)
LEMMA NoAlarmRequest ==
  ASSUME ConnectionInv, NEW d, NEW chain, NEW timeout, WaitingAnd(d, chain),
         chain[1] # PingPair, ExpiresIn(d, timeout), sweep' = sweep,
         alarm' \in {alarm, Period}
  PROVE  NoAlarm
  <1>1. Timers /\ Waiting \subseteq Deferreds
    BY TypeParts DEF ConnectionInv, EngineOK, DInv, DTypeOK, Waiting
  <1>2. \A e \in Waiting : ttl'[e] = ttl[e]
    BY <1>1, ExpiresRest DEF WaitingAnd
  <1> QED BY <1>2 DEF WaitingAnd, NoAlarm

(* Every step, but for those that the lemmas below are about.              *)
LEMMA NoAlarmStep ==
  ASSUME ConnectionInv, [CNext]_cvars
  PROVE  NoAlarm \/ freed' \/ KeepAlive \/ Timeout \/ Tick \/ Reply
  <1>0. EngineOK
    BY DEF ConnectionInv
  <1>1. CASE \/ UNCHANGED cvars \/ StartHelo \/ HeloProceeds \/ HeloRefused
             \/ ConnectFails \/ InputFails \/ ServerDies \/ StaleCallback
    <2>1. UNCHANGED <<callbacks, is_firing, pending>> /\ UNCHANGED <<ttl, alarm, sweep>>
      BY <1>1 DEF cvars, dvars, ownvars, StartHelo, HeloProceeds, HeloRefused,
        ConnectFails, InputFails, ServerDies, StaleCallback
    <2>2. WaitingSame
      BY <2>1 DEF WaitingSame, Waiting
    <2> QED BY <2>1, <2>2, NoAlarmStill
  <1>2. CASE Invalid \/ Propagate
    <2>1. PICK f \in Faults : Fault(f)
      BY <1>0, <1>2, ErrbackFault, ChainsAssumption DEF Invalid, Propagate
    <2>2. UNCHANGED <<ttl, alarm, sweep>>
      BY <1>2 DEF Invalid, Propagate, ownvars
    <2> QED BY <1>0, <2>1, <2>2, WaitingEngine, NoAlarmStill
  <1>3. CASE SwitchCb \/ DoAuthCb \/ DoAuthErr \/ Handled \/ PingErr
    <2>1. Respond /\ UNCHANGED <<ttl, alarm, sweep>>
      BY <1>3 DEF SwitchCb, DoAuthCb, DoAuthErr, Handled, PingErr, ownvars
    <2> QED BY <1>0, <2>1, WaitingEngine, NoAlarmStill
  <1>4. CASE RunEngine
    <2>1. Engine /\ UNCHANGED <<ttl, alarm, sweep>>
      BY <1>4 DEF RunEngine
    <2> QED BY <1>0, <2>1, WaitingEngine, NoAlarmStill
  <1>5. CASE HeloEnded
    <2>1. PICK d : Build(d, AuthChain, TRUE) /\ ExpiresIn(d, DefaultTimeout)
      BY <1>5 DEF HeloEnded
    <2>2. sweep' = sweep /\ alarm' = alarm
      BY <1>5 DEF HeloEnded
    <2> QED BY <1>0, <2>1, <2>2, WaitingBuild, NotPing, NoAlarmRequest
  <1>6. CASE RefreshContacts
    <2>1. PICK d : /\ Build(d, ContactsChain, token)
                   /\ ExpiresIn(d, IF token THEN DefaultTimeout ELSE 0)
      BY <1>6 DEF RefreshContacts
    <2>2. sweep' = sweep /\ alarm' = alarm
      BY <1>6 DEF RefreshContacts
    <2> QED BY <1>0, <2>1, <2>2, WaitingBuild, NotPing, NoAlarmRequest
  <1>7. CASE Connected
    <2>1. PICK d : Build(d, ContactsChain, TRUE) /\ ExpiresIn(d, DefaultTimeout)
      BY <1>7 DEF Connected, Request
    <2>2. sweep' = sweep /\ alarm' = Period
      BY <1>7 DEF Connected
    <2> QED BY <1>0, <2>1, <2>2, WaitingBuild, NotPing, NoAlarmRequest
  <1>8. CASE AuthCb
    <2>1. PICK d : /\ Chain(d, WorkspacesChain, TRUE)
                   /\ ExpiresIn(d, DefaultTimeout)
                   /\ sweep' = sweep /\ alarm' = alarm
      BY <1>8 DEF AuthCb, ChainRequest
    <2> QED BY <1>0, <2>1, WaitingChain, NotPing, NoAlarmRequest
  <1>9. CASE WorkspacesCb
    <2>1. PICK d : /\ Chain(d, SwitchChain, TRUE)
                   /\ ExpiresIn(d, DefaultTimeout)
                   /\ sweep' = sweep /\ alarm' = alarm
      BY <1>9 DEF WorkspacesCb, ChainRequest
    <2> QED BY <1>0, <2>1, WaitingChain, NotPing, NoAlarmRequest
  <1>10. CASE AuthFailed \/ Disconnect \/ LogOff
    BY <1>10 DEF AuthFailed, Disconnect, LogOff, Close
  <1>11. \/ UNCHANGED cvars \/ StartHelo \/ HeloProceeds \/ HeloRefused
         \/ ConnectFails \/ InputFails \/ ServerDies \/ StaleCallback
         \/ Invalid \/ Propagate
         \/ SwitchCb \/ DoAuthCb \/ DoAuthErr \/ Handled \/ PingErr
         \/ RunEngine \/ HeloEnded \/ RefreshContacts \/ Connected
         \/ AuthCb \/ WorkspacesCb \/ AuthFailed \/ Disconnect \/ LogOff
         \/ KeepAlive \/ Timeout \/ Tick \/ Reply
    BY DEF CNext, Network, Handlers, HeloReads
  <1> QED
    BY <1>1, <1>2, <1>3, <1>4, <1>5, <1>6, <1>7, <1>8, <1>9, <1>10, <1>11

-----------------------------------------------------------------------------
(* What an event takes out of those that wait.                             *)
LEMMA WaitingFire ==
  ASSUME EngineOK, NEW d, NEW mode, NEW val, Fire(d, mode, val)
  PROVE  Waiting' = Waiting \ {d} /\ UNCHANGED callbacks
  BY DEF Fire, Enter, Waiting

(* At the keep-alive, a ping is added and the expired requests are swept.  *)
LEMMA WaitingKeepAlive ==
  ASSUME ConnectionInv, KeepAlive
  PROVE  /\ sweep = {} /\ alarm = 0 /\ alarm' = Period /\ ~freed /\ ~freed'
         /\ sweep' = {e \in Waiting : ttl[e] < 0}
         /\ \E d \in Deferreds \ Waiting :
              /\ Waiting \subseteq Waiting' /\ Waiting' \subseteq Waiting \cup {d}
              /\ \A e \in Waiting : callbacks'[e] = callbacks[e]
              /\ ttl'[d] = PingTimeout
  <1>0. EngineOK /\ Timers
    BY TypeParts DEF ConnectionInv
  <1>1. PICK d : Build(d, PingChain, TRUE) /\ ExpiresIn(d, PingTimeout)
    BY DEF KeepAlive, Request
  <1>2. WaitingAnd(d, PingChain) /\ d \in Deferreds /\ ttl'[d] = PingTimeout
    BY <1>0, <1>1, WaitingBuild, ExpiresRest DEF Build, Allocate
  <1>3. sweep' = {e \in Waiting : ttl[e] < 0}
    BY DEF KeepAlive, Expired, Waiting
  <1>4. sweep = {} /\ alarm = 0 /\ alarm' = Period /\ ~freed /\ ~freed'
    BY DEF KeepAlive, Quiet, MainLoop
  <1> QED BY <1>2, <1>3, <1>4 DEF WaitingAnd

-----------------------------------------------------------------------------
(* What has been freed stays freed.                                        *)
LEMMA FreedStays == freed /\ [CNext]_cvars => freed'
  BY DEF CNext, Network, Handlers, HeloReads, HeloEnded, StartHelo,
    HeloProceeds, HeloRefused, ConnectFails, InputFails, ServerDies,
    StaleCallback, Reply, RefreshContacts, Invalid, Propagate, AuthCb,
    WorkspacesCb, ChainRequest, SwitchCb, Connected, DoAuthCb, AuthFailed,
    DoAuthErr, Handled, PingErr, RunEngine, KeepAlive, Timeout, Tick,
    Disconnect, LogOff, Close, cvars, ownvars

(* The keys of a sweep wait for their turn.                                *)
LEMMA SweptStep ==
  ASSUME ConnectionInv, SweptStillPending, [CNext]_cvars
  PROVE  SweptStillPending'
  <1>0. EngineOK /\ SweptStillPending = (~freed => sweep \subseteq Waiting)
    BY DEF ConnectionInv, SweptStillPending, Waiting
  <1>1. SweptStillPending' <=> (~freed' => sweep' \subseteq Waiting')
    BY DEF SweptStillPending, Waiting
  <1>2. freed => freed'
    BY FreedStays
  <1>3. CASE NoAlarm
    BY <1>0, <1>1, <1>2, <1>3 DEF NoAlarm
  <1>4. CASE KeepAlive
    BY <1>1, <1>4, WaitingKeepAlive
  <1>5. CASE Timeout
    <2>1. PICK d \in sweep :
            /\ IF d \in pending THEN Fire(d, "err", FAULT) ELSE UNCHANGED dvars
            /\ sweep' = sweep \ {d}
      BY <1>5 DEF Timeout
    <2>2. Waiting' = Waiting \ {d} \/ Waiting' = Waiting
      BY <1>0, <2>1, WaitingFire DEF dvars, Waiting
    <2> QED BY <1>0, <1>1, <1>2, <2>1, <2>2
  <1>6. CASE Tick
    BY <1>0, <1>1, <1>6 DEF Tick, dvars, Waiting
  <1>7. CASE Reply
    BY <1>1, <1>7 DEF Reply, Quiet, MainLoop, ownvars
  <1>8. CASE freed'
    BY <1>1, <1>8
  <1> QED BY <1>3, <1>4, <1>5, <1>6, <1>7, <1>8, NoAlarmStep

(* One ping, which expires in time.                                        *)
LEMMA PingStep ==
  ASSUME ConnectionInv, OnePingInTime, [CNext]_cvars
  PROVE  OnePingInTime'
  <1>0. EngineOK /\ Timers /\ Waiting \subseteq Deferreds
    BY TypeParts DEF ConnectionInv, EngineOK, DInv, DTypeOK, Waiting
  <1>1. Pings' = {d \in Waiting' \ sweep' : callbacks'[d][1] = PingPair}
    BY DEF Pings
  <1>2. CASE ~freed' /\ ~freed
    <2>1. \A d, e \in Pings : d = e
      BY <1>2 DEF OnePingInTime
    <2>2. \A d \in Pings : ttl[d] < alarm
      BY <1>2 DEF OnePingInTime
    <2>3. CASE NoAlarm
      <3>1. Pings' \subseteq Pings /\ \A d \in Pings : ttl'[d] = ttl[d]
        BY <1>1, <2>3 DEF NoAlarm, Pings
      <3>2. alarm' \in {alarm, Period} /\ alarm \in 0..Period
        BY <1>0, <2>3 DEF NoAlarm, Timers
      <3>3. \A d \in Pings : ttl[d] < alarm'
        <4> SUFFICES ASSUME NEW d \in Pings PROVE ttl[d] < alarm'
          OBVIOUS
        <4>1. ttl[d] \in Int /\ ttl[d] < alarm
          BY <1>0, <2>2, TimingAssumption DEF Timers, Pings
        <4> QED BY <3>2, <4>1, TimingAssumption
      <3> QED BY <2>1, <3>1, <3>3 DEF OnePingInTime
    <2>4. CASE KeepAlive
      <3>1. PICK d \in Deferreds \ Waiting :
              /\ Waiting' \subseteq Waiting \cup {d}
              /\ \A e \in Waiting : callbacks'[e] = callbacks[e]
              /\ ttl'[d] = PingTimeout
        BY <2>4, WaitingKeepAlive
      <3>2. /\ sweep = {} /\ alarm = 0 /\ alarm' = Period
            /\ sweep' = {e \in Waiting : ttl[e] < 0}
        BY <2>4, WaitingKeepAlive
      <3>3. \A e \in Pings' : e = d
        <4> SUFFICES ASSUME NEW e \in Pings', e # d PROVE FALSE
          OBVIOUS
        <4>1. e \in Waiting /\ callbacks[e][1] = PingPair /\ e \notin sweep'
          BY <1>1, <3>1
        <4>2. e \in Pings
          BY <3>2, <4>1 DEF Pings
        <4>3. ttl[e] < 0
          BY <2>2, <3>2, <4>2
        <4> QED BY <3>2, <4>1, <4>3
      <3>4. PingTimeout < Period
        BY TimingAssumption
      <3>5. \A e \in Pings' : ttl'[e] < alarm'
        BY <3>1, <3>2, <3>3, <3>4
      <3> QED BY <3>3, <3>5 DEF OnePingInTime
    <2>5. CASE Timeout
      <3>1. PICK d \in sweep :
              /\ IF d \in pending THEN Fire(d, "err", FAULT) ELSE UNCHANGED dvars
              /\ sweep' = sweep \ {d}
        BY <2>5 DEF Timeout
      <3>2. Waiting' = Waiting \ {d} /\ UNCHANGED callbacks
        BY <1>0, <3>1, WaitingFire DEF dvars, Waiting
      <3>3. Pings' = Pings
        BY <1>1, <3>1, <3>2 DEF Pings
      <3>4. UNCHANGED <<ttl, alarm>>
        BY <2>5 DEF Timeout
      <3> QED BY <2>1, <2>2, <3>3, <3>4 DEF OnePingInTime
    <2>6. CASE Tick
      <3>1. Pings' = Pings
        BY <2>6 DEF Tick, dvars, Pings, Waiting
      <3>2. ASSUME NEW d \in Pings
            PROVE  ttl'[d] < alarm'
        <4>1. d \in Deferreds /\ d \in pending
          BY <1>0, <3>2 DEF Pings, Waiting
        <4>2. ttl'[d] = IF ttl[d] >= 0 THEN ttl[d] - 1 ELSE ttl[d]
          BY <2>6, <4>1 DEF Tick
        <4>3. alarm' = IF alarm > 0 THEN alarm - 1 ELSE 0
          BY <2>6 DEF Tick
        <4>4. ttl[d] \in -1..(DefaultTimeout + PingTimeout) /\ alarm \in 0..Period
          BY <1>0, <4>1 DEF Timers
        <4>5. ttl[d] < alarm
          BY <2>2, <3>2
        <4> QED BY <4>2, <4>3, <4>4, <4>5, TimingAssumption
      <3> QED BY <2>1, <3>1, <3>2 DEF OnePingInTime
    <2>7. CASE Reply
      <3>1. PICK d \in Deferreds : Fire(d, "cb", RESPONSE) \/ Fire(d, "err", FAULT)
        BY <2>7 DEF Reply
      <3>2. Waiting' \subseteq Waiting /\ UNCHANGED callbacks
        BY <1>0, <3>1, WaitingFire
      <3>3. UNCHANGED <<ttl, alarm, sweep>>
        BY <2>7 DEF Reply, ownvars
      <3>4. Pings' \subseteq Pings
        BY <1>1, <3>2, <3>3 DEF Pings
      <3> QED BY <2>1, <2>2, <3>3, <3>4 DEF OnePingInTime
    <2> QED BY <1>2, <2>3, <2>4, <2>5, <2>6, <2>7, NoAlarmStep
  <1>3. CASE freed'
    BY <1>3 DEF OnePingInTime
  <1>4. freed => freed'
    BY FreedStays
  <1> QED BY <1>2, <1>3, <1>4

(* The socket is closed by code that reports it.                           *)
LEMMA LossStep ==
  ASSUME ConnectionInv, LossIsReported, [CNext]_cvars
  PROVE  LossIsReported'
  <1>1. NULL # "reading"
    BY NullAssumption DEF Names
  <1>2. \/ UNCHANGED <<socket, error>> \/ error' \/ socket' = "reading"
    BY DEF CNext, Network, Handlers, HeloReads, HeloEnded, StartHelo,
      HeloProceeds, HeloRefused, ConnectFails, InputFails, ServerDies,
      StaleCallback, Reply, RefreshContacts, Invalid, Propagate, AuthCb,
      WorkspacesCb, ChainRequest, SwitchCb, Connected, DoAuthCb, AuthFailed,
      DoAuthErr, Handled, PingErr, RunEngine, KeepAlive, Timeout, Tick,
      Disconnect, LogOff, Close, cvars, ownvars, Lost, SendChunks, Request
  <1>3. ASSUME socket' = NULL
        PROVE  error'
    <2>1. CASE UNCHANGED <<socket, error>>
      BY <1>3, <2>1 DEF LossIsReported
    <2> QED BY <1>1, <1>2, <1>3, <2>1
  <1> QED BY <1>3 DEF LossIsReported

-----------------------------------------------------------------------------
(* After a pair that is not of the chain of the log-in comes nothing that  *)
(* ends the log-in.                                                        *)
LEMMA TailOfOthers ==
  ASSUME EngineOK, Running, Current # <<>>, Current[1] \notin LogInPairs,
         Tail(Current) # <<>>
  PROVE  Tail(Current)[1] \notin LastPairs
  <1>1. /\ Current \in Seq(Pair)
        /\ Whole(Current) \/ Rest(Current)
        /\ Rest(Current) => Tail(Current) = <<>>
    BY ShapedHead DEF EngineOK
  <1>2. Current[1] \in OtherPairs /\ (Len(Current) = 2 => Current[2] = ContactsPair)
    BY <1>1 DEF Whole
  <1>3. /\ Len(Current) \in Nat \ {0} /\ Len(Tail(Current)) = Len(Current) - 1
        /\ \A i \in 1..(Len(Current) - 1) : Tail(Current)[i] = Current[i + 1]
        /\ Tail(Current) \in Seq(Pair)
    BY <1>1, TailProperties
  <1>4. Len(Current) = 2
    BY <1>1, <1>3 DEF Whole
  <1>5. 1 \in 1..(Len(Current) - 1) /\ 1 + 1 = 2
    BY <1>4
  <1>6. Tail(Current)[1] = Current[2]
    BY <1>3, <1>5
  <1> QED BY <1>2, <1>4, <1>6, PairsDiffer

(* The innermost activation after a turn of its loop.                      *)
LEMMA TurnedTop ==
  ASSUME EngineOK, Running, Current # <<>>, NEW mode, NEW val,
         stack' = stack \/ GoOn(mode, val)
  PROVE  /\ Top'.dfr = Top.dfr
         /\ stack' = stack => Top' = Top
         /\ GoOn(mode, val) => Top'.mode = mode
  <1>1. stack \in Seq(Frame) /\ Depth \in 1..Len(stack)
    BY RunningFrames DEF EngineOK, DInv, DTypeOK, Depth
  <1> QED BY <1>1 DEF GoOn, Top, Depth

(* A response is taken on past a pair that is not of the log-in, or a pair *)
(* has no handler.                                                         *)
LEMMA TokenPopped ==
  ASSUME EngineOK, Running, Current # <<>>, Current[1] \notin LogInPairs,
         callbacks' = Popped, Top'.dfr = Top.dfr
  PROVE  NoTokenNoCallback'
  <1>1. Current' = Tail(Current)
    BY ShapedHead DEF Current, EngineOK
  <1> QED BY <1>1, TailOfOthers DEF NoTokenNoCallback

(* The handlers that respond, other than that of the last request of the   *)
(* log-in, are not of the chain of the log-in.                             *)
LEMMA LogInResponds ==
  ASSUME EngineOK,
         NEW h \in {"do_auth_cb", "do_auth_err", "get_contacts_cb",
                    "contacts_cb", "contacts_err", "ping_err"},
         Calling(h)
  PROVE  Current[1] \notin LogInPairs
  <1>1. IF Top.mode = "cb" THEN Current[1].cb = h ELSE Current[1].err = h
    BY CallingPair DEF EngineOK, Names
  <1> QED BY <1>1, PairFields DEF LogInPairs

(* The token is not lost, and without one the log-in does not go on.       *)
LEMMA TokenStep ==
  ASSUME ConnectionInv, NoTokenNoCallback, [CNext]_cvars
  PROVE  NoTokenNoCallback'
  <1>0. EngineOK /\ DTypeOK /\ EngineOK'
    BY ConnectionStep DEF ConnectionInv, EngineOK, DInv, EngineStep
  <1>1. CASE token'
    BY <1>1 DEF NoTokenNoCallback
  <1>2. CASE UNCHANGED <<token, stack, callbacks>>
    BY <1>2 DEF NoTokenNoCallback, Current, Top, Depth
  <1>3. ASSUME NEW d, NEW chain, NEW registered, Build(d, chain, registered),
               UNCHANGED token
        PROVE  NoTokenNoCallback'
    <2>1. CASE stack = <<>>
      BY <1>3, <2>1 DEF Build, NoTokenNoCallback
    <2>2. CASE stack # <<>>
      <3>1. /\ UNCHANGED stack /\ d \notin built
            /\ callbacks' = [callbacks EXCEPT ![d] = chain]
        BY <1>3 DEF Build, Allocate
      <3>2. Running
        BY <1>0, <2>2 DEF Running, EngineOK, DInv
      <3>3. Top.dfr \in Deferreds /\ Top.dfr \in built
        BY <1>0, <3>2, RunningFrames DEF EngineOK, DInv, StackSound, Top
      <3>4. Current' = Current /\ Top' = Top
        BY <1>0, <3>1, <3>3 DEF Current, Top, Depth, DTypeOK
      <3> QED BY <1>3, <3>1, <3>4 DEF NoTokenNoCallback
    <2> QED BY <2>1, <2>2
  <1>4. ASSUME NEW d \in Deferreds, NEW mode, NEW val, Fire(d, mode, val),
               UNCHANGED token
        PROVE  NoTokenNoCallback'
    <2>1. /\ stack = <<>> /\ d \in pending /\ UNCHANGED callbacks
          /\ stack' = Append(stack, [dfr |-> d, mode |-> mode, val |-> val])
      BY <1>0, <1>4 DEF Fire, Enter, Idle, EngineOK, DInv
    <2>2. Current' = callbacks[d]
      BY <2>1 DEF Current, Top, Depth
    <2>3. Whole(callbacks[d])
      BY <1>0, <2>1 DEF EngineOK, QueuesShaped, DInv, PendingSound
    <2> QED BY <2>2, <2>3, PairsDiffer DEF NoTokenNoCallback, Whole
  <1>5. ASSUME NEW f, Fault(f), UNCHANGED token
        PROVE  NoTokenNoCallback'
    <2>1. Running /\ Current # <<>> /\ GoOn("err", f)
      BY <1>5 DEF Fault, InHandler
    <2>2. Top'.mode = "err"
      BY <1>0, <2>1, TurnedTop
    <2> QED BY <2>2 DEF NoTokenNoCallback
  <1>6. ASSUME Respond, Current[1] \notin LogInPairs
        PROVE  NoTokenNoCallback'
    <2>1. /\ Running /\ Current # <<>> /\ GoOn("cb", RESPONSE)
          /\ callbacks' = Popped
      BY <1>6 DEF Respond, InHandler
    <2> QED BY <1>0, <1>6, <2>1, TurnedTop, TokenPopped
  <1>7. CASE RunEngine
    <2>0. UNCHANGED token
      BY <1>7 DEF RunEngine
    <2>1. CASE SkipPair
      <3>1. /\ Running /\ Current # <<>> /\ stack' = stack /\ callbacks' = Popped
            /\ IF Top.mode = "cb" THEN Current[1].cb = NULL ELSE Current[1].err = NULL
        BY <1>0, <2>1, ShapedHead DEF SkipPair, Handler, EngineOK
      <3>2. Current[1] \notin LogInPairs
        BY <3>1, PairFields, NullAssumption DEF LogInPairs, Names
      <3> QED BY <1>0, <3>1, <3>2, TurnedTop, TokenPopped
    <2>2. CASE Resume
      <3>1. /\ Running /\ Current # <<>>
            /\ Current[1] \in LastPairs
            /\ \E t : stack' = Append(stack, [dfr |-> t, mode |-> Top.mode, val |-> Top.val])
        BY <1>0, <2>2, ResumesRest DEF Resume, EngineOK
      <3>2. Top'.mode = Top.mode
        <4>1. stack \in Seq(Frame) /\ Depth = Len(stack)
          BY <1>0 DEF DTypeOK, Depth
        <4> QED BY <3>1, <4>1 DEF Top, Depth
      <3> QED BY <2>0, <3>1, <3>2 DEF NoTokenNoCallback, Running
    <2>3. CASE FinishInner
      <3>1. Running /\ Depth > 1 /\ UNCHANGED callbacks
        BY <2>3 DEF FinishInner
      <3>2. /\ stack \in Seq(Frame) /\ Depth \in Nat /\ DOMAIN stack = 1..Depth
        BY <1>0, <3>1, RunningFrames DEF DTypeOK
      <3>3. stack' = [i \in 1..(Depth - 1) |->
                        IF i = Depth - 1
                        THEN [dfr |-> stack[i].dfr, mode |-> "cb", val |-> Top.val]
                        ELSE stack[i]]
        BY <2>3 DEF FinishInner
      <3>4. Depth' = Depth - 1 /\ stack'[Depth - 1].dfr = stack[Depth - 1].dfr
        <4>1. Len(stack') = Depth - 1 /\ Depth - 1 \in 1..(Depth - 1)
          BY <3>1, <3>2, <3>3
        <4> QED BY <3>3, <4>1 DEF Depth
      <3>5. callbacks[stack[Depth - 1].dfr] = <<>>
        BY <1>0, <3>1, <3>2 DEF EngineOK, QueuesShaped
      <3>6. Current' = <<>>
        BY <3>1, <3>4, <3>5 DEF Current, Top
      <3> QED BY <3>6 DEF NoTokenNoCallback
    <2>4. CASE FinishBase
      BY <2>4 DEF FinishBase, NoTokenNoCallback
    <2> QED BY <1>7, <2>1, <2>2, <2>3, <2>4 DEF RunEngine, Engine
  <1>8. CASE \/ UNCHANGED cvars \/ StartHelo \/ HeloProceeds \/ HeloRefused
             \/ ConnectFails \/ InputFails \/ ServerDies \/ StaleCallback
             \/ Tick \/ AuthFailed \/ Disconnect \/ LogOff
    BY <1>2, <1>8 DEF cvars, ownvars, dvars, StartHelo, HeloProceeds,
      HeloRefused, ConnectFails, InputFails, ServerDies, StaleCallback, Tick,
      AuthFailed, Disconnect, LogOff, Close, DropPending
  <1>9. CASE HeloEnded \/ RefreshContacts \/ Connected \/ KeepAlive
    <2>1. \E d, chain, registered : Build(d, chain, registered)
      BY <1>9 DEF HeloEnded, RefreshContacts, Connected, KeepAlive, Request
    <2>2. UNCHANGED token
      BY <1>9 DEF HeloEnded, RefreshContacts, Connected, KeepAlive
    <2> QED BY <1>3, <2>1, <2>2
  <1>10. CASE Reply
    BY <1>4, <1>10 DEF Reply, ownvars
  <1>11. CASE Timeout
    <2>1. PICK d \in sweep : IF d \in pending THEN Fire(d, "err", FAULT)
                                              ELSE UNCHANGED dvars
      BY <1>11 DEF Timeout
    <2>2. UNCHANGED token /\ d \in Deferreds
      BY <1>11, TypeParts DEF Timeout, ConnectionInv, States
    <2> QED BY <1>2, <1>4, <2>1, <2>2 DEF dvars
  <1>12. CASE Invalid \/ Propagate
    BY <1>5, <1>12 DEF Invalid, Propagate, ownvars
  <1>13. CASE DoAuthCb \/ DoAuthErr \/ Handled \/ PingErr
    BY <1>0, <1>6, <1>13, LogInResponds DEF DoAuthCb, DoAuthErr, Handled, PingErr
  <1>14. CASE AuthCb \/ WorkspacesCb
    BY <1>14 DEF AuthCb, WorkspacesCb, ChainRequest, Chain, NoTokenNoCallback
  <1>15. CASE SwitchCb
    BY <1>1, <1>15 DEF SwitchCb
  <1> QED
    BY <1>7, <1>8, <1>9, <1>10, <1>11, <1>12, <1>13, <1>14, <1>15
    DEF CNext, Network, Handlers, HeloReads

(* The log-in ends in its callback with a token only.                      *)
LEMMA ConnectedStep ==
  ASSUME ConnectionInv, NoTokenNoCallback, ConnectedHasToken, [CNext]_cvars
  PROVE  ConnectedHasToken'
  <1>0. EngineOK
    BY DEF ConnectionInv
  <1>1. CASE Connected
    <2>1. Current[1] = DoAuthPair /\ Top.mode = "cb" /\ stack # <<>> /\ Current # <<>>
      BY <1>0, <1>1, CallbackPair DEF Connected, Calling, InHandler, Running
    <2>2. token /\ token' = token
      BY <1>1, <2>1 DEF NoTokenNoCallback, Connected, LastPairs
    <2> QED BY <2>2 DEF ConnectedHasToken
  <1>2. CASE Disconnect \/ LogOff
    BY <1>2 DEF Disconnect, LogOff, Close, ConnectedHasToken
  <1>3. CASE ~(Connected \/ Disconnect \/ LogOff)
    <2>1. gc_state' = gc_state
      BY <1>3 DEF CNext, Network, Handlers, HeloReads, HeloEnded, StartHelo,
        HeloProceeds, HeloRefused, ConnectFails, InputFails, ServerDies,
        StaleCallback, Reply, RefreshContacts, Invalid, Propagate, AuthCb,
        WorkspacesCb, ChainRequest, SwitchCb, DoAuthCb, AuthFailed,
        DoAuthErr, Handled, PingErr, RunEngine, KeepAlive, Timeout, Tick,
        cvars, ownvars
    <2>2. token' \/ token' = token
      BY <1>3 DEF CNext, Network, Handlers, HeloReads, HeloEnded, StartHelo,
        HeloProceeds, HeloRefused, ConnectFails, InputFails, ServerDies,
        StaleCallback, Reply, RefreshContacts, Invalid, Propagate, AuthCb,
        WorkspacesCb, ChainRequest, SwitchCb, DoAuthCb, AuthFailed,
        DoAuthErr, Handled, PingErr, RunEngine, KeepAlive, Timeout, Tick,
        cvars, ownvars
    <2> QED BY <2>1, <2>2 DEF ConnectedHasToken
  <1> QED BY <1>1, <1>2, <1>3

-----------------------------------------------------------------------------
SafetyInv ==
  /\ ConnectionInv /\ SweptStillPending /\ OnePingInTime /\ LossIsReported
  /\ NoTokenNoCallback /\ ConnectedHasToken

(* The invariant that the theorems rest on.                                *)
LEMMA SafetyAlways == CSpec => []SafetyInv
  <1>1. CInit => SafetyInv
    <2> SUFFICES ASSUME CInit PROVE SafetyInv
      OBVIOUS
    <2>1. ConnectionInv
      BY ConnectionInit
    <2>2. stack = <<>> /\ pending = {} /\ sweep = {}
      BY DEF CInit, DInit
    <2>3. LossIsReported /\ ConnectedHasToken
      BY NullAssumption DEF CInit, LossIsReported, ConnectedHasToken, Names
    <2>4. SweptStillPending /\ OnePingInTime /\ NoTokenNoCallback
      BY <2>2 DEF SweptStillPending, OnePingInTime, NoTokenNoCallback, Pings,
        Waiting
    <2> QED BY <2>1, <2>3, <2>4 DEF SafetyInv
  <1>2. SafetyInv /\ [CNext]_cvars => SafetyInv'
    BY ConnectionStep, SweptStep, PingStep, LossStep, TokenStep, ConnectedStep
    DEF SafetyInv, ConnectionInv, EngineStep
  <1> QED BY <1>1, <1>2, PTL DEF CSpec

(* A lost socket is never forgotten: whichever place closes it, libpurple  *)
(* will disconnect the account.                                            *)
THEOREM LossesReported == CSpec => []LossIsReported
  <1>1. SafetyInv => LossIsReported
    BY DEF SafetyInv
  <1> QED BY <1>1, SafetyAlways, PTL

(* The keys that libballyhoo_update has collected are still in the table,  *)
(* unfired, when their turn comes.                                         *)
THEOREM SweepsHold == CSpec => []SweptStillPending
  <1>1. SafetyInv => SweptStillPending
    BY DEF SafetyInv
  <1> QED BY <1>1, SafetyAlways, PTL

(* No fault in the requests of the log-in, however they are resumed, ends  *)
(* in an account that is connected without a token.                        *)
THEOREM TokenBeforeConnected == CSpec => []ConnectedHasToken
  <1>1. SafetyInv => ConnectedHasToken
    BY DEF SafetyInv
  <1> QED BY <1>1, SafetyAlways, PTL

(* No two pings are unanswered when an event of the main loop is over, as  *)
(* the timeout of a ping is shorter than the period.                       *)
THEOREM PingsAlone == CSpec => []OnePing
  <1>1. SafetyInv => OnePing
    <2> SUFFICES ASSUME SafetyInv, Quiet,
                        NEW d \in pending, NEW e \in pending, IsPing(d), IsPing(e)
                 PROVE  d = e
      BY DEF OnePing
    <2>1. d \in Waiting /\ e \in Waiting /\ sweep = {} /\ ~freed
      BY DEF SafetyInv, ConnectionInv, EngineOK, DInv, PendingSound, Quiet,
        MainLoop, Idle, Waiting
    <2>2. callbacks[d][1] = PingPair /\ callbacks[e][1] = PingPair
      BY NotPing DEF IsPing
    <2> QED BY <2>1, <2>2 DEF SafetyInv, OnePingInTime, Pings
  <1> QED BY <1>1, SafetyAlways, PTL
=============================================================================
