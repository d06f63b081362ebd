-------------------------- MODULE ConnectionProofs --------------------------
(***************************************************************************)
(* The connection runs on the engine as the engine allows, for any timing  *)
(* and any number of deferreds.                                            *)
(***************************************************************************)
EXTENDS Connection, DeferredProofs

AuthPair == UserCallback("auth_cb", "auth_err")
DoAuthPair == UserCallback("do_auth_cb", "do_auth_err")
WorkspacesPair == UserCallback("workspaces_cb", "workspaces_err")
SwitchPair == UserCallback("switch_cb", "switch_err")
GetContactsPair == UserCallback("get_contacts_cb", "get_contacts_err")
ContactsPair == UserCallback("contacts_cb", "contacts_err")
PingPair == UserCallback(NULL, "ping_err")

LogInPairs == {AuthPair, WorkspacesPair, SwitchPair}
OtherPairs == {GetContactsPair, PingPair}

(* What comes after the first pair of a queue of the log-in: the end of    *)
(* the log-in, or the deferred that waits for this one.                    *)
LastPairs == {DoAuthPair} \cup {HandlePair(d) : d \in Deferreds}

(* A queue that has not begun to run ...                                   *)
Whole(q) ==
  /\ Len(q) \in {1, 2}
  /\ \/ q[1] \in LogInPairs /\ (Len(q) = 2 => q[2] \in LastPairs)
     \/ q[1] \in OtherPairs /\ (Len(q) = 2 => q[2] = ContactsPair)

(* ... and what is left of it when it has.                                 *)
Rest(q) == Len(q) \in {0, 1} /\ (Len(q) = 1 => q[1] \in LastPairs \cup {ContactsPair})

(* Only the deferred that an event has fired can be at its first pair:     *)
(* those that wait and those that have been resumed are past it.           *)
QueuesShaped ==
  /\ \A d \in Deferreds : Whole(callbacks[d]) \/ Rest(callbacks[d])
  /\ \A d \in pending \ is_firing : Whole(callbacks[d])
  /\ \A d \in built \cap is_firing : ~OnStack(d) => Rest(callbacks[d])
  /\ \A i \in DOMAIN stack :
       /\ i > 1 => Rest(callbacks[stack[i].dfr])
       /\ i < Depth => callbacks[stack[i].dfr] = <<>>

(* What an errback is given is a fault.                                    *)
ErrorsAreFaults ==
  \A i \in DOMAIN stack : stack[i].mode = "err" => stack[i].val \in Faults

-----------------------------------------------------------------------------
(* The handlers of each pair.                                              *)
LEMMA PairFields ==
  /\ AuthPair.cb = "auth_cb" /\ AuthPair.err = "auth_err"
  /\ DoAuthPair.cb = "do_auth_cb" /\ DoAuthPair.err = "do_auth_err"
  /\ WorkspacesPair.cb = "workspaces_cb" /\ WorkspacesPair.err = "workspaces_err"
  /\ SwitchPair.cb = "switch_cb" /\ SwitchPair.err = "switch_err"
  /\ GetContactsPair.cb = "get_contacts_cb"
  /\ GetContactsPair.err = "get_contacts_err"
  /\ ContactsPair.cb = "contacts_cb" /\ ContactsPair.err = "contacts_err"
  /\ PingPair.cb = NULL /\ PingPair.err = "ping_err"
  /\ \A d : HandlePair(d).cb = HANDLE /\ HandlePair(d).err = HANDLE
  BY DEF AuthPair, WorkspacesPair, SwitchPair, GetContactsPair, PingPair,
    ContactsPair, DoAuthPair, UserCallback, HandlePair

(* The first pair of a queue tells whether the queue has begun to run.     *)
LEMMA PairsDiffer ==
  /\ \A p \in LogInPairs \cup OtherPairs :
       p \notin LastPairs \cup {ContactsPair} /\ p.cb # HANDLE /\ p.err # HANDLE
  /\ \A p \in LogInPairs : p \notin OtherPairs
  /\ ContactsPair \notin LastPairs
  <1>1. /\ HANDLE \notin Names /\ NULL \notin Names /\ NULL # HANDLE
    BY CallbacksAssumption, NullAssumption DEF HANDLE, Names
  <1>2. /\ \A p \in LogInPairs : /\ p.cb \in {"auth_cb", "workspaces_cb", "switch_cb"}
                               /\ p.err \in {"auth_err", "workspaces_err", "switch_err"}
        /\ \A p \in OtherPairs : /\ p.cb \in {NULL, "get_contacts_cb"}
                               /\ p.err \in {"ping_err", "get_contacts_err"}
        /\ \A p \in LastPairs : p.cb \in {"do_auth_cb", HANDLE}
        /\ ContactsPair.cb = "contacts_cb"
    BY PairFields DEF LogInPairs, OtherPairs, LastPairs
  <1> QED BY <1>1, <1>2 DEF Names

(* The queue of the innermost activation, and what popping leaves of it.   *)
LEMMA ShapedHead ==
  ASSUME DInv, QueuesShaped, Running, Current # <<>>
  PROVE  /\ Top.dfr \in Deferreds /\ Top.dfr \in built \cap is_firing
         /\ OnStack(Top.dfr)
         /\ Current = callbacks[Top.dfr] /\ Current \in Seq(Pair)
         /\ Head(Current) = Current[1] /\ Current[1] \in Pair
         /\ Popped[Top.dfr] = Tail(Current)
         /\ \A e \in Deferreds \ {Top.dfr} : Popped[e] = callbacks[e]
         /\ Whole(Current) \/ Rest(Current)
         /\ Rest(Tail(Current))
         /\ Rest(Current) => Tail(Current) = <<>>
         /\ Depth > 1 => Rest(Current)
         /\ Current[1] \in LogInPairs \cup OtherPairs => ~Rest(Current)
         /\ Current[1] \in LastPairs \cup {ContactsPair} => Rest(Current)
  <1>1. DTypeOK
    BY DEF DInv
  <1>2. /\ Depth \in Nat \ {0} /\ DOMAIN stack = 1..Depth /\ Depth \in 1..Depth
        /\ Top.dfr \in Deferreds /\ Current \in Seq(Pair)
    BY <1>1, RunningFrames
  <1>3. /\ Len(Current) \in Nat \ {0}
        /\ Head(Current) = Current[1] /\ Head(Current) \in Pair
        /\ Tail(Current) \in Seq(Pair)
        /\ Len(Tail(Current)) = Len(Current) - 1
        /\ \A i \in 1..(Len(Current) - 1) : Tail(Current)[i] = Current[i + 1]
    BY <1>2, TailProperties
  <1>4. /\ Popped[Top.dfr] = Tail(Current)
        /\ \A e \in Deferreds \ {Top.dfr} : Popped[e] = callbacks[e]
    BY <1>1, <1>2 DEF Popped, Current, DTypeOK
  <1>5. Whole(Current) \/ Rest(Current)
    BY <1>2 DEF QueuesShaped, Current
  <1>6. Rest(Tail(Current))
    <2>1. CASE Whole(Current)
      <3>1. Len(Tail(Current)) \in {0, 1}
        BY <1>3, <2>1 DEF Whole
      <3>2. Len(Tail(Current)) = 1 => Tail(Current)[1] = Current[2] /\ Len(Current) = 2
        <4> SUFFICES ASSUME Len(Tail(Current)) = 1
                     PROVE  Tail(Current)[1] = Current[2] /\ Len(Current) = 2
          OBVIOUS
        <4>1. Len(Current) = 2
          BY <1>3
        <4>2. 1 \in 1..(Len(Current) - 1) /\ 1 + 1 = 2
          BY <4>1
        <4> QED BY <1>3, <4>1, <4>2
      <3> QED BY <2>1, <3>1, <3>2 DEF Whole, Rest
    <2>2. CASE Rest(Current)
      BY <1>3, <2>2 DEF Rest
    <2> QED BY <1>5, <2>1, <2>2
  <1>7. Rest(Current) => Tail(Current) = <<>>
    BY <1>3 DEF Rest
  <1>8. Depth > 1 => Rest(Current)
    BY <1>2 DEF QueuesShaped, Current, Top
  <1>9. Current[1] \in LogInPairs \cup OtherPairs => ~Rest(Current)
    BY <1>3, PairsDiffer DEF Rest
  <1>10. Current[1] \in LastPairs \cup {ContactsPair} => Rest(Current)
    BY <1>5, PairsDiffer DEF Whole
  <1>11. Top.dfr \in built \cap is_firing /\ OnStack(Top.dfr)
    BY <1>2 DEF DInv, StackSound, Top, OnStack
  <1> QED
    BY <1>2, <1>3, <1>4, <1>5, <1>6, <1>7, <1>8, <1>9, <1>10, <1>11 DEF Current

(* A turn of the innermost loop.                                           *)
LEMMA ShapedTurn ==
  ASSUME DInv, QueuesShaped, Running, Current # <<>>,
         callbacks' \in {callbacks, Popped},
         DOMAIN stack' = DOMAIN stack, Len(stack') = Len(stack),
         \A i \in DOMAIN stack : stack'[i].dfr = stack[i].dfr,
         UNCHANGED <<built, is_firing, pending>>
  PROVE  QueuesShaped'
  <1>1. /\ Top.dfr \in is_firing /\ OnStack(Top.dfr)
        /\ Rest(callbacks'[Top.dfr]) \/ callbacks'[Top.dfr] = callbacks[Top.dfr]
        /\ \A e \in Deferreds \ {Top.dfr} : callbacks'[e] = callbacks[e]
        /\ Depth > 1 => Rest(callbacks'[Top.dfr])
    BY ShapedHead
  <1>2. \A e : OnStack(e)' <=> OnStack(e)
    BY DEF OnStack
  <1>3. /\ Depth \in Nat \ {0} /\ DOMAIN stack = 1..Depth
        /\ \A i \in DOMAIN stack : stack[i].dfr \in Deferreds
        /\ \A i \in DOMAIN stack : stack[i].dfr = Top.dfr => i = Depth
    BY RunningFrames DEF DInv, StackSound, Top
  <1>4. \A d \in Deferreds : (Whole(callbacks[d]) \/ Rest(callbacks[d]))'
    BY <1>1 DEF QueuesShaped, Whole, Rest
  <1>5. \A d \in pending' \ is_firing' : Whole(callbacks[d])'
    BY <1>1 DEF QueuesShaped, Whole, DInv, DTypeOK
  <1>6. \A d \in built' \cap is_firing' : ~OnStack(d)' => Rest(callbacks[d])'
    BY <1>1, <1>2 DEF QueuesShaped, Rest, DInv, DTypeOK
  <1>7. ASSUME NEW i \in DOMAIN stack
        PROVE  /\ i > 1 => Rest(callbacks'[stack'[i].dfr])
               /\ i < Depth => callbacks'[stack'[i].dfr] = <<>>
    <2>1. CASE i = Depth
      BY <1>1, <1>3, <2>1 DEF Top
    <2>2. CASE i # Depth
      <3>1. stack[i].dfr # Top.dfr /\ stack[i].dfr \in Deferreds
        BY <1>3, <2>2
      <3> QED BY <1>1, <3>1 DEF QueuesShaped
    <2> QED BY <2>1, <2>2
  <1>8. Depth' = Depth
    BY DEF Depth
  <1> QED BY <1>4, <1>5, <1>6, <1>7, <1>8 DEF QueuesShaped, Rest

(* The queues that the code builds have not begun to run.                  *)
LEMMA ChainsWhole == \A chain \in ConnectionChains : Whole(chain)
  <1>1. /\ AuthChain = <<AuthPair, DoAuthPair>>
        /\ WorkspacesChain = <<WorkspacesPair>> /\ SwitchChain = <<SwitchPair>>
        /\ ContactsChain = <<GetContactsPair, ContactsPair>>
        /\ PingChain = <<PingPair>>
    BY DEF AuthChain, WorkspacesChain, SwitchChain, ContactsChain, PingChain,
      AuthPair, DoAuthPair, WorkspacesPair, SwitchPair, GetContactsPair,
      ContactsPair, PingPair
  <1>2. Whole(AuthChain)
    BY <1>1 DEF Whole, LogInPairs, LastPairs
  <1>3. Whole(WorkspacesChain) /\ Whole(SwitchChain)
    BY <1>1 DEF Whole, LogInPairs
  <1>4. Whole(ContactsChain) /\ Whole(PingChain)
    BY <1>1 DEF Whole, OtherPairs
  <1> QED BY <1>2, <1>3, <1>4 DEF ConnectionChains

(* The turns of the innermost loop that take its result further.           *)
LEMMA ShapedRespond ==
  ASSUME DInv, QueuesShaped, ErrorsAreFaults, Respond
  PROVE  QueuesShaped' /\ ErrorsAreFaults'
  <1>1. Running /\ Current # <<>> /\ GoOn("cb", RESPONSE) /\ callbacks' = Popped
          /\ UNCHANGED <<built, is_firing, pending>>
    BY DEF Respond, InHandler
  <1>2. /\ stack \in Seq(Frame) /\ Depth \in 1..Len(stack) /\ DOMAIN stack = 1..Len(stack)
    BY <1>1, RunningFrames DEF DInv, DTypeOK, Depth
  <1>3. /\ DOMAIN stack' = DOMAIN stack /\ Len(stack') = Len(stack)
        /\ \A i \in DOMAIN stack : stack'[i].dfr = stack[i].dfr
        /\ \A i \in DOMAIN stack :
             IF i = Depth THEN stack'[i].mode = "cb" ELSE stack'[i] = stack[i]
    BY <1>1, <1>2 DEF GoOn, Top
  <1>4. QueuesShaped'
    BY <1>1, <1>3, ShapedTurn
  <1>5. ErrorsAreFaults'
    BY <1>3 DEF ErrorsAreFaults
  <1> QED BY <1>4, <1>5

(* A fault goes to the errbacks.                                           *)
LEMMA ShapedFault ==
  ASSUME DInv, QueuesShaped, ErrorsAreFaults, NEW f \in Faults, Fault(f)
  PROVE  QueuesShaped' /\ ErrorsAreFaults'
  <1>1. Running /\ Current # <<>> /\ GoOn("err", f)
          /\ callbacks' \in {callbacks, Popped}
          /\ UNCHANGED <<built, is_firing, pending>>
    BY DEF Fault, InHandler, FaultedQueue
  <1>2. /\ stack \in Seq(Frame) /\ Depth \in 1..Len(stack) /\ DOMAIN stack = 1..Len(stack)
    BY <1>1, RunningFrames DEF DInv, DTypeOK, Depth
  <1>3. /\ DOMAIN stack' = DOMAIN stack /\ Len(stack') = Len(stack)
        /\ \A i \in DOMAIN stack : stack'[i].dfr = stack[i].dfr
        /\ \A i \in DOMAIN stack :
             IF i = Depth THEN stack'[i].val = f ELSE stack'[i] = stack[i]
    BY <1>1, <1>2 DEF GoOn, Top
  <1>4. QueuesShaped'
    BY <1>1, <1>3, ShapedTurn
  <1>5. ErrorsAreFaults'
    BY <1>3 DEF ErrorsAreFaults
  <1> QED BY <1>4, <1>5

(* A pair without a handler is skipped.                                    *)
LEMMA ShapedSkipPair ==
  ASSUME DInv, QueuesShaped, ErrorsAreFaults, SkipPair
  PROVE  QueuesShaped' /\ ErrorsAreFaults'
  BY ShapedTurn DEF SkipPair, ErrorsAreFaults

(* A deferred is built and fired from its first pair.                      *)
LEMMA ShapedBuild ==
  ASSUME DInv, QueuesShaped, ErrorsAreFaults,
         NEW d, NEW chain \in ConnectionChains, NEW registered, Build(d, chain, registered)
  PROVE  QueuesShaped' /\ ErrorsAreFaults'
  <1>1. /\ d \in Deferreds /\ d \notin built /\ built' = built \cup {d}
        /\ is_firing' = is_firing \ {d}
        /\ pending' \subseteq pending \cup {d}
        /\ stack' = stack
        /\ callbacks' = [callbacks EXCEPT ![d] = chain]
    BY DEF Build, Allocate
  <1>2. /\ callbacks'[d] = chain
        /\ \A e \in Deferreds \ {d} : callbacks'[e] = callbacks[e]
    BY <1>1 DEF DInv, DTypeOK
  <1>3. Whole(chain)
    BY ChainsWhole
  <1>4. \A i \in DOMAIN stack : stack[i].dfr \in Deferreds \ {d}
    BY <1>1 DEF DInv, DTypeOK, StackSound
  <1>5. \A e : OnStack(e)' <=> OnStack(e)
    BY <1>1 DEF OnStack
  <1>6. pending \subseteq Deferreds /\ built \subseteq Deferreds
    BY DEF DInv, DTypeOK
  <1>7. QueuesShaped'
    <2>1. \A e \in Deferreds : (Whole(callbacks[e]) \/ Rest(callbacks[e]))'
      BY <1>2, <1>3 DEF QueuesShaped, Whole, Rest
    <2>2. \A e \in pending' \ is_firing' : Whole(callbacks[e])'
      BY <1>1, <1>2, <1>3, <1>6 DEF QueuesShaped, Whole
    <2>3. \A e \in built' \cap is_firing' : ~OnStack(e)' => Rest(callbacks[e])'
      BY <1>1, <1>2, <1>5, <1>6 DEF QueuesShaped, Rest
    <2>4. \A i \in DOMAIN stack' :
            (i > 1 => Rest(callbacks[stack[i].dfr]))'
              /\ (i < Depth => callbacks[stack[i].dfr] = <<>>)'
      BY <1>1, <1>2, <1>4 DEF QueuesShaped, Rest, Depth
    <2> QED BY <2>1, <2>2, <2>3, <2>4 DEF QueuesShaped
  <1> QED BY <1>1, <1>7 DEF ErrorsAreFaults

(* An event begins at the bottom of the stack.                             *)
LEMMA ShapedFire ==
  ASSUME DInv, QueuesShaped, DInv', NEW d, NEW mode \in {"cb", "err"}, NEW val,
         mode = "err" => val \in Faults, Fire(d, mode, val)
  PROVE  QueuesShaped' /\ ErrorsAreFaults'
  <1>1. /\ stack = <<>> /\ d \in pending /\ is_firing' = is_firing \cup {d}
        /\ UNCHANGED <<built, callbacks, pending>>
        /\ stack' = Append(stack, [dfr |-> d, mode |-> mode, val |-> val])
    BY DEF Fire, Enter, Idle, DInv
  <1>2. /\ stack' = <<[dfr |-> d, mode |-> mode, val |-> val]>>
        /\ DOMAIN stack' = {1} /\ Depth' = 1 /\ stack'[1].dfr = d
        /\ stack'[1].mode = mode /\ stack'[1].val = val
    BY <1>1 DEF Depth
  <1>3. \A e : OnStack(e)' <=> e = d
    BY <1>2 DEF OnStack
  <1>4. \A e : ~OnStack(e)
    BY <1>1 DEF OnStack
  <1>5. QueuesShaped'
    <2>1. \A e \in built' \cap is_firing' : ~OnStack(e)' => Rest(callbacks[e])'
      BY <1>1, <1>3, <1>4 DEF QueuesShaped, Rest
    <2>2. \A i \in DOMAIN stack' :
            (i > 1 => Rest(callbacks[stack[i].dfr]))'
              /\ (i < Depth => callbacks[stack[i].dfr] = <<>>)'
      BY <1>2
    <2>3. \A e \in Deferreds : (Whole(callbacks[e]) \/ Rest(callbacks[e]))'
      BY <1>1 DEF QueuesShaped, Whole, Rest
    <2>4. \A e \in pending' \ is_firing' : Whole(callbacks[e])'
      BY <1>1 DEF QueuesShaped, Whole
    <2> QED BY <2>1, <2>2, <2>3, <2>4 DEF QueuesShaped
  <1>6. ErrorsAreFaults'
    BY <1>2 DEF ErrorsAreFaults
  <1> QED BY <1>5, <1>6

(* The deferred that a handle pair resumes waited past its first pair, and *)
(* the handle pair is the last one of its queue.                           *)
LEMMA ResumesRest ==
  ASSUME DInv, QueuesShaped, Resume
  PROVE  \E t \in Deferreds :
           /\ stack' = Append(stack, [dfr |-> t, mode |-> Top.mode, val |-> Top.val])
           /\ t \in built \cap is_firing /\ ~OnStack(t) /\ is_firing' = is_firing
           /\ Rest(callbacks[t])
           /\ Current[1] \in LastPairs /\ Tail(Current) = <<>>
  <1> DEFINE t == Head(Current).user_data
  <1>1. DTypeOK /\ Running /\ Current # <<>> /\ Handler = HANDLE
    BY DEF Resume, DInv
  <1>2. /\ Current[1] = HandlePair(t) /\ 1 \in DOMAIN Current /\ t \in Deferreds
    BY <1>1, PoppedType, PairKinds, RunningFrames, TailProperties DEF Handler
  <1>3. Top.dfr \in built /\ Current = callbacks[Top.dfr]
    BY <1>1, ShapedHead
  <1>4. WaitsAt(t, Top.dfr, 1)
    BY <1>2, <1>3 DEF WaitsAt
  <1>5. Suspended(t)
    BY <1>1, <1>4, WaitsAtPlace DEF HandlesAwaited, DInv
  <1>6. t \in (built \cap is_firing) \ fired /\ ~OnStack(t)
    BY <1>5 DEF Suspended
  <1>7. /\ stack' = Append(stack, [dfr |-> t, mode |-> Top.mode, val |-> Top.val])
        /\ is_firing' = is_firing
    BY <1>6 DEF Resume, Enter
  <1>8. Current[1] \in LastPairs /\ Tail(Current) = <<>>
    BY <1>1, <1>2, ShapedHead DEF LastPairs
  <1>9. Rest(callbacks[t])
    BY <1>6 DEF QueuesShaped
  <1> QED BY <1>2, <1>6, <1>7, <1>8, <1>9

(* So the activations below the innermost have nothing left to run.        *)
LEMMA ShapedResume ==
  ASSUME DInv, QueuesShaped, ErrorsAreFaults, Resume
  PROVE  QueuesShaped' /\ ErrorsAreFaults'
  <1>1. PICK t \in Deferreds :
          /\ stack' = Append(stack, [dfr |-> t, mode |-> Top.mode, val |-> Top.val])
          /\ t \in built \cap is_firing /\ ~OnStack(t) /\ is_firing' = is_firing
          /\ Rest(callbacks[t])
          /\ Tail(Current) = <<>>
    BY ResumesRest
  <1>2. Running /\ Current # <<>> /\ callbacks' = Popped /\ UNCHANGED <<built, pending>>
    BY DEF Resume
  <1>3. /\ callbacks'[Top.dfr] = <<>> /\ Top.dfr \in is_firing /\ OnStack(Top.dfr)
        /\ \A e \in Deferreds \ {Top.dfr} : callbacks'[e] = callbacks[e]
    BY <1>1, <1>2, ShapedHead
  <1>4. /\ Depth \in Nat \ {0} /\ DOMAIN stack = 1..Depth /\ Depth \in 1..Depth
        /\ \A i \in DOMAIN stack : stack[i].dfr \in Deferreds
        /\ \A i \in DOMAIN stack : stack[i].dfr = Top.dfr => i = Depth
    BY <1>2, RunningFrames DEF DInv, StackSound, Top
  <1>5. stack \in Seq(Frame)
    BY DEF DInv, DTypeOK
  <1>6. /\ DOMAIN stack' = 1..(Depth + 1) /\ Depth' = Depth + 1
        /\ stack'[Depth + 1].dfr = t /\ stack'[Depth + 1].mode = Top.mode
        /\ stack'[Depth + 1].val = Top.val
        /\ \A i \in 1..Depth : stack'[i] = stack[i]
    BY <1>1, <1>5 DEF Depth
  <1>7. \A i \in 1..(Depth + 1) : i \in 1..Depth \/ i = Depth + 1
    BY <1>4
  <1>8. t # Top.dfr
    BY <1>1, <1>3
  <1>9. \A e : OnStack(e) => OnStack(e)'
    BY <1>4, <1>6 DEF OnStack
  <1>10. QueuesShaped'
    <2>1. \A e \in Deferreds : (Whole(callbacks[e]) \/ Rest(callbacks[e]))'
      BY <1>3 DEF QueuesShaped, Whole, Rest
    <2>2. \A e \in pending' \ is_firing' : Whole(callbacks[e])'
      BY <1>1, <1>2, <1>3 DEF QueuesShaped, Whole, DInv, DTypeOK
    <2>3. \A e \in built' \cap is_firing' : ~OnStack(e)' => Rest(callbacks[e])'
      BY <1>1, <1>2, <1>3, <1>9 DEF QueuesShaped, Rest, DInv, DTypeOK
    <2>4. \A i \in 1..Depth : callbacks'[stack[i].dfr] = <<>>
      <3>1. ASSUME NEW i \in 1..Depth, i # Depth
            PROVE  callbacks'[stack[i].dfr] = <<>>
        <4>1. stack[i].dfr \in Deferreds \ {Top.dfr} /\ i < Depth
          BY <1>4, <3>1
        <4> QED BY <1>3, <1>4, <4>1 DEF QueuesShaped
      <3> QED BY <1>3, <3>1 DEF Top
    <2>5. Rest(<<>>) /\ callbacks'[t] = callbacks[t]
      BY <1>3, <1>8 DEF Rest
    <2>6. \A i \in DOMAIN stack' :
            (i > 1 => Rest(callbacks[stack[i].dfr]))'
              /\ (i < Depth => callbacks[stack[i].dfr] = <<>>)'
      BY <1>1, <1>4, <1>6, <1>7, <2>4, <2>5 DEF Rest
    <2> QED BY <2>1, <2>2, <2>3, <2>6 DEF QueuesShaped
  <1>11. ErrorsAreFaults'
    BY <1>4, <1>6, <1>7 DEF ErrorsAreFaults, Top
  <1> QED BY <1>10, <1>11

(* The end of an inner queue: the activation below runs its callbacks.     *)
LEMMA ShapedFinishInner ==
  ASSUME DInv, QueuesShaped, ErrorsAreFaults, FinishInner
  PROVE  QueuesShaped' /\ ErrorsAreFaults'
  <1>1. Running /\ Depth > 1 /\ Current = <<>>
          /\ UNCHANGED <<built, callbacks, is_firing, pending>>
    BY DEF FinishInner
  <1>2. /\ Depth \in Nat /\ DOMAIN stack = 1..Depth /\ Depth - 1 \in Nat
        /\ \A i \in 1..(Depth - 1) : i \in 1..Depth /\ i < Depth
        /\ \A i \in 1..Depth : i \in 1..(Depth - 1) \/ i = Depth
    BY <1>1, RunningFrames DEF DInv
  <1>3. /\ DOMAIN stack' = 1..(Depth - 1) /\ Depth' = Depth - 1
        /\ \A i \in 1..(Depth - 1) : stack'[i].dfr = stack[i].dfr
        /\ \A i \in 1..(Depth - 1) : stack'[i].mode = "cb" \/ stack'[i] = stack[i]
    <2>1. stack' = [i \in 1..(Depth - 1) |->
                      IF i = Depth - 1
                      THEN [dfr |-> stack[i].dfr, mode |-> "cb", val |-> Top.val]
                      ELSE stack[i]]
      BY DEF FinishInner
    <2>2. Len(stack') = Depth - 1
      BY <1>2, <2>1
    <2> QED BY <1>2, <2>1, <2>2 DEF Depth
  <1>4. \A e : OnStack(e) => OnStack(e)' \/ e = Top.dfr
    BY <1>2, <1>3 DEF OnStack, Top
  <1>5. QueuesShaped'
    <2>1. \A e \in Deferreds : (Whole(callbacks[e]) \/ Rest(callbacks[e]))'
      BY <1>1 DEF QueuesShaped, Whole, Rest
    <2>2. \A e \in pending' \ is_firing' : Whole(callbacks[e])'
      BY <1>1 DEF QueuesShaped, Whole
    <2>3. Rest(callbacks[Top.dfr])
      BY <1>1 DEF Rest, Current
    <2>4. \A e \in built' \cap is_firing' : ~OnStack(e)' => Rest(callbacks[e])'
      BY <1>1, <1>4, <2>3 DEF QueuesShaped, Rest
    <2>5. \A i \in DOMAIN stack' :
            (i > 1 => Rest(callbacks[stack[i].dfr]))'
              /\ (i < Depth => callbacks[stack[i].dfr] = <<>>)'
      BY <1>1, <1>2, <1>3 DEF QueuesShaped, Rest
    <2> QED BY <2>1, <2>2, <2>4, <2>5 DEF QueuesShaped
  <1>6. ErrorsAreFaults'
    BY <1>2, <1>3 DEF ErrorsAreFaults
  <1> QED BY <1>5, <1>6

(* Nothing runs after these steps, and nothing is put into a queue.        *)
LEMMA ShapedStopped ==
  ASSUME DInv, QueuesShaped, ErrorsAreFaults, stack' \in {stack, <<>>},
         stack' = <<>> => \A i \in DOMAIN stack :
                            stack[i].dfr \notin built' \/ Rest(callbacks[stack[i].dfr]),
         pending' \subseteq pending, built' \subseteq built,
         UNCHANGED <<callbacks, is_firing>>
  PROVE  QueuesShaped' /\ ErrorsAreFaults'
  <1>1. \A e \in Deferreds : (Whole(callbacks[e]) \/ Rest(callbacks[e]))'
    BY DEF QueuesShaped, Whole, Rest
  <1>2. \A e \in pending' \ is_firing' : Whole(callbacks[e])'
    BY DEF QueuesShaped, Whole
  <1>3. \A e \in built' \cap is_firing' : ~OnStack(e)' => Rest(callbacks[e])'
    BY DEF QueuesShaped, Rest, OnStack
  <1>4. \A i \in DOMAIN stack' :
          (i > 1 => Rest(callbacks[stack[i].dfr]))'
            /\ (i < Depth => callbacks[stack[i].dfr] = <<>>)'
    BY DEF QueuesShaped, Rest, Depth
  <1>5. ErrorsAreFaults'
    BY DEF ErrorsAreFaults
  <1> QED BY <1>1, <1>2, <1>3, <1>4, <1>5 DEF QueuesShaped

(* The event ends: what it fired is freed.                                 *)
LEMMA ShapedFinishBase ==
  ASSUME DInv, QueuesShaped, ErrorsAreFaults, FinishBase
  PROVE  QueuesShaped' /\ ErrorsAreFaults'
  <1>1. DOMAIN stack = {1} /\ stack[1].dfr \notin built'
    BY RunningFrames DEF FinishBase, DInv, Base
  <1> QED BY <1>1, ShapedStopped DEF FinishBase, Answered

(* The length of a concatenation.                                          *)
LEMMA ConcatLength ==
  ASSUME NEW S, NEW q \in Seq(S), NEW r \in Seq(S)
  PROVE  q \o r \in Seq(S) /\ Len(q \o r) = Len(q) + Len(r)
  OBVIOUS

(* Two queues of one pair each.                                            *)
LEMMA TwoPairs ==
  ASSUME NEW S, NEW q \in Seq(S), NEW r \in Seq(S), Len(q) = 1, Len(r) = 1
  PROVE  Len(q \o r) = 2 /\ (q \o r)[1] = q[1] /\ (q \o r)[2] = r[1]
  <1>1. /\ DOMAIN (q \o r) = 1..(Len(q) + Len(r))
        /\ \A i \in 1..Len(q) : (q \o r)[i] = q[i]
        /\ \A j \in 1..Len(r) : (q \o r)[Len(q) + j] = r[j]
    BY ConcatProperties
  <1>2. Len(q \o r) = Len(q) + Len(r)
    BY ConcatLength
  <1>3. Len(q) + Len(r) = 2 /\ Len(q) + 1 = 2 /\ 1 \in 1..Len(q) /\ 1 \in 1..Len(r)
    OBVIOUS
  <1>4. (q \o r)[1] = q[1] /\ (q \o r)[Len(q) + 1] = r[1]
    BY <1>1, <1>3
  <1> QED BY <1>2, <1>3, <1>4

(* Only the first pair of a queue of the log-in returns a deferred, and it *)
(* runs at the bottom of the stack: one handle pair is appended.           *)
LEMMA ShapedChain ==
  ASSUME DInv, QueuesShaped, ErrorsAreFaults, Current[1] \in LogInPairs,
         NEW d, NEW chain \in {WorkspacesChain, SwitchChain}, Chain(d, chain, TRUE)
  PROVE  QueuesShaped' /\ ErrorsAreFaults'
  <1>1. /\ Running /\ Current # <<>> /\ d \in Deferreds /\ d \notin built
        /\ built' = built \cup {d} /\ is_firing' = is_firing \ {d}
        /\ callbacks' = [Popped EXCEPT ![d] = chain \o HandlePairs]
        /\ pending' = Answered \cup {d} /\ stack' = <<>>
    BY DEF Chain, InHandler, Allocate
  <1>2. DTypeOK
    BY DEF DInv
  <1>3. /\ Depth = 1 /\ DOMAIN stack = {1} /\ Top.dfr \in Deferreds
        /\ Base = Top.dfr /\ Top.dfr \in built \cap is_firing
        /\ Rest(Tail(Current)) /\ Popped[Top.dfr] = Tail(Current)
        /\ \A e \in Deferreds \ {Top.dfr} : Popped[e] = callbacks[e]
    BY <1>1, <1>2, ShapedHead, RunningFrames DEF Top, Base
  <1>4. /\ HandlePairs \in Seq(Pair) /\ Len(HandlePairs) = 1
        /\ HandlePairs[1] = HandlePair(Base)
    <2>1. /\ HandlePairs \in Seq(Pair) /\ Len(HandlePairs) = Depth
          /\ \A i \in 1..Depth : HandlePairs[i] = HandlePair(stack[Depth + 1 - i].dfr)
      BY <1>1, <1>2, HandlePairsType
    <2>2. HandlePairs[1] = HandlePair(stack[1 + 1 - 1].dfr)
      BY <1>3, <2>1
    <2> QED BY <1>3, <2>1, <2>2 DEF Base
  <1>5. chain \in Seq(Pair) /\ Len(chain) = 1 /\ chain[1] \in LogInPairs
    <2>1. chain \in Seq(UserPair)
      BY ChainsAssumption, CallbacksAssumption DEF ConnectionChains
    <2>2. Len(chain) = 1 /\ chain[1] \in LogInPairs
      BY DEF WorkspacesChain, SwitchChain, LogInPairs, WorkspacesPair, SwitchPair
    <2> QED BY <2>1, <2>2 DEF Pair
  <1>6. Whole(chain \o HandlePairs)
    <2>1. /\ Len(chain \o HandlePairs) = 2
          /\ (chain \o HandlePairs)[1] = chain[1]
          /\ (chain \o HandlePairs)[2] = HandlePairs[1]
      BY <1>4, <1>5, TwoPairs
    <2>2. (chain \o HandlePairs)[2] \in LastPairs
      BY <1>3, <1>4, <2>1 DEF LastPairs
    <2> QED BY <1>5, <2>1, <2>2 DEF Whole
  <1>7. /\ callbacks'[d] = chain \o HandlePairs
        /\ callbacks'[Top.dfr] = Tail(Current)
        /\ \A e \in Deferreds \ {d, Top.dfr} : callbacks'[e] = callbacks[e]
    BY <1>1, <1>2, <1>3, PoppedType
  <1>8. pending \subseteq Deferreds /\ built \subseteq Deferreds
    BY <1>2 DEF DTypeOK
  <1>9. \A e : OnStack(e) <=> e = Top.dfr
    BY <1>3 DEF OnStack, Top
  <1>10. QueuesShaped'
    <2>1. \A e \in Deferreds : (Whole(callbacks[e]) \/ Rest(callbacks[e]))'
      BY <1>3, <1>6, <1>7 DEF QueuesShaped, Whole, Rest
    <2>2. \A e \in pending' \ is_firing' : Whole(callbacks[e])'
      <3>1. ASSUME NEW e \in pending', e \notin is_firing', e # d
            PROVE  Whole(callbacks'[e])
        <4>1. e \in pending \ is_firing /\ e \in Deferreds \ {d, Top.dfr}
          BY <1>1, <1>3, <1>8, <3>1 DEF Answered
        <4>2. Whole(callbacks[e]) /\ callbacks'[e] = callbacks[e]
          BY <1>7, <4>1 DEF QueuesShaped
        <4> QED BY <4>2
      <3>2. Whole(callbacks'[d])
        BY <1>6, <1>7
      <3> QED BY <3>1, <3>2 DEF Whole
    <2>3. \A e \in built' \cap is_firing' : Rest(callbacks[e])'
      BY <1>1, <1>3, <1>7, <1>8, <1>9 DEF QueuesShaped, Rest
    <2>4. DOMAIN stack' = {}
      BY <1>1
    <2> QED BY <2>1, <2>2, <2>3, <2>4 DEF QueuesShaped
  <1>11. ErrorsAreFaults'
    BY <1>1 DEF ErrorsAreFaults
  <1> QED BY <1>10, <1>11

-----------------------------------------------------------------------------
(* Which pair a handler is called for, and in which mode.                  *)
LEMMA CallingPair ==
  ASSUME DInv, QueuesShaped, NEW h \in Names, Calling(h)
  PROVE  /\ Running /\ Current # <<>>
         /\ Current[1] \in LogInPairs \cup OtherPairs \cup {DoAuthPair, ContactsPair}
         /\ IF Top.mode = "cb" THEN Current[1].cb = h ELSE Current[1].err = h
  <1>1. /\ Running /\ Current # <<>>
        /\ IF Top.mode = "cb" THEN Head(Current).cb = h ELSE Head(Current).err = h
    BY DEF Calling, InHandler, Handler
  <1>2. Head(Current) = Current[1] /\ (Whole(Current) \/ Rest(Current))
    BY <1>1, ShapedHead
  <1>3. Len(Current) # 0
    BY <1>1, ShapedHead
  <1>4. Current[1] \in LogInPairs \cup OtherPairs \cup {ContactsPair} \cup LastPairs
    BY <1>2, <1>3 DEF Whole, Rest
  <1>5. HANDLE \notin Names
    BY DEF HANDLE, Names
  <1>6. ASSUME NEW d, Current[1] = HandlePair(d)
        PROVE  FALSE
    BY <1>1, <1>2, <1>5, <1>6, PairFields
  <1> QED BY <1>1, <1>2, <1>4, <1>6 DEF LastPairs

-----------------------------------------------------------------------------
(* What the code does to the engine is something that the engine allows,   *)
(* and keeps its invariant: one lemma for each operation.                  *)
EngineOK == DInv /\ QueuesShaped /\ ErrorsAreFaults
EngineStep == [DNext]_dvars /\ EngineOK'

(* The engine is left alone.                                               *)
LEMMA EngineStill ==
  ASSUME EngineOK, UNCHANGED dvars
  PROVE  EngineStep
  <1>1. DInv'
    BY InvStep DEF EngineOK
  <1>2. UNCHANGED <<built, callbacks, is_firing, pending, stack>>
    BY DEF dvars
  <1>3. QueuesShaped' /\ ErrorsAreFaults'
    BY <1>2, ShapedStopped DEF EngineOK
  <1> QED BY <1>1, <1>3 DEF EngineStep, EngineOK

(* A request is made from the main loop or on the side of a handler.       *)
LEMMA EngineBuilds ==
  ASSUME EngineOK, NEW d, NEW chain \in ConnectionChains,
         NEW registered \in BOOLEAN, Build(d, chain, registered)
  PROVE  EngineStep /\ d \in Deferreds
  <1>1. d \in Deferreds /\ chain \in Chains
    BY ChainsAssumption DEF Build, Allocate
  <1>2. DNext
    BY <1>1 DEF DNext
  <1>3. DInv'
    BY <1>2, InvStep DEF EngineOK
  <1>4. QueuesShaped' /\ ErrorsAreFaults'
    BY ShapedBuild DEF EngineOK
  <1> QED BY <1>1, <1>2, <1>3, <1>4 DEF EngineStep, EngineOK

(* A reply, a fault or a timeout.                                          *)
LEMMA EngineFires ==
  ASSUME EngineOK, NEW d \in Deferreds,
         Fire(d, "cb", RESPONSE) \/ Fire(d, "err", FAULT)
  PROVE  EngineStep
  <1>1. FAULT \in Faults
    BY ChainsAssumption
  <1>2. DNext
    BY <1>1 DEF DNext
  <1>3. DInv'
    BY <1>2, InvStep DEF EngineOK
  <1>4. QueuesShaped' /\ ErrorsAreFaults'
    BY <1>1, <1>3, ShapedFire DEF EngineOK
  <1> QED BY <1>2, <1>3, <1>4 DEF EngineStep, EngineOK

(* A handler responds.                                                     *)
LEMMA EngineResponds ==
  ASSUME EngineOK, Respond
  PROVE  EngineStep
  <1>1. DNext
    BY DEF DNext, UserCode
  <1>2. DInv'
    BY <1>1, InvStep DEF EngineOK
  <1> QED BY <1>1, <1>2, ShapedRespond DEF EngineStep, EngineOK

(* A handler faults.                                                       *)
LEMMA EngineFaults ==
  ASSUME EngineOK, NEW f \in Faults, Fault(f)
  PROVE  EngineStep
  <1>1. DNext
    BY DEF DNext, UserCode
  <1>2. DInv'
    BY <1>1, InvStep DEF EngineOK
  <1> QED BY <1>1, <1>2, ShapedFault DEF EngineStep, EngineOK

(* A handler of the log-in returns the deferred of its request.            *)
LEMMA EngineChains ==
  ASSUME EngineOK, Current[1] \in LogInPairs,
         NEW d, NEW chain \in {WorkspacesChain, SwitchChain}, Chain(d, chain, TRUE)
  PROVE  EngineStep /\ d \in Deferreds
  <1>1. d \in Deferreds /\ chain \in Chains
    BY ChainsAssumption DEF Chain, Allocate, ConnectionChains
  <1>2. DNext
    BY <1>1 DEF DNext, UserCode
  <1>3. DInv'
    BY <1>2, InvStep DEF EngineOK
  <1>4. QueuesShaped' /\ ErrorsAreFaults'
    BY ShapedChain DEF EngineOK
  <1> QED BY <1>1, <1>2, <1>3, <1>4 DEF EngineStep, EngineOK

(* The account is shut down.                                               *)
LEMMA EngineDrops ==
  ASSUME EngineOK, DropPending
  PROVE  EngineStep
  <1>1. DNext
    BY DEF DNext
  <1>2. DInv'
    BY <1>1, InvStep DEF EngineOK
  <1>3. QueuesShaped' /\ ErrorsAreFaults'
    BY ShapedStopped DEF EngineOK, DropPending
  <1> QED BY <1>1, <1>2, <1>3 DEF EngineStep, EngineOK

(* The loops go on.                                                        *)
LEMMA EngineRuns ==
  ASSUME EngineOK, Engine
  PROVE  EngineStep
  <1>1. DNext
    BY DEF DNext
  <1>2. DInv'
    BY <1>1, InvStep DEF EngineOK
  <1>3. QueuesShaped' /\ ErrorsAreFaults'
    BY ShapedSkipPair, ShapedResume, ShapedFinishInner, ShapedFinishBase
    DEF EngineOK, Engine
  <1> QED BY <1>1, <1>2, <1>3 DEF EngineStep, EngineOK

-----------------------------------------------------------------------------
(* An errback that is called has been given a fault.                       *)
LEMMA ErrbackFault ==
  ASSUME EngineOK,
         NEW h \in {"auth_err", "workspaces_err", "switch_err",
                    "get_contacts_err", "contacts_err", "ping_err",
                    "do_auth_err"},
         Calling(h)
  PROVE  Top.mode = "err" /\ Top.val \in Faults
  <1>1. /\ Running
        /\ Current[1] \in LogInPairs \cup OtherPairs \cup {DoAuthPair, ContactsPair}
        /\ Top.mode = "cb" => Current[1].cb = h
    BY CallingPair DEF EngineOK, Names
  <1>2. h # NULL
    BY NullAssumption DEF Names
  <1>3. Top.mode # "cb"
    BY <1>1, <1>2, PairFields DEF LogInPairs, OtherPairs
  <1>4. Top.mode \in {"cb", "err"} /\ Depth \in DOMAIN stack
    BY <1>1, RunningFrames DEF EngineOK, DInv
  <1> QED BY <1>3, <1>4 DEF EngineOK, ErrorsAreFaults, Top

(* A callback that is called tells which pair is the next.                 *)
LEMMA CallbackPair ==
  ASSUME EngineOK
  PROVE  /\ Calling("auth_cb") => Current[1] = AuthPair
         /\ Calling("workspaces_cb") => Current[1] = WorkspacesPair
         /\ Calling("switch_cb") => Current[1] = SwitchPair
         /\ Calling("do_auth_cb") => Current[1] = DoAuthPair /\ Top.mode = "cb"
  <1>1. NULL \notin Names
    BY NullAssumption
  <1>2. ASSUME NEW h \in {"auth_cb", "workspaces_cb", "switch_cb", "do_auth_cb"},
               Calling(h)
        PROVE  /\ Current[1] \in LogInPairs \cup OtherPairs \cup {DoAuthPair, ContactsPair}
               /\ IF Top.mode = "cb" THEN Current[1].cb = h ELSE Current[1].err = h
    BY <1>2, CallingPair DEF EngineOK, Names
  <1> QED BY <1>1, <1>2, PairFields DEF LogInPairs, OtherPairs, Names

-----------------------------------------------------------------------------
ConnectionInv == EngineOK /\ CTypeOK

Flags ==
  /\ error \in BOOLEAN /\ token \in BOOLEAN /\ server \in BOOLEAN
  /\ freed \in BOOLEAN /\ uaf \in BOOLEAN

Timers ==
  /\ ttl \in [Deferreds -> -1..(DefaultTimeout + PingTimeout)]
  /\ alarm \in 0..Period

States ==
  /\ socket \in {NULL, "dialing", "reading"}
  /\ gc_state \in {"connecting", "connected", "disconnected"}
  /\ sweep \subseteq Deferreds
  /\ helo \in {NULL, "banner", "protocol", "verdict", "headers"}

(* The parts of the type invariant.                                        *)
LEMMA TypeParts == CTypeOK <=> Flags /\ Timers /\ States
  BY DEF CTypeOK, Flags, Timers, States

(* The same in the next state.                                             *)
LEMMA TypePartsNext == CTypeOK' <=> Flags' /\ Timers' /\ States'
  BY DEF CTypeOK, Flags, Timers, States

(* The expiration of a new deferred.                                       *)
LEMMA ExpiresTyped ==
  ASSUME Timers, NEW d \in Deferreds,
         NEW timeout \in {0, DefaultTimeout, PingTimeout}, ExpiresIn(d, timeout)
  PROVE  ttl' \in [Deferreds -> -1..(DefaultTimeout + PingTimeout)]
  BY TimingAssumption DEF Timers, ExpiresIn

(* A write.                                                                *)
LEMMA SendTyped ==
  ASSUME Flags, States, NEW ok \in BOOLEAN, SendChunks(ok)
  PROVE  socket' \in {NULL, "dialing", "reading"} /\ error' \in BOOLEAN
  <1>1. CASE ok
    BY <1>1 DEF Flags, States, SendChunks
  <1>2. CASE ~ok
    BY <1>2 DEF SendChunks, Lost
  <1> QED BY <1>1, <1>2

(* The HELO, errors of the socket, the clock and the end of the server:    *)
(* the engine does not move.                                               *)
LEMMA StillSteps ==
  ASSUME ConnectionInv,
         \/ StartHelo \/ HeloProceeds \/ HeloRefused \/ ConnectFails
         \/ InputFails \/ ServerDies \/ StaleCallback \/ Tick
  PROVE  EngineStep /\ CTypeOK'
  <1>1. UNCHANGED dvars
    BY DEF StartHelo, HeloProceeds, HeloRefused, ConnectFails, InputFails,
      ServerDies, StaleCallback, Tick
  <1>2. Flags /\ Timers /\ States
    BY TypeParts DEF ConnectionInv
  <1>3. Flags'
    BY <1>2 DEF Flags, StartHelo, HeloProceeds, HeloRefused, ConnectFails,
      InputFails, ServerDies, StaleCallback, Tick, Lost
  <1>4. Timers'
    <2>1. CASE Tick
      <3>1. ASSUME NEW d \in Deferreds
            PROVE  ttl'[d] \in -1..(DefaultTimeout + PingTimeout)
        <4>1. \/ ttl'[d] \in {0, ttl[d]}
              \/ ttl[d] >= 0 /\ ttl'[d] = ttl[d] - 1
          BY <2>1 DEF Tick
        <4>2. ttl[d] \in -1..(DefaultTimeout + PingTimeout)
          BY <1>2 DEF Timers
        <4> QED BY <4>1, <4>2, TimingAssumption
      <3>2. alarm' \in 0..Period
        BY <1>2, <2>1, TimingAssumption DEF Tick, Timers
      <3>3. ttl' = [d \in Deferreds |-> ttl'[d]]
        BY <2>1 DEF Tick
      <3> QED BY <3>1, <3>2, <3>3 DEF Timers
    <2>2. CASE ~Tick
      BY <1>2, <2>2 DEF Timers, StartHelo, HeloProceeds, HeloRefused,
        ConnectFails, InputFails, ServerDies, StaleCallback
    <2> QED BY <2>1, <2>2
  <1>5. States'
    <2>1. CASE HeloProceeds
      <3>1. \/ helo = "banner" /\ helo' = "protocol"
            \/ helo = "protocol" /\ helo' = "verdict"
            \/ helo = "verdict" /\ helo' = "headers"
        BY <2>1 DEF HeloProceeds, NextPart
      <3> QED BY <1>2, <2>1, <3>1 DEF HeloProceeds, States
    <2>2. CASE ~HeloProceeds
      BY <1>2, <2>2 DEF States, StartHelo, HeloRefused, ConnectFails,
        InputFails, ServerDies, StaleCallback, Tick, Lost
    <2> QED BY <2>1, <2>2
  <1>6. EngineStep
    BY <1>1, EngineStill DEF ConnectionInv
  <1> QED BY <1>3, <1>4, <1>5, <1>6, TypePartsNext

(* Steps that make a request on the side.                                  *)
LEMMA RequestSteps ==
  ASSUME ConnectionInv,
         HeloEnded \/ RefreshContacts \/ Connected \/ KeepAlive
  PROVE  EngineStep /\ CTypeOK'
  <1>1. EngineOK /\ Flags /\ Timers /\ States
    BY TypeParts DEF ConnectionInv
  <1>2. token \in BOOLEAN /\ TRUE \in BOOLEAN
    BY <1>1 DEF Flags
  <1>3. PICK d \in Deferreds, chain \in ConnectionChains, registered \in BOOLEAN,
             timeout \in {0, DefaultTimeout, PingTimeout} :
          Build(d, chain, registered) /\ ExpiresIn(d, timeout)
    <2>9. \A d, chain, registered : Build(d, chain, registered) => d \in Deferreds
      BY DEF Build, Allocate
    <2>0. /\ AuthChain \in ConnectionChains /\ ContactsChain \in ConnectionChains
          /\ PingChain \in ConnectionChains
      BY DEF ConnectionChains
    <2>1. CASE HeloEnded
      <3>1. PICK d \in Deferreds : Build(d, AuthChain, TRUE) /\ ExpiresIn(d, DefaultTimeout)
        BY <2>1, <2>9 DEF HeloEnded
      <3> QED BY <3>1, <2>0, <1>2
    <2>2. CASE RefreshContacts
      <3>1. PICK d \in Deferreds : /\ Build(d, ContactsChain, token)
                     /\ ExpiresIn(d, IF token THEN DefaultTimeout ELSE 0)
        BY <2>2, <2>9 DEF RefreshContacts
      <3>2. CASE token
        BY <3>1, <3>2, <2>0, <1>2
      <3>3. CASE ~token
        BY <3>1, <3>3, <2>0, <1>2
      <3> QED BY <3>2, <3>3
    <2>3. CASE Connected
      <3>1. PICK d \in Deferreds : Build(d, ContactsChain, TRUE) /\ ExpiresIn(d, DefaultTimeout)
        BY <2>3, <2>9 DEF Connected, Request
      <3> QED BY <3>1, <2>0, <1>2
    <2>4. CASE KeepAlive
      <3>1. PICK d \in Deferreds : Build(d, PingChain, TRUE) /\ ExpiresIn(d, PingTimeout)
        BY <2>4, <2>9 DEF KeepAlive, Request
      <3> QED BY <3>1, <2>0, <1>2
    <2> QED BY <2>1, <2>2, <2>3, <2>4
  <1>4. EngineStep /\ d \in Deferreds
    BY <1>1, <1>3, EngineBuilds
  <1>5. ttl' \in [Deferreds -> -1..(DefaultTimeout + PingTimeout)]
    BY <1>1, <1>3, <1>4, ExpiresTyped
  <1>6. socket' \in {NULL, "dialing", "reading"} /\ error' \in BOOLEAN
    <2>1. CASE HeloEnded
      BY <1>1, <2>1 DEF HeloEnded, Lost, Flags
    <2>2. CASE ~HeloEnded
      <3>1. PICK ok \in BOOLEAN : SendChunks(ok)
        BY <2>2 DEF RefreshContacts, Connected, KeepAlive, Request
      <3> QED BY <1>1, <3>1, SendTyped
    <2> QED BY <2>1, <2>2
  <1>7. Flags'
    BY <1>1, <1>6 DEF Flags, HeloEnded, RefreshContacts, Connected, KeepAlive
  <1>8. alarm' \in 0..Period
    <2>1. alarm' \in {alarm, Period}
      BY DEF HeloEnded, RefreshContacts, Connected, KeepAlive
    <2> QED BY <1>1, <2>1, TimingAssumption DEF Timers
  <1>9. Expired \subseteq Deferreds
    BY <1>1 DEF Expired, EngineOK, DInv, DTypeOK
  <1>10. States'
    BY <1>1, <1>6, <1>9
    DEF States, HeloEnded, RefreshContacts, Connected, KeepAlive
  <1> QED BY <1>4, <1>5, <1>7, <1>8, <1>10, TypePartsNext DEF Timers

(* Steps of handlers and of the loops.                                     *)
LEMMA HandlerSteps ==
  ASSUME ConnectionInv,
         \/ Invalid \/ Propagate \/ SwitchCb \/ DoAuthCb \/ DoAuthErr
         \/ Handled \/ PingErr \/ AuthCb \/ WorkspacesCb \/ AuthFailed
         \/ RunEngine
  PROVE  EngineStep /\ CTypeOK'
  <1>0. EngineOK /\ Flags /\ Timers /\ States
    BY TypeParts DEF ConnectionInv
  <1>1. CASE Invalid \/ Propagate
    <2>1. PICK f \in Faults : Fault(f) /\ UNCHANGED ownvars
      BY <1>0, <1>1, ErrbackFault, ChainsAssumption DEF Invalid, Propagate
    <2>2. EngineStep
      BY <1>0, <2>1, EngineFaults
    <2>3. Flags' /\ Timers' /\ States'
      BY <1>0, <2>1 DEF ownvars, Flags, Timers, States
    <2> QED BY <2>2, <2>3, TypePartsNext
  <1>2. CASE SwitchCb \/ DoAuthCb \/ DoAuthErr \/ Handled \/ PingErr
    <2>1. EngineStep
      BY <1>0, <1>2, EngineResponds
      DEF SwitchCb, DoAuthCb, DoAuthErr, Handled, PingErr
    <2>2. Flags'
      BY <1>0, <1>2 DEF SwitchCb, DoAuthCb, DoAuthErr, Handled, PingErr, Lost,
        ownvars, Flags
    <2>3. Timers' /\ States'
      BY <1>0, <1>2 DEF SwitchCb, DoAuthCb, DoAuthErr, Handled, PingErr, Lost,
        ownvars, Timers, States
    <2> QED BY <2>1, <2>2, <2>3, TypePartsNext
  <1>3. CASE AuthCb \/ WorkspacesCb
    <2>1. PICK d \in Deferreds, chain \in {WorkspacesChain, SwitchChain}, ok \in BOOLEAN :
            ChainRequest(d, chain, ok)
      <3>0. \A d, chain, ok : ChainRequest(d, chain, ok) => d \in Deferreds
        BY DEF ChainRequest, Chain, Allocate
      <3>1. CASE AuthCb
        <4>1. PICK d \in Deferreds, ok \in BOOLEAN : ChainRequest(d, WorkspacesChain, ok)
          BY <3>0, <3>1 DEF AuthCb
        <4> QED BY <4>1
      <3>2. CASE WorkspacesCb
        <4>1. PICK d \in Deferreds, ok \in BOOLEAN : ChainRequest(d, SwitchChain, ok)
          BY <3>0, <3>2 DEF WorkspacesCb
        <4> QED BY <4>1
      <3> QED BY <1>3, <3>1, <3>2
    <2>2. Current[1] \in LogInPairs
      BY <1>0, <1>3, CallbackPair DEF AuthCb, WorkspacesCb, LogInPairs
    <2>3. EngineStep /\ d \in Deferreds
      BY <1>0, <2>1, <2>2, EngineChains DEF ChainRequest
    <2>4. ttl' \in [Deferreds -> -1..(DefaultTimeout + PingTimeout)]
      BY <1>0, <2>1, <2>3, ExpiresTyped DEF ChainRequest
    <2>5. socket' \in {NULL, "dialing", "reading"} /\ error' \in BOOLEAN
      BY <1>0, <2>1, SendTyped DEF ChainRequest
    <2>6. Flags'
      BY <1>0, <2>1, <2>5 DEF ChainRequest, Flags
    <2>7. Timers' /\ States'
      BY <1>0, <2>1, <2>4, <2>5 DEF ChainRequest, Timers, States
    <2> QED BY <2>3, <2>6, <2>7, TypePartsNext
  <1>4. CASE AuthFailed
    <2>1. EngineStep
      BY <1>0, <1>4, EngineDrops DEF AuthFailed
    <2>2. Flags' /\ Timers' /\ States'
      BY <1>0, <1>4 DEF AuthFailed, Flags, Timers, States
    <2> QED BY <2>1, <2>2, TypePartsNext
  <1>5. CASE RunEngine
    <2>1. EngineStep
      BY <1>0, <1>5, EngineRuns DEF RunEngine
    <2>2. Flags'
      BY <1>0, <1>5 DEF RunEngine, Flags
    <2>3. Timers' /\ States'
      BY <1>0, <1>5 DEF RunEngine, Timers, States
    <2> QED BY <2>1, <2>2, <2>3, TypePartsNext
  <1> QED BY <1>1, <1>2, <1>3, <1>4, <1>5

(* Every step of the connection is a step of the engine or leaves it.      *)
LEMMA ConnectionStep ==
  ASSUME ConnectionInv, [CNext]_cvars
  PROVE  EngineStep /\ CTypeOK'
  <1>0. EngineOK /\ Flags /\ Timers /\ States
    BY TypeParts DEF ConnectionInv
  <1>1. CASE Reply
    <2>1. EngineStep
      BY <1>0, <1>1, EngineFires DEF Reply
    <2>2. Flags' /\ Timers' /\ States'
      BY <1>0, <1>1 DEF Reply, ownvars, Flags, Timers, States
    <2> QED BY <2>1, <2>2, TypePartsNext
  <1>2. CASE Timeout
    <2>1. PICK d \in sweep :
            /\ IF d \in pending THEN Fire(d, "err", FAULT) ELSE UNCHANGED dvars
            /\ sweep' = sweep \ {d}
      BY <1>2 DEF Timeout
    <2>2. d \in Deferreds
      BY <1>0 DEF States
    <2>3. EngineStep
      BY <1>0, <2>1, <2>2, EngineFires, EngineStill
    <2>4. Flags' /\ Timers' /\ States'
      BY <1>0, <1>2, <2>1 DEF Timeout, Flags, Timers, States
    <2> QED BY <2>3, <2>4, TypePartsNext
  <1>3. CASE Disconnect \/ LogOff
    <2>1. Close
      BY <1>3 DEF Disconnect, LogOff
    <2>2. EngineStep
      BY <1>0, <2>1, EngineDrops DEF Close
    <2>3. Flags'
      BY <1>0, <2>1 DEF Close, Flags
    <2>4. Timers' /\ States'
      BY <1>0, <2>1, TimingAssumption DEF Close, Timers, States
    <2> QED BY <2>2, <2>3, <2>4, TypePartsNext
  <1>4. CASE UNCHANGED cvars
    <2>1. EngineStep
      BY <1>0, <1>4, EngineStill DEF cvars
    <2>2. Flags' /\ Timers' /\ States'
      BY <1>0, <1>4 DEF cvars, ownvars, Flags, Timers, States
    <2> QED BY <2>1, <2>2, TypePartsNext
  <1> QED
    BY <1>1, <1>2, <1>3, <1>4, StillSteps, RequestSteps, HandlerSteps
    DEF CNext, Network, Handlers, HeloReads

(* Before anything is built.                                               *)
LEMMA ConnectionInit == CInit => ConnectionInv
  <1> SUFFICES ASSUME CInit PROVE ConnectionInv
    OBVIOUS
  <1>1. DInit
    BY DEF CInit
  <1>2. DInv
    BY <1>1, InvInit
  <1>3. QueuesShaped /\ ErrorsAreFaults
    BY <1>1 DEF DInit, QueuesShaped, ErrorsAreFaults, Rest
  <1>4. CTypeOK
    <2>1. Flags
      BY DEF CInit, Flags
    <2>2. Timers
      BY TimingAssumption DEF CInit, Timers
    <2>3. States
      BY DEF CInit, States
    <2> QED BY <2>1, <2>2, <2>3, TypeParts
  <1> QED BY <1>2, <1>3, <1>4 DEF ConnectionInv, EngineOK

(* The invariant of the engine under the connection.                       *)
LEMMA ConnectionAlways == CSpec => []ConnectionInv
  <1>1. ConnectionInv /\ [CNext]_cvars => ConnectionInv'
    BY ConnectionStep DEF ConnectionInv, EngineStep
  <1> QED BY <1>1, ConnectionInit, PTL DEF CSpec

(* The variables of the connection keep their types.                       *)
THEOREM ConnectionTypeCorrect == CSpec => []CTypeOK
  <1>1. ConnectionInv => CTypeOK
    BY DEF ConnectionInv
  <1> QED BY <1>1, ConnectionAlways, PTL

(* All that log-in, keep-alive, sweep and shutdown do to deferreds is what *)
(* the engine allows, so that its theorems hold of the connection.         *)
THEOREM ConnectionRunsEngine == CSpec => DSpec
  <1>1. ConnectionInv /\ [CNext]_cvars => [DNext]_dvars
    BY ConnectionStep DEF EngineStep
  <1>2. CInit => DInit
    BY DEF CInit
  <1> QED BY <1>1, <1>2, ConnectionAlways, PTL DEF CSpec, DSpec
=============================================================================
