------------------------------ MODULE Deferred ------------------------------
(***************************************************************************)
(* The deferred engine of libballyhoo (libballyhoo_deferred.c) and the     *)
(* table of requests in flight that fires it (BallyhooAccount              *)
(* .pending_callbacks).                                                    *)
(*                                                                         *)
(* A deferred is a queue of callback pairs.  A reply, a fault or a timeout *)
(* fires it: the pairs are popped one by one, the callback of a pair is    *)
(* called while the result is a response, its errback while it is a fault. *)
(* A handler that returns another deferred suspends the one it ran for: a  *)
(* pair that resumes the outer deferred is appended to the inner one.      *)
(*                                                                         *)
(* Firing runs to completion inside one event of libpurple's main loop but *)
(* recurses (a resumed deferred runs inside the handler of the inner one), *)
(* so the C stack is a variable and one action is one turn of a loop of    *)
(* libballyhoo_deferred_callback or libballyhoo_deferred_errback.  While   *)
(* the stack is not empty only the engine and the handler it is calling    *)
(* can move.                                                               *)
(*                                                                         *)
(* What the handlers do is left open here: they respond, fault, or build   *)
(* and return a deferred, and may start other requests on the way.         *)
(***************************************************************************)
EXTENDS Naturals, Sequences

CONSTANTS
  Deferreds,  \* addresses a Deferred can be allocated at
  Callbacks,  \* the handlers that user code puts into callback pairs
  UserData,   \* what user code passes to its handlers
  Chains,     \* the callback queues that user code builds
  Faults,     \* the faults an errback can be given
  NULL

HANDLE == "libballyhoo_deferred_handle"
RESPONSE == "response"

UserPair == [cb : Callbacks \cup {NULL}, err : Callbacks \cup {NULL},
             user_data : UserData]

(* The pair that resumes d: libballyhoo_deferred_handle_cb and _err.       *)
HandlePair(d) == [cb |-> HANDLE, err |-> HANDLE, user_data |-> d]

Pair == UserPair \cup {HandlePair(d) : d \in Deferreds}

ASSUME CallbacksAssumption ==
  /\ HANDLE \notin Callbacks
  /\ NULL \notin Callbacks
  /\ NULL # HANDLE
  /\ RESPONSE \notin Faults  \* the type of a DeferredResponse tells them apart
  /\ Chains \subseteq Seq(UserPair)

VARIABLES
  built,      \* deferreds allocated and not freed
  callbacks,  \* callbacks[d]: the pairs d still has to run
  is_firing,  \* deferreds that callback or errback has been called for
  fired,      \* deferreds whose queue has been run to its end
  pending,    \* pending_callbacks: deferreds registered under their uuid
  stack,      \* activations of callback/errback, the innermost last
  crashed     \* a NULL DeferredResponse has been dereferenced

dvars == <<built, callbacks, is_firing, fired, pending, stack, crashed>>

Result == Faults \cup {RESPONSE}
Frame == [dfr : Deferreds, mode : {"cb", "err"}, val : Result]

DTypeOK ==
  /\ built \subseteq Deferreds
  /\ callbacks \in [Deferreds -> Seq(Pair)]
  /\ is_firing \subseteq Deferreds
  /\ fired \subseteq Deferreds
  /\ pending \subseteq Deferreds
  /\ stack \in Seq(Frame)
  /\ crashed \in BOOLEAN

DInit ==
  /\ built = {}
  /\ callbacks = [d \in Deferreds |-> <<>>]
  /\ is_firing = {}
  /\ fired = {}
  /\ pending = {}
  /\ stack = <<>>
  /\ crashed = FALSE

-----------------------------------------------------------------------------
Idle == stack = <<>> /\ ~crashed
Running == stack # <<>> /\ ~crashed

Depth == Len(stack)
Top == stack[Depth]
Base == stack[1].dfr
Current == callbacks[Top.dfr]

(* The member of the next pair that this activation would call.            *)
Handler == IF Top.mode = "cb" THEN Head(Current).cb ELSE Head(Current).err

InHandler == Running /\ Current # <<>> /\ Handler \in Callbacks

(* For the modules that give the handlers their code.                      *)
Calling(handler) == InHandler /\ Handler = handler

(* The address g_new0 returns, in those modules: which of the free ones    *)
(* makes no difference.                                                    *)
Fresh == IF built = Deferreds THEN {}
         ELSE {CHOOSE d \in Deferreds : d \notin built}

Popped == [callbacks EXCEPT ![Top.dfr] = Tail(@)]

(* The innermost activation goes on with a new result.                     *)
GoOn(mode, val) ==
  stack' = [stack EXCEPT ![Depth] = [dfr |-> Top.dfr, mode |-> mode,
                                     val |-> val]]

(* A new activation, unless d has fired: that returns NULL, and every      *)
(* caller reads the type of what it is given.                              *)
Enter(d, mode, val) ==
  /\ is_firing' = is_firing \cup {d}
  /\ IF d \in fired
     THEN crashed' = TRUE /\ UNCHANGED stack
     ELSE /\ stack' = Append(stack, [dfr |-> d, mode |-> mode, val |-> val])
          /\ UNCHANGED crashed

(* A fresh Deferred: g_new0.                                               *)
Allocate(d) ==
  /\ d \in Deferreds \ built
  /\ built' = built \cup {d}
  /\ is_firing' = is_firing \ {d}
  /\ fired' = fired \ {d}

(* libballyhoo_deferred_build with the pairs its caller adds before        *)
(* anything can fire it, and libballyhoo_add_deferred when the request is  *)
(* registered.  User code runs from the main loop or inside a handler.     *)
Build(d, chain, registered) ==
  /\ Idle \/ InHandler
  /\ Allocate(d)
  /\ callbacks' = [callbacks EXCEPT ![d] = chain]
  /\ pending' = IF registered THEN pending \cup {d} ELSE pending
  /\ UNCHANGED <<stack, crashed>>

(* A reply, a fault or a timeout for a request in flight.  One that is not *)
(* in the table, because it was answered or timed out before, is ignored.  *)
Fire(d, mode, val) ==
  /\ Idle
  /\ d \in pending
  /\ Enter(d, mode, val)
  /\ UNCHANGED <<built, callbacks, fired, pending>>

(* The pair has no handler for this mode.                                  *)
SkipPair ==
  /\ Running
  /\ Current # <<>>
  /\ Handler = NULL
  /\ callbacks' = Popped
  /\ UNCHANGED <<built, is_firing, fired, pending, stack, crashed>>

(* libballyhoo_deferred_handle_cb and _err fire the outer deferred.        *)
Resume ==
  /\ Running
  /\ Current # <<>>
  /\ Handler = HANDLE
  /\ callbacks' = Popped
  /\ Enter(Head(Current).user_data, Top.mode, Top.val)
  /\ UNCHANGED <<built, fired, pending>>

(* A handler returns DEFERRED_RESPONSE: go on with the callbacks.          *)
Respond ==
  /\ InHandler
  /\ callbacks' = Popped
  /\ GoOn("cb", RESPONSE)
  /\ UNCHANGED <<built, is_firing, fired, pending, crashed>>

(* A handler returns DEFERRED_FAULT.  After a callback the pair goes back  *)
(* to the head of the queue, so that its own errback is the next.          *)
(* Mutant: the pair goes back after an errback too.                        *)
AlwaysPushBack == callbacks

FaultedQueue == IF Top.mode = "cb" THEN callbacks ELSE Popped

Fault(f) ==
  /\ InHandler
  /\ callbacks' = FaultedQueue
  /\ GoOn("err", f)
  /\ UNCHANGED <<built, is_firing, fired, pending, crashed>>

(* The pairs that a chain of activations appends to the deferred that the  *)
(* innermost handler returned, in that order.                              *)
(* Mutants: in the order the activations began; only for the activation    *)
(* whose handler returned the deferred.                                    *)
OutermostFirst == [i \in 1..Depth |-> HandlePair(stack[i].dfr)]
OnlyInnermost == <<HandlePair(Top.dfr)>>

HandlePairs == [i \in 1..Depth |-> HandlePair(stack[Depth + 1 - i].dfr)]

(* The main loop drops the request it fired, whatever became of it.        *)
(* Mutant: the answered request stays in the table.                        *)
StaysPending == pending

Answered == pending \ {Base}

(* A handler returns DEFERRED_DEFERRED with a deferred d it has built.     *)
(* Its activation appends its handle pair to d and returns the same        *)
(* response, which the activation below takes for the response of its own  *)
(* handler: every deferred on the stack ends up waiting in d.              *)
(* Mutant: handle_cb and handle_err free the outer deferred they have run  *)
(* (the g_free that is commented out there).                               *)
ChainFreeing(d, chain, registered) ==
  /\ InHandler
  /\ d \in Deferreds \ built
  /\ built' = (built \ {stack[i].dfr : i \in 2..Depth}) \cup {d}
  /\ is_firing' = is_firing \ {d}
  /\ fired' = fired \ {d}
  /\ callbacks' = [Popped EXCEPT ![d] = chain \o HandlePairs]
  /\ pending' = IF registered THEN Answered \cup {d} ELSE Answered
  /\ stack' = <<>>
  /\ UNCHANGED crashed

Chain(d, chain, registered) ==
  /\ InHandler
  /\ Allocate(d)
  /\ callbacks' = [Popped EXCEPT ![d] = chain \o HandlePairs]
  /\ pending' = IF registered THEN Answered \cup {d} ELSE Answered
  /\ stack' = <<>>
  /\ UNCHANGED crashed

(* The queue is empty: DEFERRED_RESPONSE with the current result, also     *)
(* after errbacks that all faulted.  The activation below goes on with its *)
(* callbacks ...                                                           *)
(* Mutant: the final response does not carry the current result.           *)
FinishWithoutResult ==
  /\ Running
  /\ Current = <<>>
  /\ Depth > 1
  /\ fired' = fired \cup {Top.dfr}
  /\ stack' = [i \in 1..(Depth - 1) |->
                 IF i = Depth - 1
                 THEN [dfr |-> stack[i].dfr, mode |-> "cb", val |-> NULL]
                 ELSE stack[i]]
  /\ UNCHANGED <<built, callbacks, is_firing, pending, crashed>>

FinishInner ==
  /\ Running
  /\ Current = <<>>
  /\ Depth > 1
  /\ fired' = fired \cup {Top.dfr}
  /\ stack' = [i \in 1..(Depth - 1) |->
                 IF i = Depth - 1
                 THEN [dfr |-> stack[i].dfr, mode |-> "cb", val |-> Top.val]
                 ELSE stack[i]]
  /\ UNCHANGED <<built, callbacks, is_firing, pending, crashed>>

(* ... and at the bottom the main loop frees the deferred.                 *)
FinishBase ==
  /\ Running
  /\ Current = <<>>
  /\ Depth = 1
  /\ fired' = fired \cup {Base}
  /\ stack' = <<>>
  /\ built' = built \ {Base}
  /\ pending' = Answered
  /\ UNCHANGED <<callbacks, is_firing, crashed>>

(* libballyhoo_shutdown destroys the table; the deferreds in it are        *)
(* neither fired nor freed.  libgaldr_do_auth_err shuts down inside a      *)
(* handler.                                                                *)
DropPending ==
  /\ Idle \/ InHandler
  /\ pending' = {}
  /\ UNCHANGED <<built, callbacks, is_firing, fired, stack, crashed>>

-----------------------------------------------------------------------------
UserCode ==
  \/ Respond
  \/ \E f \in Faults : Fault(f)
  \/ \E d \in Deferreds, chain \in Chains, registered \in BOOLEAN :
       Chain(d, chain, registered)

Engine == SkipPair \/ Resume \/ FinishInner \/ FinishBase

DNext ==
  \/ \E d \in Deferreds, chain \in Chains, registered \in BOOLEAN :
       Build(d, chain, registered)
  \/ \E d \in Deferreds : Fire(d, "cb", RESPONSE)
  \/ \E d \in Deferreds, f \in Faults : Fire(d, "err", f)
  \/ UserCode
  \/ Engine
  \/ DropPending

DSpec == DInit /\ [][DNext]_dvars

(* Handlers return, and the loops go on: C code that is not blocked.       *)
DFairSpec == DSpec /\ WF_dvars(UserCode \/ Engine)

-----------------------------------------------------------------------------
OnStack(d) == \E i \in DOMAIN stack : stack[i].dfr = d

(* d has called a handler that returned another deferred.                  *)
Suspended(d) == d \in (built \cap is_firing) \ fired /\ ~OnStack(d)

(* The i-th pair of e resumes d.                                           *)
WaitsAt(d, e, i) ==
  /\ e \in built
  /\ i \in DOMAIN callbacks[e]
  /\ callbacks[e][i] = HandlePair(d)

(* No deferred is fired again after its queue has been run: the engine     *)
(* would return NULL, and every caller reads r->type without a test.       *)
NeverRefired == ~crashed

(* Between two events no request in the table has begun to fire: the test  *)
(* of is_firing in libballyhoo_update never spares a request for ever.     *)
NoneLeftFiring == Idle => pending \cap is_firing = {}

(* A suspended deferred waits in one place of one queue, and only          *)
(* suspended deferreds wait: none is lost, and none is resumed twice       *)
(* however many deferreds the handlers of one chain return.                *)
OneWaker ==
  /\ \A d \in built :
       Suspended(d) <=> \E e \in built : \E i \in DOMAIN callbacks[e] :
                          WaitsAt(d, e, i)
  /\ \A d, e1, e2 \in built :
       \A i1 \in DOMAIN callbacks[e1], i2 \in DOMAIN callbacks[e2] :
         WaitsAt(d, e1, i1) /\ WaitsAt(d, e2, i2) => e1 = e2 /\ i1 = i2

(* No handle pair of an allocated deferred, no activation and no request   *)
(* in flight refers to a deferred that has been freed: the g_free of the   *)
(* deferred that was fired comes when nothing needs it any more.           *)
NoDanglingDeferred ==
  /\ \A i \in DOMAIN stack : stack[i].dfr \in built
  /\ \A e \in built : \A i \in DOMAIN callbacks[e] :
       callbacks[e][i].cb = HANDLE => callbacks[e][i].user_data \in built
  /\ pending \subseteq built

(* A fault that no errback has handled never reaches a user callback,      *)
(* although the engine reports the end of an unhandled error chain as a    *)
(* DEFERRED_RESPONSE and the outer deferred then goes on with callbacks.   *)
FaultsReachNoCallback ==
  InHandler /\ Top.mode = "cb" => Top.val \notin Faults

(* The event that fired a deferred ends: no chain of handlers, errbacks    *)
(* and resumed deferreds keeps the main loop.                              *)
RunsEnd == (stack # <<>>) ~> (stack = <<>>)
=============================================================================
