-------------------------------- MODULE Rpc ---------------------------------
(***************************************************************************)
(* What libballyhoo promises to the plugin and to the server about calls   *)
(* in both directions, whatever becomes of the bytes that carry them:      *)
(*                                                                         *)
(*   - a request of the client ends at most once, either with what the     *)
(*     server replied to this very request or with a timeout;              *)
(*   - a call of the server is handled at most once, in the order of the   *)
(*     calls, and answered at most once, by the time the next is handled.  *)
(*                                                                         *)
(* Requests and calls are numbered by their uuids, each side its own.      *)
(***************************************************************************)
EXTENDS Naturals

VARIABLES
  asked,     \* requests made by the client
  replied,   \* the server's replies: uuid and kind
  ended,     \* the requests that ended: uuid and outcome
  called,    \* calls made by the server
  handled,   \* the last of them that was handled, 0 before the first
  answered   \* the calls that were answered

rvars == <<asked, replied, ended, called, handled, answered>>

Kinds == {"response", "fault"}

Init ==
  /\ asked = 0 /\ called = 0 /\ handled = 0
  /\ replied = {} /\ ended = {} /\ answered = {}

Ask ==
  /\ asked' = asked + 1
  /\ UNCHANGED <<replied, ended, called, handled, answered>>

Reply(u, kind) ==
  /\ u \in 1..asked
  /\ \A r \in replied : r[1] # u
  /\ replied' = replied \cup {<<u, kind>>}
  /\ UNCHANGED <<asked, ended, called, handled, answered>>

End(u, outcome) ==
  /\ u \in 1..asked
  /\ \A r \in ended : r[1] # u
  /\ outcome = "timeout" \/ <<u, outcome>> \in replied
  /\ ended' = ended \cup {<<u, outcome>>}
  /\ UNCHANGED <<asked, replied, called, handled, answered>>

Call ==
  /\ called' = called + 1
  /\ UNCHANGED <<asked, replied, ended, handled, answered>>

(* Calls that cannot be read are passed over.                              *)
Handle ==
  /\ handled' \in (handled + 1)..called
  /\ UNCHANGED <<asked, replied, ended, called, answered>>

Answer ==
  /\ handled > 0
  /\ handled \notin answered
  /\ answered' = answered \cup {handled}
  /\ UNCHANGED <<asked, replied, ended, called, handled>>

Next ==
  \/ Ask \/ Call \/ Handle \/ Answer
  \/ \E u \in 1..asked :
       \/ \E kind \in Kinds : Reply(u, kind)
       \/ \E outcome \in Kinds \cup {"timeout"} : End(u, outcome)

Spec == Init /\ [][Next]_rvars
=============================================================================
