---------------------------- MODULE MCMessaging -----------------------------
(* Finite values for the constants of Messaging: one contact, its session, *)
(* a group it shares with a stranger, and a session with strangers only.   *)
EXTENDS Messaging

MCMembers == [s \in {"direct", "group", "others"} |->
                CASE s = "direct" -> {"u"}
                  [] s = "group" -> {"u", "x"}
                  [] s = "others" -> {"x"}]
DirectOnly == [s \in {"direct"} |-> {"u"}]

MCFaults == {"1003", "other", "text"}

MCCallbacks == Names

MCUserData ==
  {p.user_data : p \in UNION {{c[i] : i \in DOMAIN c} : c \in MessagingChains}}

MCChains == MessagingChains
=============================================================================
