----------------------------- MODULE Messaging ------------------------------
(***************************************************************************)
(* Contacts, sessions and messages of a connected account (libgaldr).      *)
(*                                                                         *)
(* A message that the user sends needs the session of its contact; one     *)
(* that the server delivers needs the session it belongs to.  A session    *)
(* that is not in the table is first asked for, and a fault 1003 (a token  *)
(* has expired) makes the client refresh its workspace token and repeat    *)
(* the call.  All of this is chained deferreds, on the engine of Deferred. *)
(*                                                                         *)
(* A contact object is a pair <<user, list>>: every contact list that      *)
(* arrives makes new objects, and queues that were built before keep the   *)
(* old ones.  The socket stays open and a workspace token is set           *)
(* (ConnectedHasToken of Connection); a request that times out is one that *)
(* is given the fault "other".                                             *)
(***************************************************************************)
EXTENDS Deferred, FiniteSets

CONSTANTS
  Users,        \* the users in the contact list
  Strangers,    \* users who are not
  SessionIds,   \* the sessions the server knows
  Members,      \* Members[s]: the users of s, without ourselves
  Ims,          \* the messages the user sends
  MaxInFlight,  \* bound on the requests that events put in flight together
  MaxMessages,  \* bound on the messages the server delivers
  MaxLists,     \* bound on the contact lists
  MaxFaults,    \* bound on the faults of the server and of the clock
  OtherFaults   \* whether there are others than expired tokens

(* A fault is a BallyhooXMLRPC ("1003", "other") or a string ("text").     *)
(* Reading fault_code of a string is undefined: 1003 or something else.    *)
(* Mutant: fault_code is not looked at.                                    *)
AnyFault(fault) == {TRUE}

ReadsAs1003(fault) == IF fault = "text" THEN BOOLEAN ELSE {fault = "1003"}

Contacts == Users \X (1..MaxLists)

Pairs(cb, err, data) == <<[cb |-> cb, err |-> err, user_data |-> data]>>

(* The calls a GaldrMarshal repeats.                                       *)
Calls ==
  {<<"create", u>> : u \in Users} \cup {<<"get", s>> : s \in SessionIds}
  \cup {<<"send", u, l, im>> : u \in Users, l \in 1..MaxLists, im \in Ims}

(* Mutant: without an errback.                                             *)
NoRetry(call) == Pairs("default_cb", NULL, call)

AddRetry(call) == Pairs("default_cb", "default_err", call)
SessionPair == Pairs("session_cb", "session_err", NULL)

(* libgaldr_session_create_with or _get_by_id, and what is to follow.      *)
SessionChain(call, next) == AddRetry(call) \o SessionPair \o next
CreateChain(call) ==
  SessionChain(<<"create", call[2]>>, Pairs("do_send_im", NULL, call))
DispatchChain(s, m) ==
  SessionChain(<<"get", s>>, Pairs("dispatch_message", NULL, <<"got", s, m>>))
SendChain(call) ==
  Pairs(NULL, "messaging_err", <<"contact", call[2], call[3]>>)
  \o AddRetry(call)
(* Mutant: the call is not repeated.                                       *)
RefreshOnly(call) == Pairs("refresh_workspace_cb", NULL, NULL)

RefreshChain(call) ==
  Pairs("refresh_workspace_cb", NULL, NULL) \o Pairs("retry_cb", NULL, call)
ContactsChain ==
  Pairs("get_contacts_cb", "get_contacts_err", NULL)
  \o Pairs("contacts_cb", "contacts_err", NULL)

SendCalls == {call \in Calls : call[1] = "send"}

MessagingChains ==
  {<<>>, ContactsChain}
  \cup {CreateChain(call) : call \in SendCalls}
  \cup {CreateChain(call) \o SendChain(call) : call \in SendCalls}
  \cup {SendChain(call) : call \in SendCalls}
  \cup {DispatchChain(s, m) : s \in SessionIds, m \in 1..MaxMessages}
  \cup {RefreshChain(call) : call \in Calls}

(* The handlers, which NULL is none of.                                    *)
Names == {"default_cb", "default_err", "session_cb", "session_err",
          "do_send_im", "messaging_err", "retry_cb", "refresh_workspace_cb",
          "dispatch_message", "get_contacts_cb", "get_contacts_err",
          "contacts_cb", "contacts_err"}

ASSUME BoundsAssumption ==
  /\ MaxMessages \in Nat /\ MaxFaults \in Nat /\ MaxLists \in Nat \ {0}
  /\ NULL \notin Names
  /\ IsFiniteSet(Users)

ASSUME MessagingAssumption ==
  /\ Members \in [SessionIds -> SUBSET (Users \cup Strangers)]
  /\ \A u \in Users : \E s \in SessionIds : Members[s] = {u}
  /\ OtherFaults \in BOOLEAN
  /\ {"1003", "other", "text"} \subseteq Faults
  /\ MessagingChains \subseteq Chains

VARIABLES
  list,        \* ga->contacts holds the objects of this contact list
  session_id,  \* session_id of every contact object
  sessions,    \* ga->sessions: users and last_message_id of those known
  request,     \* what has been sent for the requests in flight
  sent,        \* the messages the user has sent
  accepted,    \* by the server: the session each one was delivered to
  delivered,   \* the server's messages, in its order: the session of each
  shown,       \* the messages shown to the user, in that order
  conversation,\* the "session-id" of the contact's conversation
  marked,      \* the message up to which the server was told it was read
  stale,       \* the client's tokens that the server has let expire
  faults       \* faults so far

ownvars == <<list, session_id, sessions, request, sent, accepted, delivered,
             shown, conversation, marked, stale, faults>>
mvars == <<dvars, ownvars>>

(* A request as the server sees it.                                        *)
Requests ==
  {<<"create", u>> : u \in Users} \cup {<<"get", s>> : s \in SessionIds}
  \cup {<<"message", s, im>> : s \in SessionIds, im \in Ims}
  \cup {<<"read", s, m>> : s \in SessionIds, m \in 1..MaxMessages}
  \cup {<<"refresh">>, <<"contacts">>}

MTypeOK ==
  /\ list \in 1..MaxLists
  /\ session_id \in [Contacts -> SessionIds \cup {NULL}]
  /\ \A s \in DOMAIN sessions :
       /\ s \in SessionIds
       /\ sessions[s].users \subseteq Contacts
       /\ sessions[s].last \in 0..MaxMessages
  /\ \A d \in pending : request[d] \in Requests
  /\ sent \subseteq Ims
  /\ \A i \in DOMAIN accepted : accepted[i] \in Ims \X SessionIds
  /\ delivered \in Seq(SessionIds)
  /\ shown \in Seq(DOMAIN delivered)
  /\ conversation \in [Users -> SessionIds \cup {NULL}]
  /\ marked \in [SessionIds -> 0..MaxMessages]
  /\ stale \subseteq SessionIds \cup {"workspace", "refresh"}
  /\ faults \in 0..MaxFaults

(* After the first contact list.                                           *)
MInit ==
  /\ DInit
  /\ list = 1
  /\ session_id = [c \in Contacts |-> NULL]
  /\ sessions = <<>>
  /\ request = [d \in Deferreds |-> <<>>]
  /\ sent = {} /\ accepted = <<>> /\ delivered = <<>> /\ shown = <<>>
  /\ conversation = [u \in Users |-> NULL]
  /\ marked = [s \in SessionIds |-> 0]
  /\ stale = {} /\ faults = 0

-----------------------------------------------------------------------------
Known(s) == s \in DOMAIN sessions

(* The objects that the contacts table holds for the users of a session.   *)
KnownUsers(s) == (Members[s] \cap Users) \X {list}

(* The session of contact c: none, or one that is no longer in the table.  *)
HasSession(c) == session_id[c] # NULL /\ Known(session_id[c])

(* g_hash_table_insert into ga->sessions.                                  *)
(* Mutant: last_message_id is not initialised.                             *)
InsertGarbage(s) ==
  sessions' = [t \in DOMAIN sessions \cup {s} |->
                 IF t = s
                 THEN [users |-> KnownUsers(s), last |-> MaxMessages + 1]
                 ELSE sessions[t]]

Insert(s) ==
  sessions' = [t \in DOMAIN sessions \cup {s} |->
                 IF t = s THEN [users |-> KnownUsers(s), last |-> 0]
                 ELSE sessions[t]]

(* The functions with an underscore, which send one request: its callback  *)
(* queue and its content.  _libgaldr_send_im_to makes a session first when *)
(* there is none.                                                          *)
Contact(call) == <<call[2], call[3]>>
NeedsSession(call) == call[1] = "send" /\ ~HasSession(Contact(call))

ChainOf(call) == IF NeedsSession(call) THEN CreateChain(call) ELSE <<>>
RequestOf(call) ==
  CASE NeedsSession(call) -> <<"create", call[2]>>
    [] call[1] = "send" /\ ~NeedsSession(call)
         -> <<"message", session_id[Contact(call)], call[4]>>
    [] OTHER -> call

Sends(d, content) ==
  request' = [e \in Deferreds |-> IF e = d THEN content
                                  ELSE IF e \in pending' THEN request[e]
                                  ELSE <<>>]

(* A handler returns the deferred of a request.                            *)
ChainRequest(chain, content) ==
  \E d \in Fresh : Chain(d, chain, TRUE) /\ Sends(d, content)

BuildRequest(chain, content) ==
  /\ Cardinality(pending) < MaxInFlight
  /\ \E d \in Fresh : Build(d, chain, TRUE) /\ Sends(d, content)

(* libhelplightning_incoming_message_cb: only sessions with one contact    *)
(* are shown.                                                              *)
Incoming(s, m, session) ==
  IF Cardinality(session.users) = 1
  THEN /\ shown' = Append(shown, m)
       /\ conversation' = [u \in Users |->
            IF u \in {c[1] : c \in session.users} THEN s ELSE conversation[u]]
  ELSE UNCHANGED <<shown, conversation>>

(* The message becomes the last of its session and is signalled.           *)
Received(s, m) ==
  /\ sessions' = [sessions EXCEPT ![s].last = m]
  /\ Incoming(s, m, sessions[s])

-----------------------------------------------------------------------------
(* libhelplightning_send_im and libgaldr_send_im_to.                       *)
SendIm(u, im) ==
  /\ Idle
  /\ im \in Ims \ sent
  /\ sent' = sent \cup {im}
  /\ LET call == <<"send", u, list, im>> IN
       BuildRequest(ChainOf(call) \o SendChain(call), RequestOf(call))
  /\ UNCHANGED <<list, session_id, sessions, accepted, delivered, shown,
                 conversation, marked, stale, faults>>

(* The user reads a conversation: libgaldr_session_mark_as_read.  Without  *)
(* a last message it returns a deferred that is in no table.               *)
(* Bound: one such deferred, and no repeated requests.                     *)
(* Mutant: the server is told of the last message it has delivered.        *)
MarkDelivered(u) ==
  /\ Idle
  /\ conversation[u] # NULL
  /\ Known(conversation[u])
  /\ LET s == conversation[u] IN
       /\ marked[s] # Len(delivered)
       /\ marked' = [marked EXCEPT ![s] = Len(delivered)]
       /\ BuildRequest(<<>>, <<"read", s, Len(delivered)>>)
  /\ UNCHANGED <<list, session_id, sessions, sent, accepted, delivered, shown,
                 conversation, stale, faults>>

MarkAsRead(u) ==
  /\ Idle
  /\ conversation[u] # NULL
  /\ Known(conversation[u])
  /\ LET s == conversation[u] IN
       IF sessions[s].last > 0
       THEN /\ marked[s] # sessions[s].last
            /\ marked' = [marked EXCEPT ![s] = sessions[s].last]
            /\ BuildRequest(<<>>, <<"read", s, sessions[s].last>>)
       ELSE /\ built \subseteq pending \cup is_firing
            /\ \E d \in Fresh : Build(d, <<>>, FALSE)
            /\ UNCHANGED <<request, marked>>
  /\ UNCHANGED <<list, session_id, sessions, sent, accepted, delivered, shown,
                 conversation, stale, faults>>

(* session_message_received: a session that is not known is fetched.       *)
MessageReceived(s) ==
  /\ Idle
  /\ Len(delivered) < MaxMessages
  /\ delivered' = Append(delivered, s)
  /\ LET m == Len(delivered) + 1 IN
       IF Known(s)
       THEN Received(s, m) /\ UNCHANGED <<dvars, request>>
       ELSE /\ BuildRequest(DispatchChain(s, m), <<"get", s>>)
            /\ UNCHANGED <<sessions, shown, conversation>>
  /\ UNCHANGED <<list, session_id, sent, accepted, marked, stale, faults>>

(* session_created: sessions with one contact are kept.                    *)
SessionCreated(s) ==
  /\ Idle
  /\ ~Known(s)
  /\ Cardinality(KnownUsers(s)) = 1
  /\ Insert(s)
  /\ session_id' = [c \in Contacts |->
       IF c \in KnownUsers(s) THEN s ELSE session_id[c]]
  /\ stale' = stale \ {s}
  /\ UNCHANGED <<dvars, list, request, sent, accepted, delivered, shown,
                 conversation, marked, faults>>

(* enterprise_contact_refresh: libhelplightning_refresh_contacts_cb.       *)
(* Bound: one contact list in flight.                                      *)
RefreshContacts ==
  /\ Idle
  /\ list < MaxLists
  /\ \A d \in pending : request[d] # <<"contacts">>
  /\ BuildRequest(ContactsChain, <<"contacts">>)
  /\ UNCHANGED <<list, session_id, sessions, sent, accepted, delivered, shown,
                 conversation, marked, stale, faults>>

(* The server accepts a message that it is sent.                           *)
Accept(d) ==
  IF request[d][1] = "message"
  THEN accepted' = Append(accepted, <<request[d][3], request[d][2]>>)
  ELSE UNCHANGED accepted

(* The token that a request carries.                                       *)
Token(content) ==
  CASE content[1] \in {"message", "read"} -> content[2]
    [] content[1] \in {"create", "get", "contacts"} -> "workspace"
    [] content[1] = "refresh" -> "refresh"

Reply(d) ==
  /\ Fire(d, "cb", RESPONSE)
  /\ Token(request[d]) \notin stale
  /\ Accept(d)
  /\ UNCHANGED <<list, session_id, sessions, request, sent, delivered, shown,
                 conversation, marked, stale, faults>>

(* The server finds that the token has expired.                            *)
ExpiredReply(d) ==
  /\ Fire(d, "err", "1003")
  /\ IF Token(request[d]) \in stale
     THEN UNCHANGED <<stale, faults>>
     ELSE /\ faults < MaxFaults
          /\ faults' = faults + 1
          /\ stale' = stale \cup {Token(request[d])}
  /\ UNCHANGED <<list, session_id, sessions, request, sent, accepted,
                 delivered, shown, conversation, marked>>

(* Another fault, or a timeout: the server may have accepted what it did   *)
(* not answer in time.                                                     *)
OtherFault(d) ==
  /\ OtherFaults
  /\ faults < MaxFaults
  /\ faults' = faults + 1
  /\ Fire(d, "err", "other")
  /\ Accept(d) \/ UNCHANGED accepted
  /\ UNCHANGED <<list, session_id, sessions, request, sent, delivered, shown,
                 conversation, marked, stale>>

-----------------------------------------------------------------------------
(* The handlers that only pass on what they are given.                     *)
PassOn ==
  /\ \/ Calling("default_cb") /\ Respond
     \/ Calling("contacts_cb") /\ Respond
     \/ Calling("contacts_err") /\ Respond
     \/ Calling("session_err") /\ Fault(Top.val)
     \/ Calling("get_contacts_err") /\ Fault(Top.val)
  /\ UNCHANGED ownvars

(* The handlers that do not get the shape of response they expect.         *)
Invalid ==
  /\ Calling("session_cb") \/ Calling("refresh_workspace_cb")
       \/ Calling("get_contacts_cb")
  /\ faults < MaxFaults
  /\ faults' = faults + 1
  /\ OtherFaults
  /\ Fault("text")
  /\ UNCHANGED <<list, session_id, sessions, request, sent, accepted,
                 delivered, shown, conversation, marked, stale>>

(* libgaldr_default_err: refresh the workspace and repeat the call, or go  *)
(* on with the text of the fault.                                          *)
DefaultErr ==
  /\ Calling("default_err")
  /\ \E expired \in ReadsAs1003(Top.val) :
       IF expired
       THEN ChainRequest(RefreshChain(Head(Current).user_data), <<"refresh">>)
       ELSE Fault("text") /\ UNCHANGED request
  /\ UNCHANGED <<list, session_id, sessions, sent, accepted, delivered, shown,
                 conversation, marked, stale, faults>>

(* libgaldr_refresh_workspace_cb stores the new tokens.                    *)
RefreshWorkspaceCb ==
  /\ Calling("refresh_workspace_cb")
  /\ stale' = stale \ {"workspace"}
  /\ Respond
  /\ UNCHANGED <<list, session_id, sessions, request, sent, accepted,
                 delivered, shown, conversation, marked, faults>>

(* libgaldr_retry_cb and libgaldr_do_send_im: they make the call and       *)
(* return its deferred.                                                    *)
MakeCall ==
  /\ Calling("retry_cb") \/ Calling("do_send_im")
  /\ LET call == Head(Current).user_data IN
       ChainRequest(ChainOf(call), RequestOf(call))
  /\ UNCHANGED <<list, session_id, sessions, sent, accepted, delivered, shown,
                 conversation, marked, stale, faults>>

(* The session in the response that this event has brought.                *)
SessionInResponse ==
  IF request[Base][1] = "create"
  THEN CHOOSE s \in SessionIds : Members[s] = {request[Base][2]}
  ELSE request[Base][2]

(* libgaldr_session_create_with_cb: the contact of a session of two gets   *)
(* its id, the session is inserted if it is not known, and its token is    *)
(* the new one.                                                            *)
(* Mutant: only a session of two is inserted.                              *)
InsertsDirect ==
  /\ Calling("session_cb")
  /\ LET s == SessionInResponse IN
       /\ session_id' = [c \in Contacts |->
            IF c \in KnownUsers(s) /\ Cardinality(Members[s]) <= 1
            THEN s ELSE session_id[c]]
       /\ IF Known(s) \/ Cardinality(Members[s]) > 1
          THEN UNCHANGED sessions ELSE Insert(s)
       /\ stale' = stale \ {s}
  /\ Respond
  /\ UNCHANGED <<list, request, sent, accepted, delivered, shown,
                 conversation, marked, faults>>

SessionCb ==
  /\ Calling("session_cb")
  /\ LET s == SessionInResponse IN
       /\ session_id' = [c \in Contacts |->
            IF c \in KnownUsers(s) /\ Cardinality(Members[s]) <= 1
            THEN s ELSE session_id[c]]
       /\ IF Known(s) THEN UNCHANGED sessions ELSE Insert(s)
       /\ stale' = stale \ {s}
  /\ Respond
  /\ UNCHANGED <<list, request, sent, accepted, delivered, shown,
                 conversation, marked, faults>>

(* libballyhoo_handler_dispatch_message.                                   *)
DispatchMessage ==
  /\ Calling("dispatch_message")
  /\ Received(Head(Current).user_data[2], Head(Current).user_data[3])
  /\ Respond
  /\ UNCHANGED <<list, session_id, request, sent, accepted, delivered, marked,
                 stale, faults>>

(* _libgaldr_messaging_err: the session of an expired token is removed;    *)
(* the contact keeps its session_id.                                       *)
(* Mutant: the session is kept.                                            *)
KeepsSession ==
  /\ Calling("messaging_err")
  /\ Fault(Top.val)
  /\ UNCHANGED ownvars

MessagingErr ==
  /\ Calling("messaging_err")
  /\ \E expired \in ReadsAs1003(Top.val) :
       sessions' =
         IF expired
         THEN [s \in DOMAIN sessions
                     \ {session_id[Contact(Head(Current).user_data)]} |->
                 sessions[s]]
         ELSE sessions
  /\ Fault(Top.val)
  /\ UNCHANGED <<list, session_id, request, sent, accepted, delivered, shown,
                 conversation, marked, stale, faults>>

(* libgaldr_get_contacts_cb: new objects, without sessions.                *)
GetContactsCb ==
  /\ Calling("get_contacts_cb")
  /\ list' = list + 1
  /\ Respond
  /\ UNCHANGED <<session_id, sessions, request, sent, accepted, delivered,
                 shown, conversation, marked, stale, faults>>

-----------------------------------------------------------------------------
Handlers ==
  \/ PassOn \/ Invalid \/ DefaultErr \/ RefreshWorkspaceCb \/ MakeCall
  \/ SessionCb \/ DispatchMessage \/ MessagingErr \/ GetContactsCb

(* The content of a request that is over is forgotten.                     *)
RunEngine ==
  /\ Engine
  /\ request' = [d \in Deferreds |->
                   IF d \in pending' THEN request[d] ELSE <<>>]
  /\ UNCHANGED <<list, session_id, sessions, sent, accepted, delivered, shown,
                 conversation, marked, stale, faults>>

Events ==
  \/ \E u \in Users, im \in Ims : SendIm(u, im)
  \/ \E u \in Users : MarkAsRead(u)
  \/ \E s \in SessionIds : MessageReceived(s) \/ SessionCreated(s)
  \/ RefreshContacts

Answers ==
  \E d \in Deferreds : Reply(d) \/ ExpiredReply(d) \/ OtherFault(d)

MNext ==
  \/ Events
  \/ Answers
  \/ Handlers
  \/ RunEngine

MSpec == MInit /\ [][MNext]_mvars

(* Code that has begun goes on, and while requests are in flight the       *)
(* server answers (or libballyhoo_update times out) one of them.           *)
MFairSpec ==
  /\ MSpec
  /\ WF_mvars(Handlers \/ RunEngine)
  /\ WF_mvars(Answers)

-----------------------------------------------------------------------------
(* The server accepts a message of the user at most once, however often    *)
(* the call is repeated after a fault: a timeout must not repeat it.       *)
AcceptedOnce ==
  \A i, j \in DOMAIN accepted : accepted[i][1] = accepted[j][1] => i = j

(* libballyhoo_handler_dispatch_message looks up the session it waited for *)
(* and uses it without a test: it is in the table, whatever removed        *)
(* sessions or repeated calls in between.                                  *)
DispatchFindsSession ==
  Calling("dispatch_message") => Known(Head(Current).user_data[2])

(* A handler that parses a response is given the response to its own call: *)
(* the chains of refreshed and repeated calls bring back the right one.    *)
HandlersReadTheirResponse ==
  /\ Calling("session_cb") =>
       request[Base] = LET next == Current[2] IN
                         IF next.cb = "do_send_im"
                         THEN <<"create", next.user_data[2]>>
                         ELSE <<"get", next.user_data[2]>>
  /\ Calling("refresh_workspace_cb") => request[Base] = <<"refresh">>
  /\ Calling("get_contacts_cb") => request[Base] = <<"contacts">>

(* No message of the server is shown twice, and the server is told that a  *)
(* message was read only after it was shown.                               *)
ShownOnceBeforeRead ==
  /\ \A i, j \in DOMAIN shown : shown[i] = shown[j] => i = j
  /\ \A s \in SessionIds : marked[s] > 0 =>
       \E i \in DOMAIN shown : shown[i] = marked[s]

(* A message the user has sent reaches the session of its contact.         *)
ImsAccepted ==
  \A im \in Ims :
    (im \in sent) ~> (\E i \in DOMAIN accepted : accepted[i][1] = im)

(* A message the server has delivered to a session of two is shown.        *)
MessagesShown ==
  \A m \in 1..MaxMessages :
    (m \in DOMAIN delivered /\ \E u \in Users : Members[delivered[m]] = {u})
      ~> (\E i \in DOMAIN shown : shown[i] = m)

(* "make session first!!": when the session has been made, the message     *)
(* that waited for it finds it.                                            *)
SessionMadeFirst ==
  Calling("do_send_im") => HasSession(Contact(Head(Current).user_data))

(* "set the most recent message id": the last message of a session is the  *)
(* most recent one that was shown.                                         *)
MostRecentIsLast ==
  \A i \in DOMAIN shown :
    LET s == delivered[shown[i]] IN
      Known(s) /\ sessions[s].last > 0 => shown[i] <= sessions[s].last

(* "Multi-user/Group Help Lightning chats do not currently show up."       *)
GroupsDoNotShow ==
  \A i \in DOMAIN shown : Cardinality(Members[delivered[shown[i]]]) = 1
=============================================================================
