----------------------------- MODULE Connection -----------------------------
(***************************************************************************)
(* The life of one account's connection: the SSL socket, the log-in chain, *)
(* the keep-alive timer with its ping and its sweep of expired requests,   *)
(* the errors that make libpurple disconnect, and the shutdown that frees  *)
(* the account.                                                            *)
(*                                                                         *)
(* It runs on the engine of Deferred: every request is a deferred of that  *)
(* module, with the callback queue the code gives it, and every handler    *)
(* is an action that ends in Respond, Fault or Chain.  Between two events  *)
(* of the main loop (Quiet) the actors are the server, the network, the    *)
(* clock, libpurple's timers and the user.                                 *)
(*                                                                         *)
(* Time is counted in units of which a keep-alive period has Period.       *)
(* Contacts stand for every request made once the account is connected.    *)
(***************************************************************************)
EXTENDS Deferred, Integers, FiniteSets

CONSTANTS
  Period,          \* libpurple's keep-alive timer, 30 seconds
  DefaultTimeout,  \* DEFAULT_TIMEOUT, 90 seconds
  PingTimeout,     \* 5 seconds
  MaxBuilt         \* bound: contacts are asked for below this many deferreds

FAULT == "fault"

UserCallback(cb, err) == [cb |-> cb, err |-> err, user_data |-> NULL]

(* libgaldr_auth and what libgaldr_connected_cb adds to it.                *)
AuthChain == <<UserCallback("auth_cb", "auth_err"),
               UserCallback("do_auth_cb", "do_auth_err")>>
WorkspacesChain == <<UserCallback("workspaces_cb", "workspaces_err")>>
SwitchChain == <<UserCallback("switch_cb", "switch_err")>>
(* libgaldr_get_contacts and what libhelplightning adds to it.             *)
ContactsChain == <<UserCallback("get_contacts_cb", "get_contacts_err"),
                   UserCallback("contacts_cb", "contacts_err")>>
PingChain == <<UserCallback(NULL, "ping_err")>>

ConnectionChains ==
  {AuthChain, WorkspacesChain, SwitchChain, ContactsChain, PingChain}

ASSUME TimingAssumption ==
  /\ Period \in Nat /\ DefaultTimeout \in Nat /\ PingTimeout \in Nat
  /\ PingTimeout < Period
  /\ MaxBuilt \in Nat

ASSUME ChainsAssumption ==
  /\ ConnectionChains \subseteq Chains
  /\ FAULT \in Faults

(* The names that values have in this module.                              *)
Names == {"auth_cb", "auth_err", "do_auth_cb", "do_auth_err",
          "workspaces_cb", "workspaces_err", "switch_cb", "switch_err",
          "get_contacts_cb", "get_contacts_err", "contacts_cb",
          "contacts_err", "ping_err", "dialing", "reading",
          "banner", "protocol", "verdict", "headers"}

ASSUME NullAssumption == NULL \notin Names

VARIABLES
  socket,    \* ba->gsc: NULL, or which callback of ours it holds
  gc_state,  \* state of the PurpleConnection
  error,     \* an error was reported: libpurple will disconnect
  token,     \* ga->workspace_token is set
  ttl,       \* dfr->expiration - now, not counted below -1
  alarm,     \* time left to the next keep-alive
  sweep,     \* keys_to_remove of a libballyhoo_update under way
  server,    \* the server is alive
  freed,     \* ga and ba have been freed
  uaf,       \* freed memory of the account has been used
  helo       \* the part of the HELO that is being read, or NULL

ownvars == <<socket, gc_state, error, token, ttl, alarm, sweep, server, freed,
             uaf, helo>>
cvars == <<dvars, ownvars>>

CTypeOK ==
  /\ socket \in {NULL, "dialing", "reading"}
  /\ gc_state \in {"connecting", "connected", "disconnected"}
  /\ error \in BOOLEAN /\ token \in BOOLEAN /\ server \in BOOLEAN
  /\ freed \in BOOLEAN /\ uaf \in BOOLEAN
  /\ ttl \in [Deferreds -> -1..(DefaultTimeout + PingTimeout)]
  /\ alarm \in 0..Period
  /\ sweep \subseteq Deferreds
  /\ helo \in {NULL, "banner", "protocol", "verdict", "headers"}

(* libhelplightning_login: libgaldr_init, then purple_ssl_connect.         *)
CInit ==
  /\ DInit
  /\ socket = "dialing"
  /\ gc_state = "connecting"
  /\ error = FALSE /\ token = FALSE /\ freed = FALSE /\ uaf = FALSE
  /\ ttl = [d \in Deferreds |-> 0]
  /\ alarm = 0
  /\ sweep = {}
  /\ server = TRUE
  /\ helo = NULL

-----------------------------------------------------------------------------
(* Between two events of the main loop ...                                 *)
MainLoop == Idle /\ sweep = {} /\ helo = NULL

(* ... with the account allocated.                                         *)
Quiet == MainLoop /\ ~freed

(* What the server sends in a HELO, in this order.                         *)
NextPart == [banner |-> "protocol", protocol |-> "verdict",
             verdict |-> "headers"]

(* libballyhoo_deferred_build for d.                                       *)
(* Mutant: the time that its address had left counts (no g_new0).          *)
AddsUp(d, timeout) == ttl' = [ttl EXCEPT ![d] = @ + timeout]

ExpiresIn(d, timeout) == ttl' = [ttl EXCEPT ![d] = timeout]

(* The socket is lost and this is reported.                                *)
(* Mutant: it is closed without a report.                                  *)
LostSilently == socket' = NULL /\ UNCHANGED error

Lost == socket' = NULL /\ error' = TRUE

(* libballyhoo_send_chunks: a write that fails, as every write does when   *)
(* gsc is NULL, closes the socket.                                         *)
SendChunks(ok) ==
  IF ok THEN socket = "reading" /\ UNCHANGED <<socket, error>> ELSE Lost

(* A request that a handler or an event makes, other than by Chain.        *)
Request(d, chain, timeout, ok) ==
  /\ Build(d, chain, TRUE)
  /\ ExpiresIn(d, timeout)
  /\ SendChunks(ok)

(* A request whose deferred a handler returns.                             *)
ChainRequest(d, chain, ok) ==
  /\ Chain(d, chain, TRUE)
  /\ ExpiresIn(d, DefaultTimeout)
  /\ SendChunks(ok)
  /\ UNCHANGED <<gc_state, token, alarm, sweep, server, freed, uaf, helo>>

-----------------------------------------------------------------------------
(* libballyhoo_connect_cb_ssl: libballyhoo_do_helo writes its part, whether *)
(* that succeeds or not, and from here to the end of the HELO every read   *)
(* is repeated while there is no data: the main loop stands still.         *)
StartHelo ==
  /\ Quiet
  /\ socket = "dialing"
  /\ server
  /\ helo' = "banner"
  /\ UNCHANGED <<dvars, socket, gc_state, error, token, ttl, alarm, sweep,
                 server, freed, uaf>>

(* read_until_null has read the banner, the protocol or the verdict.  The  *)
(* protocol is read for its length only, and may be missing.               *)
HeloProceeds ==
  /\ helo \in DOMAIN NextPart
  /\ helo' = NextPart[helo]
  /\ UNCHANGED <<dvars, socket, gc_state, error, token, ttl, alarm, sweep,
                 server, freed, uaf>>

(* The banner or the verdict is another one, or the read has failed.       *)
(* Mutant: the HELO is offered again.                                      *)
HeloAgain ==
  /\ helo \in {"banner", "verdict"}
  /\ helo' = "banner"
  /\ UNCHANGED <<dvars, socket, gc_state, error, token, ttl, alarm, sweep,
                 server, freed, uaf>>

HeloRefused ==
  /\ helo \in {"banner", "verdict"}
  /\ helo' = NULL
  /\ Lost
  /\ UNCHANGED <<dvars, gc_state, token, ttl, alarm, sweep, server, freed,
                 uaf>>

(* The headers have been read or not: input is watched all the same, and   *)
(* LIBBALLYHOO_SIGNAL_CONNECTED makes libgaldr_connected_cb authenticate.  *)
HeloEnded ==
  /\ helo = "headers"
  /\ helo' = NULL
  /\ \E d \in Fresh, ok \in BOOLEAN :
       /\ Build(d, AuthChain, TRUE)
       /\ ExpiresIn(d, DefaultTimeout)
       /\ IF ok THEN socket' = "reading" /\ UNCHANGED error ELSE Lost
  /\ UNCHANGED <<gc_state, token, alarm, sweep, server, freed, uaf>>

HeloReads == HeloProceeds \/ HeloRefused \/ HeloEnded

(* libballyhoo_connect_cb_ssl_failure.                                     *)
ConnectFails ==
  /\ Quiet
  /\ socket = "dialing"
  /\ Lost
  /\ UNCHANGED <<dvars, gc_state, token, ttl, alarm, sweep, server, freed, uaf,
                 helo>>

(* libballyhoo_handle_input_cb dispatches a reply or a fault.              *)
(* Mutant: an errback of the sweep lets the main loop run.                 *)
ReplyDuringSweep ==
  /\ Idle /\ ~freed
  /\ socket = "reading"
  /\ server
  /\ \E d \in Deferreds : Fire(d, "cb", RESPONSE) \/ Fire(d, "err", FAULT)
  /\ UNCHANGED ownvars

Reply ==
  /\ Quiet
  /\ socket = "reading"
  /\ server
  /\ \E d \in Deferreds : Fire(d, "cb", RESPONSE) \/ Fire(d, "err", FAULT)
  /\ UNCHANGED ownvars

(* libballyhoo_handle_input_cb finds no room or a socket that is closed or *)
(* fails.  In the first case gsc stays.                                    *)
InputFails ==
  /\ Quiet
  /\ socket = "reading"
  /\ error' = TRUE
  /\ socket' \in {NULL, socket}
  /\ UNCHANGED <<dvars, gc_state, token, ttl, alarm, sweep, server, freed, uaf,
                 helo>>

(* The server calls enterprise_contact_refresh.  libgaldr_get_contacts     *)
(* sends nothing without a workspace token, and returns a deferred that is *)
(* in no table.  The reply to the call is sent after it.                   *)
RefreshContacts ==
  /\ Quiet
  /\ socket = "reading"
  /\ server
  /\ Cardinality(built) < MaxBuilt
  /\ \E d \in Fresh, ok \in BOOLEAN :
       /\ Build(d, ContactsChain, token)
       /\ ExpiresIn(d, IF token THEN DefaultTimeout ELSE 0)
       /\ SendChunks(ok)
  /\ UNCHANGED <<gc_state, token, alarm, sweep, server, freed, uaf, helo>>

-----------------------------------------------------------------------------
(* The log-in chain.  Each handler checks the shape of the response and    *)
(* returns a fault when it is not what it expects.                         *)
Invalid ==
  /\ Calling("auth_cb") \/ Calling("workspaces_cb") \/ Calling("switch_cb")
       \/ Calling("get_contacts_cb")
  /\ Fault(FAULT)
  /\ UNCHANGED ownvars

(* The errbacks that only propagate the fault.                             *)
(* Mutant: they return a response.                                         *)
Swallow ==
  /\ Calling("auth_err") \/ Calling("workspaces_err")
       \/ Calling("switch_err") \/ Calling("get_contacts_err")
  /\ Respond
  /\ UNCHANGED ownvars

Propagate ==
  /\ Calling("auth_err") \/ Calling("workspaces_err")
       \/ Calling("switch_err") \/ Calling("get_contacts_err")
  /\ Fault(Top.val)
  /\ UNCHANGED ownvars

(* libgaldr_auth_cb registers the connection and asks for the workspaces.  *)
AuthCb ==
  /\ Calling("auth_cb")
  /\ \E d \in Fresh, ok \in BOOLEAN : ChainRequest(d, WorkspacesChain, ok)

(* libgaldr_get_workspaces_cb switches to one of them.                     *)
WorkspacesCb ==
  /\ Calling("workspaces_cb")
  /\ \E d \in Fresh, ok \in BOOLEAN : ChainRequest(d, SwitchChain, ok)

(* libgaldr_workspace_switch_cb stores the tokens of the workspace.        *)
SwitchCb ==
  /\ Calling("switch_cb")
  /\ token' = TRUE
  /\ Respond
  /\ UNCHANGED <<socket, gc_state, error, ttl, alarm, sweep, server, freed,
                 uaf, helo>>

(* libgaldr_do_auth_cb: the account is connected, the keep-alive timer     *)
(* starts, HELPLIGHTNING_SIGNAL_CONNECTED asks for the contacts ...        *)
Connected ==
  /\ Calling("do_auth_cb")
  /\ gc_state = "connecting"
  /\ gc_state' = "connected"
  /\ alarm' = Period
  /\ \E d \in Fresh, ok \in BOOLEAN :
       Request(d, ContactsChain, DefaultTimeout, ok)
  /\ UNCHANGED <<token, sweep, server, freed, uaf, helo>>

(* ... and the handler returns.                                            *)
DoAuthCb ==
  /\ Calling("do_auth_cb")
  /\ gc_state = "connected"
  /\ Respond
  /\ UNCHANGED ownvars

(* libgaldr_do_auth_err reports the error, shuts the account down ...      *)
AuthFailed ==
  /\ Calling("do_auth_err")
  /\ ~freed
  /\ error' = TRUE
  /\ freed' = TRUE
  /\ DropPending
  /\ UNCHANGED <<socket, gc_state, token, ttl, alarm, sweep, server, uaf,
                 helo>>

(* ... and returns.                                                        *)
DoAuthErr ==
  /\ Calling("do_auth_err")
  /\ freed
  /\ Respond
  /\ UNCHANGED ownvars

(* libgaldr_get_contacts_cb, and the handlers of libhelplightning.         *)
Handled ==
  /\ Calling("get_contacts_cb") \/ Calling("contacts_cb")
       \/ Calling("contacts_err")
  /\ Respond
  /\ UNCHANGED ownvars

(* libgaldr_conn_ping_err.                                                 *)
(* Mutant: only logs the timeout.                                          *)
PingErrLogs == Calling("ping_err") /\ Respond /\ UNCHANGED ownvars

PingErr ==
  /\ Calling("ping_err")
  /\ Lost
  /\ Respond
  /\ UNCHANGED <<gc_state, token, ttl, alarm, sweep, server, freed, uaf, helo>>

(* The loops of the engine.  The event that fired the outermost deferred   *)
(* ends with a look at ba->pending_callbacks.                              *)
RunEngine ==
  /\ Engine
  /\ uaf' = (uaf \/ (freed /\ stack' = <<>>))
  /\ UNCHANGED <<socket, gc_state, error, token, ttl, alarm, sweep, server,
                 freed, helo>>

-----------------------------------------------------------------------------
(* The keys that libballyhoo_update collects.                              *)
(* Mutant: the test of is_firing is turned round.                          *)
CollectFiring == {d \in pending : ttl[d] < 0 /\ d \in is_firing}

(* Mutant: the sweep is for the pings.                                     *)
CollectPings ==
  {d \in pending : ttl[d] < 0 /\ d \notin is_firing
                     /\ callbacks[d] = PingChain}

Expired == {d \in pending : ttl[d] < 0 /\ d \notin is_firing}

(* libhelplightning_keep_alive: a ping, then libballyhoo_update collects   *)
(* the expired requests.                                                   *)
KeepAlive ==
  /\ Quiet
  /\ gc_state = "connected"
  /\ alarm = 0
  /\ alarm' = Period
  /\ \E d \in Fresh, ok \in BOOLEAN : Request(d, PingChain, PingTimeout, ok)
  /\ sweep' = Expired
  /\ UNCHANGED <<gc_state, token, server, freed, uaf, helo>>

(* The rest of libballyhoo_update: each of them that is still in the table *)
(* is given a fault.                                                       *)
(* Mutant: the request is removed before its deferred is looked up.        *)
RemoveFirst ==
  /\ Idle
  /\ \E d \in sweep : pending' = pending \ {d} /\ sweep' = sweep \ {d}
  /\ UNCHANGED <<built, callbacks, is_firing, fired, stack, crashed, socket,
                 gc_state, error, token, ttl, alarm, server, freed, uaf, helo>>

Timeout ==
  /\ Idle
  /\ \E d \in sweep :
       /\ IF d \in pending THEN Fire(d, "err", FAULT) ELSE UNCHANGED dvars
       /\ sweep' = sweep \ {d}
  /\ UNCHANGED <<socket, gc_state, error, token, ttl, alarm, server, freed,
                 uaf, helo>>

(* Time passes.  The expiration is read of requests in the table only.     *)
Tick ==
  /\ Quiet
  /\ ttl' = [d \in Deferreds |->
               IF d \notin pending THEN 0
               ELSE IF ttl[d] >= 0 THEN ttl[d] - 1 ELSE ttl[d]]
  /\ alarm' = IF alarm > 0 THEN alarm - 1 ELSE 0
  /\ UNCHANGED <<dvars, socket, gc_state, error, token, sweep, server, freed,
                 uaf, helo>>

ServerDies ==
  /\ server
  /\ server' = FALSE
  /\ UNCHANGED <<dvars, socket, gc_state, error, token, ttl, alarm, sweep,
                 freed, uaf, helo>>

(* libhelplightning_close: libgaldr_shutdown frees the account, with or    *)
(* without the socket, once more if libgaldr_do_auth_err did so before.    *)
Close ==
  /\ MainLoop
  /\ gc_state # "disconnected"
  /\ gc_state' = "disconnected"
  /\ alarm' = 0
  /\ freed' = TRUE
  /\ uaf' = freed
  /\ DropPending
  /\ UNCHANGED <<socket, error, token, ttl, sweep, server, helo>>

(* The timer that purple_connection_error_reason starts fires.             *)
Disconnect == error /\ Close

(* The user disconnects.                                                   *)
LogOff == ~error /\ Close

(* The socket's callback is called with the account that has been freed.   *)
StaleCallback ==
  /\ MainLoop
  /\ freed
  /\ socket # NULL
  /\ uaf' = TRUE
  /\ UNCHANGED <<dvars, socket, gc_state, error, token, ttl, alarm, sweep,
                 server, freed, helo>>

-----------------------------------------------------------------------------
Handlers ==
  \/ Invalid \/ Propagate \/ AuthCb \/ WorkspacesCb \/ SwitchCb
  \/ Connected \/ DoAuthCb \/ AuthFailed \/ DoAuthErr
  \/ Handled \/ PingErr

Network ==
  StartHelo \/ HeloReads \/ ConnectFails \/ Reply \/ InputFails
       \/ RefreshContacts \/ ServerDies \/ StaleCallback

(* What follows a use of freed memory is not described.                    *)
CNext ==
  /\ ~uaf
  /\ \/ Network
     \/ Handlers
     \/ RunEngine
     \/ KeepAlive
     \/ Timeout
     \/ Tick
     \/ Disconnect
     \/ LogOff

CSpec == CInit /\ [][CNext]_cvars

(* The main loop runs what is due: code that has begun goes on, and every  *)
(* turn of the loop looks at the timers and at the clock, however many     *)
(* other events keep arriving (strong fairness, because an event that is   *)
(* being handled disables them).  A live server sends its part of a HELO   *)
(* that has begun, or closes; nothing else is assumed of the server, of    *)
(* the network or of the user.                                             *)
CFairSpec ==
  /\ CSpec
  /\ WF_cvars(~uaf /\ (Handlers \/ RunEngine \/ Timeout))
  /\ WF_cvars(~uaf /\ server /\ HeloReads)
  /\ SF_cvars(~uaf /\ KeepAlive)
  /\ SF_cvars(~uaf /\ Tick)
  /\ SF_cvars(~uaf /\ Disconnect)

-----------------------------------------------------------------------------
IsPing(d) == callbacks[d] = PingChain

(* When an event of the main loop is over, no more than one ping is        *)
(* unanswered: the timeout of a ping is shorter than the period, so the    *)
(* keep-alive that sends the next one also sweeps the last.                *)
OnePing ==
  Quiet => \A d, e \in pending : IsPing(d) /\ IsPing(e) => d = e

(* The account is connected only with a workspace token: a fault anywhere  *)
(* in the three chained requests of the log-in, however they are resumed,  *)
(* does not end in libgaldr_do_auth_cb.  All later requests rely on it.    *)
ConnectedHasToken == gc_state = "connected" => token

(* Whenever gsc is NULL an error has been reported, so that libpurple will *)
(* disconnect: five places close it, and none may forget.                  *)
LossIsReported == socket = NULL => error

(* Every key of a sweep is still in the table when its turn comes, with    *)
(* its deferred neither answered nor freed by the errbacks before it.      *)
SweptStillPending == ~freed => sweep \subseteq pending \ is_firing

Overdue == {d \in pending : ttl[d] < 0}

(* A request made on a connected account is answered, timed out or dropped *)
(* with the account: whenever requests are past their time, a moment comes *)
(* when none is, whatever the errbacks of those before them have done.     *)
RequestsEnd ==
  (gc_state = "connected" /\ Overdue # {}) ~> Overdue = {}

(* A server that dies without closing the socket is noticed.               *)
DeadServerNoticed ==
  (gc_state = "connected" /\ ~server) ~> (gc_state = "disconnected")

(* The HELO, which keeps the whole main loop waiting, ends whatever a      *)
(* server that does not fall silent says in it.                            *)
HeloEnds == (helo # NULL) ~> (helo = NULL \/ ~server)

(* "Call shutdown when done": nothing uses the account once it is freed.   *)
ShutdownWhenDone == ~uaf

(* "unix time when this expires": a request in flight past its time does   *)
(* not stay in flight.                                                     *)
ExpiredEnds ==
  \A d \in Deferreds :
    (d \in pending /\ ttl[d] < 0) ~> (d \notin pending \/ ttl[d] >= 0)
=============================================================================
