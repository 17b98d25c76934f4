------------------------- MODULE PeerConnectionClient -------------------------
(***************************************************************************)
(* The signalling client of PjWebrtc (peer_connection_client.cc).  It      *)
(* talks HTTP to a peerconnection server over two sockets: the control     *)
(* socket carries one request at a time (sign_in, message, sign_out), the  *)
(* hanging GET is the long poll on which notifications and the messages of *)
(* other peers arrive.  Everything runs on the UI thread: one action is    *)
(* one call from the application (Connect, SendToPeer, SignOut), one       *)
(* socket event, one resolver event or one delayed message, up to its      *)
(* return to the message loop.                                             *)
(*                                                                         *)
(* What the network and the server may do is chosen with Faults, so that a *)
(* run can say under which environment a property holds:                   *)
(*   "refuse"    a connect is answered with ECONNREFUSED                   *)
(*   "drop"      a control connection fails or is closed before the answer *)
(*               is read                                                   *)
(*   "losepoll"  so does the connection of the hanging GET                 *)
(*   "part"      an answer arrives in more than one read                   *)
(*   "error"     the server answers with a status other than 200           *)
(*   "keepopen"  an answer lacks "Connection: close"                       *)
(*   "fail"      Connect on a closed socket returns SOCKET_ERROR at once   *)
(*   "lookup"    the resolver reports an error                             *)
(* RTC_DCHECKs do not stop the program here; they are stated as properties.*)
(***************************************************************************)
EXTENDS Naturals

CONSTANTS
    Ids,         \* the ids the server may assign to its members
    NoId,        \* my_id_ == -1
    Faults,      \* the misbehaviour of network and server, see above
    MaxRetries   \* bound: delayed "retry" messages pending at once

AllFaults == {"refuse", "drop", "losepoll", "part", "error", "keepopen", "fail",
              "lookup"}

ASSUME NoIdAssumption == NoId \notin Ids
ASSUME FaultsAssumption == Faults \subseteq AllFaults
ASSUME MaxRetriesAssumption == MaxRetries \in Nat

VARIABLES
    state,              \* state_
    my_id,              \* my_id_
    peers,              \* the keys of peers_
    resolver,           \* resolver_: null, or the state of the object
    control,            \* control_socket_: null, or the state of the socket
    hanging,            \* hanging_get_: null, or the state of the socket
    request,            \* onconnect_data_: the request it holds
    asked,              \* the request sent on the control connection
    control_data,       \* control_data_: the answer its first bytes are of
    notification_data,  \* notification_data_: empty or not
    retries,            \* pending delayed messages to this handler
    modal,              \* OnResolveResult waits in its observer's MessageBox
    crashed,            \* a null pointer was dereferenced
    told                \* what the last step told the application

vars == <<state, my_id, peers, resolver, control, hanging, request, asked,
          control_data, notification_data, retries, modal, crashed, told>>

States == {"NOT_CONNECTED", "RESOLVING", "SIGNING_IN", "CONNECTED",
           "SIGNING_OUT_WAITING", "SIGNING_OUT"}
Requests == {"sign_in", "message", "sign_out"}
Sockets == {"null", "closed", "connecting", "connected"}
Callbacks == {"OnSignedIn", "OnDisconnected", "OnPeerConnected",
              "OnPeerDisconnected", "OnMessageFromPeer", "OnMessageSent",
              "OnServerConnectionFailure"}

\* What a step tells the application: calls of the observer, and FALSE returned
\* by SendToPeer or SignOut.
Call(cb, id) == [cb |-> cb, id |-> id]
Failure == Call("OnServerConnectionFailure", NoId)
Disconnected == Call("OnDisconnected", NoId)
MessageSent == Call("OnMessageSent", NoId)
ReturnedFalse == Call("false", NoId)

TypeOK ==
    /\ state \in States
    /\ my_id \in Ids \cup {NoId}
    /\ peers \subseteq Ids
    /\ resolver \in {"null", "running", "done"}
    /\ control \in Sockets
    /\ hanging \in Sockets
    /\ request \in Requests \cup {"none"}
    /\ asked \in Requests \cup {"none"}
    /\ control_data \in Requests \cup {"empty"}
    /\ notification_data \in {"empty", "part"}
    /\ retries \in 0..MaxRetries
    /\ modal \in BOOLEAN
    /\ crashed \in BOOLEAN
    /\ told \subseteq [cb : Callbacks \cup {"false"}, id : Ids \cup {NoId}]

Init ==
    /\ state = "NOT_CONNECTED"
    /\ my_id = NoId
    /\ peers = {}
    /\ resolver = "null"
    /\ control = "null"
    /\ hanging = "null"
    /\ request = "none"
    /\ asked = "none"
    /\ control_data = "empty"
    /\ notification_data = "empty"
    /\ retries = 0
    /\ modal = FALSE
    /\ crashed = FALSE
    /\ told = {}

-----------------------------------------------------------------------------
(* What the handlers are built from.                                       *)

\* Socket state after Connect on a closed socket whose result is ignored.
Dialled == {"connecting"} \cup (IF "fail" \in Faults THEN {"closed"} ELSE {})

\* Mutants of CloseSession: it leaves alone the control socket, the resolver, the id, or
\* the state.
CloseKeepsControl ==
    /\ hanging' = "closed" /\ request' = "none" /\ asked' = asked /\ peers' = {}
    /\ resolver' = "null" /\ my_id' = NoId /\ state' = "NOT_CONNECTED"
    /\ control' = control
CloseKeepsResolver ==
    /\ control' = "closed" /\ hanging' = "closed" /\ request' = "none"
    /\ asked' = "none" /\ peers' = {} /\ my_id' = NoId /\ state' = "NOT_CONNECTED"
    /\ resolver' = resolver
CloseKeepsId ==
    /\ control' = "closed" /\ hanging' = "closed" /\ request' = "none"
    /\ asked' = "none" /\ peers' = {} /\ resolver' = "null" /\ state' = "NOT_CONNECTED"
    /\ my_id' = my_id
CloseKeepsState ==
    /\ control' = "closed" /\ hanging' = "closed" /\ request' = "none"
    /\ asked' = "none" /\ peers' = {} /\ resolver' = "null" /\ my_id' = NoId
    /\ state' = state

\* Close(): everything about the session is forgotten, but not what was read.
CloseSession ==
    /\ control' = "closed"
    /\ hanging' = "closed"
    /\ request' = "none"
    /\ asked' = "none"
    /\ peers' = {}
    /\ resolver' = "null"
    /\ my_id' = NoId
    /\ state' = "NOT_CONNECTED"

\* ConnectControlSocket() for request r: Connect succeeds on a closed socket,
\* and fails on a busy one or when the system refuses.
Dial(ctl, r) ==
    /\ ctl = "closed"
    /\ control' = "connecting"
    /\ request' = r
    /\ asked' = "none"

DialFails(ctl) ==
    /\ ctl # "closed" \/ "fail" \in Faults
    /\ CloseSession

\* Mutant of DoConnect: the hanging GET of the session before is kept.
DoConnectKeepsPoll(res) ==
    /\ \/ /\ Dial("closed", "sign_in")
          /\ state' = "SIGNING_IN"
          /\ resolver' = res
          /\ told' = {}
          /\ UNCHANGED <<my_id, peers, hanging>>
       \/ /\ DialFails("closed")
          /\ told' = {Failure}
    /\ UNCHANGED <<control_data, notification_data, crashed>>

\* DoConnect(): new sockets, the sign_in request, the control socket dialled.
\* The id and the peers of an earlier session are left alone, and so is what
\* has been read.  res is the state of the resolver.
DoConnect(res) ==
    /\ \/ /\ Dial("closed", "sign_in")
          /\ hanging' = "closed"
          /\ state' = "SIGNING_IN"
          /\ resolver' = res
          /\ told' = {}
          /\ UNCHANGED <<my_id, peers>>
       \/ /\ DialFails("closed")
          /\ told' = {Failure}
    /\ UNCHANGED <<control_data, notification_data, crashed>>

\* Mutants of SignOutStarts: the request is sent without an id; the hanging GET
\* is not closed.
SignOutWithoutId(ctl, left) ==
    /\ hanging' = "closed"
    /\ \/ Dial(ctl, "sign_out") /\ state' = "SIGNING_OUT"
       \/ /\ ctl # "closed" /\ state' = "SIGNING_OUT_WAITING"
          /\ control' = ctl /\ asked' = left /\ UNCHANGED request
    /\ UNCHANGED <<my_id, peers, resolver>>
SignOutKeepsPoll(ctl, left) ==
    /\ \/ my_id # NoId /\ Dial(ctl, "sign_out") /\ state' = "SIGNING_OUT"
       \/ /\ ctl # "closed" /\ state' = "SIGNING_OUT_WAITING"
          /\ control' = ctl /\ asked' = left /\ UNCHANGED request
    /\ UNCHANGED <<my_id, peers, resolver, hanging>>

\* SignOut() in a state other than NOT_CONNECTED and SIGNING_OUT, with the
\* control socket in state ctl, which still carries the request left: it
\* returns TRUE, or FALSE.
SignOutStarts(ctl, left) ==
    /\ hanging' = "closed"
    /\ \/ /\ my_id # NoId
          /\ Dial(ctl, "sign_out")
          /\ state' = "SIGNING_OUT"
       \/ /\ ctl = "closed"
          /\ my_id = NoId
          /\ state' = "SIGNING_OUT"
          /\ control' = ctl
          /\ asked' = left
          /\ UNCHANGED request
       \/ /\ ctl # "closed"
          /\ state' = "SIGNING_OUT_WAITING"
          /\ control' = ctl
          /\ asked' = left
          /\ UNCHANGED request
    /\ UNCHANGED <<my_id, peers, resolver>>

SignOutFails(ctl) ==
    /\ ctl = "closed"
    /\ my_id # NoId
    /\ DialFails(ctl)

-----------------------------------------------------------------------------
(* Calls of the application.  The user makes none while the MessageBox is  *)
(* up: it disables the main window.  But SignOut() may come then, from a   *)
(* callback that has shown a box of its own (conductor.cc:300).            *)

Ready == ~crashed /\ ~modal

\* Connect() while a session is in progress.
ConnectBusy ==
    /\ Ready
    /\ my_id = NoId                 \* Conductor::StartLogin
    /\ state # "NOT_CONNECTED"
    /\ told' = {Failure}
    /\ UNCHANGED <<state, my_id, peers, resolver, control, hanging, request,
                   asked, control_data, notification_data, retries, modal, crashed>>

\* Connect() without a server or a name.
ConnectEmpty ==
    /\ Ready
    /\ my_id = NoId
    /\ state = "NOT_CONNECTED"
    /\ told' = {Failure}
    /\ UNCHANGED <<state, my_id, peers, resolver, control, hanging, request,
                   asked, control_data, notification_data, retries, modal, crashed>>

\* Connect() with a host name that has to be resolved.
ConnectByName ==
    /\ Ready
    /\ my_id = NoId
    /\ state = "NOT_CONNECTED"
    /\ state' = "RESOLVING"
    /\ resolver' = "running"
    /\ told' = {}
    /\ UNCHANGED <<my_id, peers, control, hanging, request, asked, control_data,
                   notification_data, retries, modal, crashed>>

\* Connect() with an IP address.
ConnectByAddress ==
    /\ Ready
    /\ my_id = NoId
    /\ state = "NOT_CONNECTED"
    /\ DoConnect(resolver)
    /\ UNCHANGED <<retries, modal>>

\* SendToPeer(), SendHangUp() of a client that may not send.
SendRejected ==
    /\ Ready
    /\ state # "CONNECTED" \/ my_id = NoId
    /\ told' = {ReturnedFalse}
    /\ UNCHANGED <<state, my_id, peers, resolver, control, hanging, request,
                   asked, control_data, notification_data, retries, modal, crashed>>

\* SendToPeer(), SendHangUp(): the message waits for the control connection, or
\* the session is lost because the control socket is busy with the last one.
SendToPeer ==
    /\ Ready
    /\ state = "CONNECTED"
    /\ my_id # NoId
    /\ \/ /\ Dial(control, "message")
          /\ told' = {}
          /\ UNCHANGED <<state, my_id, peers, resolver, hanging>>
       \/ /\ DialFails(control)
          /\ told' = {ReturnedFalse}
    /\ UNCHANGED <<control_data, notification_data, retries, modal, crashed>>

\* SignOut().  Before the first DoConnect there is no hanging_get_ to look at.
SignOut ==
    /\ ~crashed
    /\ state \notin {"NOT_CONNECTED", "SIGNING_OUT"}
    /\ \/ /\ hanging = "null"
          /\ crashed' = TRUE
          /\ told' = {}
          /\ UNCHANGED <<state, my_id, peers, resolver, control, hanging,
                         request, asked>>
       \/ /\ hanging # "null"
          /\ \/ SignOutStarts(control, asked) /\ told' = {}
             \/ SignOutFails(control) /\ told' = {ReturnedFalse}
          /\ UNCHANGED crashed
    /\ UNCHANGED <<control_data, notification_data, retries, modal>>

-----------------------------------------------------------------------------
(* The resolver and the retry timer.                                       *)

\* OnResolveResult() without error.
Resolved ==
    /\ ~crashed
    /\ resolver = "running"
    /\ DoConnect("done")
    /\ UNCHANGED <<retries, modal>>

\* OnResolveResult() with an error, up to the return of the observer ...
ResolveError ==
    /\ ~crashed
    /\ resolver = "running"
    /\ "lookup" \in Faults
    /\ resolver' = "done"
    /\ modal' = TRUE
    /\ told' = {Failure}
    /\ UNCHANGED <<state, my_id, peers, control, hanging, request, asked,
                   control_data, notification_data, retries, crashed>>

\* ... which ran a message loop in between; and after it.
ResolveFailed ==
    /\ ~crashed
    /\ modal
    /\ modal' = FALSE
    /\ \/ /\ resolver = "null"
          /\ crashed' = TRUE
          /\ UNCHANGED <<state, resolver>>
       \/ /\ resolver # "null"
          /\ resolver' = "null"
          /\ state' = "NOT_CONNECTED"
          /\ UNCHANGED crashed
    /\ told' = {}
    /\ UNCHANGED <<my_id, peers, control, hanging, request, asked, control_data,
                   notification_data, retries>>

\* Mutants of OnMessage: a retry nobody posted; a retry that does not connect.
OnMessageTwice ==
    /\ ~crashed
    /\ retries' = retries - 1
    /\ DoConnect(resolver)
    /\ UNCHANGED modal
OnMessageIgnored ==
    /\ ~crashed
    /\ retries > 0
    /\ retries' = retries - 1
    /\ told' = {}
    /\ UNCHANGED <<state, my_id, peers, resolver, control, hanging, request,
                   asked, control_data, notification_data, modal, crashed>>

\* OnMessage(): a retry comes due.
OnMessage ==
    /\ ~crashed
    /\ retries > 0
    /\ retries' = retries - 1
    /\ DoConnect(resolver)
    /\ UNCHANGED modal

-----------------------------------------------------------------------------
(* Events of the control socket.                                           *)

\* OnConnect(): the request is sent.
OnConnect ==
    /\ ~crashed
    /\ control = "connecting"
    /\ control' = "connected"
    /\ asked' = request
    /\ request' = "none"
    /\ told' = {}
    /\ UNCHANGED <<state, my_id, peers, resolver, hanging, control_data,
                   notification_data, retries, modal, crashed>>

\* OnRead() of an answer that is not complete.
OnReadPart ==
    /\ ~crashed
    /\ control = "connected"
    /\ asked # "none"
    /\ "part" \in Faults
    /\ control_data = "empty"
    /\ control_data' = asked
    /\ told' = {}
    /\ UNCHANGED <<state, my_id, peers, resolver, control, hanging, request,
                   asked, notification_data, retries, modal, crashed>>

\* What ReadIntoBuffer() does to the socket when the answer is complete: the
\* socket is closed, and OnClose() tells that the message was sent, unless the
\* server keeps the connection open.
Closes == {TRUE} \cup (IF "keepopen" \in Faults THEN {FALSE} ELSE {})
Answered(closes) == IF closes THEN "closed" ELSE "connected"
SentBy(closes) == IF closes THEN {MessageSent} ELSE {}

\* The Pragma header ParseServerResponse() finds: the server sends one with the
\* answer to a sign_in only; the first bytes may be of an earlier connection.
PragmaIds ==
    LET answers == {asked, control_data} \ {"empty"} IN
    (IF "sign_in" \in answers THEN Ids ELSE {})
      \cup (IF answers # {"sign_in"} THEN {NoId} ELSE {})

\* The end of OnRead(): a client that was signing in dials the hanging GET.
StartWaiting ==
    \/ /\ state = "SIGNING_IN"
       /\ state' = "CONNECTED"
       /\ hanging' \in Dialled
    \/ /\ state # "SIGNING_IN"
       /\ UNCHANGED <<state, hanging>>

\* OnRead() of a complete answer.
OnRead(closes) ==
    /\ ~crashed
    /\ control = "connected"
    /\ asked # "none"
    /\ control_data' = "empty"
    /\ \/ /\ "error" \in Faults                  \* the status is not 200
          /\ CloseSession
          /\ told' = SentBy(closes) \cup {Disconnected}
       \/ /\ my_id = NoId                        \* the first response
          /\ control' = Answered(closes)
          /\ asked' = "none"
          /\ \E id \in PragmaIds, list \in SUBSET Ids :
                /\ my_id' = id
                /\ peers' = peers \cup (list \ {id})
                /\ told' = SentBy(closes)
                             \cup {Call("OnPeerConnected", p) : p \in list \ {id}}
                             \cup {Call("OnSignedIn", NoId)}
          /\ StartWaiting
          /\ UNCHANGED <<resolver, request>>
       \/ /\ my_id # NoId
          /\ state = "SIGNING_OUT"
          /\ CloseSession
          /\ told' = SentBy(closes) \cup {Disconnected}
       \/ /\ my_id # NoId
          /\ state = "SIGNING_OUT_WAITING"
          /\ \/ SignOutStarts(Answered(closes), "none")
             \/ SignOutFails(Answered(closes))
          /\ told' = SentBy(closes)
       \/ /\ my_id # NoId
          /\ state \notin {"SIGNING_OUT", "SIGNING_OUT_WAITING"}
          /\ control' = Answered(closes)
          /\ asked' = "none"
          /\ told' = SentBy(closes)
          /\ StartWaiting
          /\ UNCHANGED <<my_id, peers, resolver, request>>
    /\ UNCHANGED <<notification_data, retries, modal, crashed>>

\* Mutant of ControlRefused: the retry is not posted.
RefusedForGood ==
    /\ ~crashed
    /\ control = "connecting"
    /\ "refuse" \in Faults
    /\ control' = "closed"
    /\ told' = {}
    /\ UNCHANGED <<state, my_id, peers, resolver, hanging, request, asked,
                   control_data, notification_data, retries, modal, crashed>>

\* OnClose() of the control socket, the connection refused: a retry is posted.
ControlRefused ==
    /\ ~crashed
    /\ control = "connecting"
    /\ "refuse" \in Faults
    /\ retries < MaxRetries
    /\ control' = "closed"
    /\ retries' = retries + 1
    /\ told' = {}
    /\ UNCHANGED <<state, my_id, peers, resolver, hanging, request, asked,
                   control_data, notification_data, modal, crashed>>

\* OnClose() of the control socket for any other reason, the server closing a
\* connection it has kept open included.
ControlClosed ==
    /\ ~crashed
    /\ \/ control \in {"connecting", "connected"} /\ "drop" \in Faults
       \/ control = "connected" /\ asked = "none"
    /\ control' = "closed"
    /\ asked' = "none"
    /\ told' = {MessageSent}
    /\ UNCHANGED <<state, my_id, peers, resolver, hanging, request, control_data,
                   notification_data, retries, modal, crashed>>

-----------------------------------------------------------------------------
(* Events of the hanging GET.                                              *)

\* OnHangingGetConnect(): the wait request is sent.
OnHangingGetConnect ==
    /\ ~crashed
    /\ hanging = "connecting"
    /\ hanging' = "connected"
    /\ told' = {}
    /\ UNCHANGED <<state, my_id, peers, resolver, control, request, asked,
                   control_data, notification_data, retries, modal, crashed>>

\* OnHangingGetRead() of an answer that is not complete.
OnHangingGetReadPart ==
    /\ ~crashed
    /\ hanging = "connected"
    /\ "part" \in Faults
    /\ notification_data = "empty"
    /\ notification_data' = "part"
    /\ told' = {}
    /\ UNCHANGED <<state, my_id, peers, resolver, control, hanging, request, asked,
                   control_data, retries, modal, crashed>>

\* The hanging GET after a complete answer: closed and, while CONNECTED, dialled
\* again before the answer is looked at.
Redialled(closes) ==
    IF ~closes THEN {"connected"}
    ELSE IF state = "CONNECTED" THEN Dialled ELSE {"closed"}

\* Mutant of OnNotification: a new member is announced and not listed.
NotificationUnlisted(closes) ==
    /\ hanging' \in Redialled(closes)
    /\ \E p \in Ids \ {my_id} : told' = {Call("OnPeerConnected", p)}
    /\ UNCHANGED <<state, my_id, peers, resolver, control, request, asked, crashed>>

\* A member of the server appeared, or left; or its entry has no name.
OnNotification(closes) ==
    /\ hanging' \in Redialled(closes)
    /\ \/ \E p \in Ids \ {my_id} :
             \/ peers' = peers \cup {p} /\ told' = {Call("OnPeerConnected", p)}
             \/ peers' = peers \ {p} /\ told' = {Call("OnPeerDisconnected", p)}
       \/ UNCHANGED peers /\ told' = {}
    /\ UNCHANGED <<state, my_id, resolver, control, request, asked, crashed>>

\* OnMessageFromPeer(): another member said BYE, or sent a message.  The
\* observer may sign out before it returns; it ignores what SignOut returns.
OnMessageFromPeer(closes) ==
    \E p \in Ids \ {my_id} :
       \/ /\ hanging' \in Redialled(closes)
          /\ told' \in {{Call("OnPeerDisconnected", p)}, {Call("OnMessageFromPeer", p)}}
          /\ UNCHANGED <<state, my_id, peers, resolver, control, request, asked>>
       \/ /\ state \notin {"NOT_CONNECTED", "SIGNING_OUT"}
          /\ \/ SignOutStarts(control, asked) /\ told' = {Call("OnMessageFromPeer", p)}
             \/ SignOutFails(control)
                /\ told' = {Call("OnMessageFromPeer", p), ReturnedFalse}

\* OnHangingGetRead() of a complete answer.
OnHangingGetRead(closes) ==
    /\ ~crashed
    /\ hanging = "connected"
    /\ notification_data' = "empty"
    /\ \/ /\ "error" \in Faults                  \* the status is not 200
          /\ CloseSession
          /\ told' = {Disconnected}
       \/ OnNotification(closes)
       \/ OnMessageFromPeer(closes)
    /\ UNCHANGED <<control_data, retries, modal, crashed>>

\* Mutant of HangingGetRefused: the application is not told.
RefusedInSilence ==
    /\ ~crashed
    /\ hanging = "connecting"
    /\ "refuse" \in Faults
    /\ CloseSession
    /\ told' = {}
    /\ UNCHANGED <<control_data, notification_data, retries, modal, crashed>>

\* OnClose() of the hanging GET, the connection refused: the session ends.
HangingGetRefused ==
    /\ ~crashed
    /\ hanging = "connecting"
    /\ "refuse" \in Faults
    /\ CloseSession
    /\ told' = {Disconnected}
    /\ UNCHANGED <<control_data, notification_data, retries, modal, crashed>>

\* Mutant of HangingGetClosed: the hanging GET is not dialled again.
PollLost ==
    /\ ~crashed
    /\ hanging \in {"connecting", "connected"}
    /\ "losepoll" \in Faults
    /\ hanging' = "closed"
    /\ told' = {}
    /\ UNCHANGED <<state, my_id, peers, resolver, control, request, asked,
                   control_data, notification_data, retries, modal, crashed>>

\* OnClose() of the hanging GET for any other reason.
HangingGetClosed ==
    /\ ~crashed
    /\ hanging \in {"connecting", "connected"}
    /\ "losepoll" \in Faults
    /\ hanging' \in (IF state = "CONNECTED" THEN Dialled ELSE {"closed"})
    /\ told' = {}
    /\ UNCHANGED <<state, my_id, peers, resolver, control, request, asked,
                   control_data, notification_data, retries, modal, crashed>>

-----------------------------------------------------------------------------
\* A program that has crashed does nothing more.
Halted == crashed /\ UNCHANGED vars

Application ==
    \/ ConnectBusy \/ ConnectEmpty \/ ConnectByName \/ ConnectByAddress
    \/ SendRejected \/ SendToPeer \/ SignOut

ControlEvent ==
    \/ OnConnect
    \/ OnReadPart
    \/ \E closes \in Closes : OnRead(closes)
    \/ ControlRefused
    \/ ControlClosed

HangingGetEvent ==
    \/ OnHangingGetConnect
    \/ OnHangingGetReadPart
    \/ \E closes \in Closes : OnHangingGetRead(closes)
    \/ HangingGetRefused
    \/ HangingGetClosed

Next ==
    \/ Application
    \/ Resolved \/ ResolveError \/ ResolveFailed \/ OnMessage
    \/ ControlEvent
    \/ HangingGetEvent
    \/ Halted

Spec == Init /\ [][Next]_vars

\* The message loop runs every event that stays possible.  A server that now and
\* then accepts a connection accepts one at last.
Fairness ==
    /\ WF_vars(Resolved)
    /\ WF_vars(ResolveFailed)
    /\ WF_vars(OnMessage)
    /\ SF_vars(OnConnect)
    /\ WF_vars(\E closes \in Closes : OnRead(closes))
    /\ WF_vars(ControlClosed)

FairSpec == Spec /\ Fairness

-----------------------------------------------------------------------------
(* Properties.                                                             *)

\* A control socket that is being connected has a request to send, whatever
\* closed, replaced or redialled it in between (OnConnect(), the assertion of
\* peer_connection_client.cc:231).
OnConnectHasData == control = "connecting" => request # "none"

\* While a sign-in is under way no hanging GET of an earlier session is open, so
\* that the end of OnRead() can dial it (:369).
PollIdleWhileSigningIn == state = "SIGNING_IN" => hanging = "closed"

\* A client that may be told to Connect() owns no resolver: the one Connect()
\* allocates overwrites nothing (:112), and the failure path of OnResolveResult()
\* and Close() destroy what was there.
ResolverOwned == state = "NOT_CONNECTED" => resolver = "null"

\* On the control connection a client without an id asks for nothing but a sign_in:
\* no message and no sign_out names the peer -1, though retries put a sign_in in the
\* place of either.  Of the poll it says nothing: with answers that arrive in parts a
\* client may be CONNECTED without an id and wait as peer -1 (ConnectedHasId).
AnonymousExchange ==
    my_id = NoId => request \in {"none", "sign_in"} /\ asked \in {"none", "sign_in"}

\* A CONNECTED client has an id (:154, :335, :356), and so the hanging GET, which
\* only a CONNECTED client has (PollOnlyWhenConnected), is never opened as peer -1.
\* Needs answers that arrive whole: "part" \notin Faults.
ConnectedHasId == state = "CONNECTED" => my_id # NoId

\* A CONNECTED client always has its hanging GET open, or it would no longer hear
\* from the server: every handler that closes it dials it again.  Needs a Connect
\* that does not fail at once: "fail" \notin Faults.
PollOutstanding == state = "CONNECTED" => hanging \in {"connecting", "connected"}

\* Only a CONNECTED client polls: one that signs out, or has signed out, hears no
\* more notifications.  Needs "lookup" \notin Faults: OnResolveResult() may
\* otherwise set NOT_CONNECTED over a session that began under its MessageBox.
PollOnlyWhenConnected == hanging \in {"connecting", "connected"} => state = "CONNECTED"

\* A sign-in whose connection was refused is tried again: SIGNING_IN with a closed
\* control socket has a retry pending.  Needs "drop" \notin Faults.
RetryScheduled == state = "SIGNING_IN" /\ control = "closed" => retries > 0

\* The application hears of the end of its session: a step that forgets the id
\* calls OnDisconnected or OnServerConnectionFailure, or returns FALSE.  The one
\* exception is the SignOut() that OnRead() makes for a client waiting to sign
\* out: nobody looks at its result (:362).
LossIsReported ==
    my_id # NoId /\ my_id' = NoId /\ state # "SIGNING_OUT_WAITING"
      => told' \cap {Disconnected, Failure, ReturnedFalse} # {}
LossReported == [][LossIsReported]_vars

\* The client implements the abstract session, with the state of its sockets hidden.
\* In particular other members are heard of only between OnSignedIn and the sign-out,
\* the id of a session does not change, and its list of peers is what the observer has
\* been told.  Needs answers that arrive whole and names that resolve: "part" and
\* "lookup" \notin Faults.
Phase ==
    IF state = "NOT_CONNECTED" THEN "out"
    ELSE IF state \in {"SIGNING_OUT_WAITING", "SIGNING_OUT"} THEN "leaving"
    ELSE IF my_id = NoId THEN "seeking" ELSE "in"
Session == INSTANCE SignallingSession
               WITH phase <- Phase, id <- my_id, members <- peers
ImplementsSession == Session!Spec

\* Liveness.  However often the server refuses, the retries bring every sign-in to
\* an end (OnClose(), OnMessage()).
SignInCompletes == state = "SIGNING_IN" ~> state # "SIGNING_IN"

=============================================================================
