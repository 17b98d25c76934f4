------------------------------- MODULE Conductor -------------------------------
(***************************************************************************)
(* The peerconnection client program of PjWebrtc: the Conductor            *)
(* (conductor.cc) between the signalling client (PeerConnectionClient),    *)
(* the peer connection, and the main window with its message loop          *)
(* (main_wnd.cc, main.cc).                                                 *)
(*                                                                         *)
(* All of it runs on the UI thread.  A step is what the program does for   *)
(* one message of the loop: an event of the client together with what the  *)
(* Conductor makes of its callbacks, a command of the user, an event of    *)
(* the peer connection, or one thread message posted with                  *)
(* QueueUIThreadCallback().                                                *)
(*                                                                         *)
(* A MessageBox runs a message loop of its own inside the handler that     *)
(* shows it: meanwhile other events are handled, and may show boxes over   *)
(* it; the user can only dismiss the one on top, after which its handler   *)
(* goes on.  Thread messages have no window: the loop of a MessageBox      *)
(* takes them off the queue and throws them away.                          *)
(*                                                                         *)
(* Not modelled here: media tracks and the renderers.                      *)
(***************************************************************************)
EXTENDS Naturals, Sequences

CONSTANTS
    Ids, NoId, Faults, MaxRetries,   \* see PeerConnectionClient
    Upsets,     \* what else may happen: "return", the user presses Return while
                \* streaming; "nopc", no peer connection can be created
    MaxQueue,   \* bound: thread messages waiting
    MaxPending, \* bound: messages in pending_messages_
    MaxOffers,  \* bound: descriptions being created at once
    MaxBoxes    \* bound: message boxes over each other

ASSUME UpsetsAssumption == Upsets \subseteq {"return", "nopc"}
ASSUME BoundsAssumption ==
    /\ MaxQueue \in Nat /\ MaxPending \in Nat
    /\ MaxOffers \in Nat \ {0} /\ MaxBoxes \in Nat \ {0}

VARIABLES
    state, my_id, peers, resolver, control, hanging, request, asked,
    control_data, notification_data, retries, modal, crashed, told

clientVars == <<state, my_id, peers, resolver, control, hanging, request, asked,
                control_data, notification_data, retries, modal, crashed, told>>

Client == INSTANCE PeerConnectionClient

ASSUME ClientAssumption ==
    NoId \notin Ids /\ Faults \subseteq Client!AllFaults /\ MaxRetries \in Nat

VARIABLES
    peer_id,    \* peer_id_
    pc,         \* peer_connection_ is there
    loopback,   \* loopback_
    offers,     \* CreateOffer and CreateAnswer calls not yet answered
    gathering,  \* a local description is set: candidates may come
    queue,      \* UI_THREAD_CALLBACK messages posted, oldest first
    pending,    \* pending_messages_
    ui,         \* ui_
    listed,     \* the peers in listbox_
    window,     \* the window exists
    boxes,      \* the message boxes shown, the one on top first
    loop,       \* which loop of main() runs, or "exited"
    died        \* AddTracks() dereferenced a null peer_connection_

talkVars == <<peer_id, pc, loopback, offers, gathering>>
uiVars == <<ui, listed, window, boxes, loop>>
conductorVars == <<talkVars, uiVars, queue, pending, died>>
vars == <<clientVars, conductorVars>>

\* A message is "fresh" while the conversation that signalled it lasts, and "stale"
\* when that one is over.  In the queue there are also SEND_MESSAGE_TO_PEER
\* without data ("wake") and PEER_CONNECTION_CLOSED ("closed").
Messages == {"fresh", "stale"}
ThreadMessages == Messages \cup {"wake", "closed"}

\* A message box is known by what its handler goes on to do when it is dismissed:
\* "nothing"; OnResolveResult() with an error ("lookup"); InitializePeerConnection()
\* without a factory, called by OnMessageFromPeer() ("message") or by ConnectToPeer()
\* ("call"); or without a connection ("connection").
Boxes == {"nothing", "lookup", "message", "call", "connection"}

TypeOK ==
    /\ Client!TypeOK
    /\ peer_id \in Ids \cup {NoId}
    /\ pc \in BOOLEAN
    /\ loopback \in BOOLEAN
    /\ offers \in 0..MaxOffers
    /\ gathering \in BOOLEAN
    /\ queue \in Seq(ThreadMessages)
    /\ pending \in Seq(Messages)
    /\ ui \in {"CONNECT_TO_SERVER", "LIST_PEERS", "STREAMING"}
    /\ listed \subseteq Ids
    /\ window \in BOOLEAN
    /\ boxes \in Seq(Boxes)
    /\ loop \in {"first", "second", "exited"}
    /\ died \in BOOLEAN

Init ==
    /\ Client!Init
    /\ peer_id = NoId
    /\ pc = FALSE
    /\ loopback = FALSE
    /\ offers = 0
    /\ gathering = FALSE
    /\ queue = <<>>
    /\ pending = <<>>
    /\ ui = "CONNECT_TO_SERVER"
    /\ listed = {}
    /\ window = TRUE
    /\ boxes = <<>>
    /\ loop = "first"
    /\ died = FALSE

-----------------------------------------------------------------------------
(* What the handlers are built from.                                       *)

\* The condition of main()'s second loop, and whether a loop still runs: that of a
\* message box asks for nothing.
Active == pc \/ my_id # NoId
Running ==
    /\ ~crashed /\ ~died
    /\ loop = "first" \/ (loop = "second" /\ (Active \/ boxes # <<>>))

\* MessageBox(): it comes on top.
Show(b) ==
    /\ Len(boxes) < MaxBoxes
    /\ boxes' = <<b>> \o boxes

Outdated(q) == [i \in DOMAIN q |-> IF q[i] = "fresh" THEN "stale" ELSE q[i]]

\* DeletePeerConnection().  pending_messages_ and the thread messages stay: q is
\* the rest of the queue.
DeletePeerConnection(q) ==
    /\ peer_id' = NoId
    /\ pc' = FALSE
    /\ loopback' = FALSE
    /\ offers' = 0
    /\ gathering' = FALSE
    /\ pending' = Outdated(pending)
    /\ queue' = Outdated(q)

\* There is a peer connection for peer p, with n descriptions to create.
Converse(p, n, looped, described) ==
    /\ pc' = TRUE
    /\ peer_id' = p
    /\ offers' = n
    /\ loopback' = looped
    /\ gathering' = described

SwitchToPeerList(members) == ui' = "LIST_PEERS" /\ listed' = members
SwitchToConnectUI == ui' = "CONNECT_TO_SERVER" /\ listed' = listed
SwitchToStreamingUI == ui' = "STREAMING" /\ listed' = listed

\* client_->SignOut(), and DisconnectFromServer(); both ignore the result.
SignOut ==
    IF state \in {"NOT_CONNECTED", "SIGNING_OUT"} THEN UNCHANGED clientVars
    ELSE Client!SignOut

DisconnectFromServer ==
    IF my_id # NoId THEN SignOut ELSE UNCHANGED clientVars

\* Mutant of IsSendingMessage: the answer is not waited for.
SendingUntilConnected == state = "CONNECTED" /\ control = "connecting"

\* client_->IsSendingMessage()
IsSendingMessage == state = "CONNECTED" /\ control # "closed"

-----------------------------------------------------------------------------
(* Events of the client, with the callbacks they make.                     *)

\* Mutant of OnDisconnected: the conversation goes on.
DisconnectedInCall(woken) ==
    /\ queue' = queue \o woken
    /\ IF window THEN SwitchToConnectUI ELSE UNCHANGED <<ui, listed>>
    /\ UNCHANGED <<talkVars, pending, boxes>>

\* OnDisconnected(), after what told has put in the queue.
OnDisconnected(woken) ==
    /\ DeletePeerConnection(queue \o woken)
    /\ IF window THEN SwitchToConnectUI ELSE UNCHANGED <<ui, listed>>
    /\ UNCHANGED boxes

\* Mutant of OnNews: the list shows the peers as they were before the news.
NewsTooLate(woken) ==
    /\ queue' = queue \o woken
    /\ IF \/ Client!Call("OnSignedIn", NoId) \in told'
          \/ ui = "LIST_PEERS" /\ peers' # peers
         THEN SwitchToPeerList(peers)
         ELSE UNCHANGED <<ui, listed>>
    /\ UNCHANGED <<talkVars, pending, boxes>>

\* OnSignedIn(), OnPeerConnected(), OnPeerDisconnected(), OnServerConnectionFailure()
\* and OnMessageSent(), whose thread messages are woken.
OnNews(woken) ==
    /\ queue' = queue \o woken
                  \o (IF \E p \in Ids : /\ p = peer_id
                                        /\ Client!Call("OnPeerDisconnected", p) \in told'
                        THEN <<"closed">> ELSE <<>>)
    /\ IF \/ Client!Call("OnSignedIn", NoId) \in told'
          \/ /\ ui = "LIST_PEERS"
             /\ \E p \in Ids :
                  \/ Client!Call("OnPeerConnected", p) \in told'
                  \/ Client!Call("OnPeerDisconnected", p) \in told' /\ p # peer_id
         THEN SwitchToPeerList(peers')
         ELSE UNCHANGED <<ui, listed>>
    /\ IF Client!Failure \in told' THEN Show("nothing") ELSE UNCHANGED boxes
    /\ UNCHANGED <<talkVars, pending>>

\* What a message asks of a conversation with p: an offer is answered, "offer-loopback"
\* makes a new connection that calls itself, and the rest (answers, candidates, what
\* cannot be parsed) is for WebRTC alone.
Handle(p, n, looped, described) ==
    \/ Converse(p, n, looped, described)
    \/ n < MaxOffers /\ Converse(p, n + 1, looped, described)
    \/ Converse(p, 1, TRUE, FALSE)

\* OnMessageFromPeer() up to its return to the client, which has signed out if the
\* Conductor told it to.
OpenConversation(p) ==
    /\ ~pc
    /\ state' = state
    /\ Handle(p, 0, FALSE, FALSE)
    /\ SwitchToStreamingUI
    /\ UNCHANGED <<queue, pending, boxes>>

ContinueConversation(p) ==
    /\ pc
    /\ p = peer_id
    /\ state' = state
    /\ Handle(p, offers, loopback, gathering)
    /\ UNCHANGED <<queue, pending, ui, listed, boxes>>

IgnoreThirdParty(p) ==
    /\ pc
    /\ p # peer_id
    /\ state' = state
    /\ UNCHANGED <<talkVars, queue, pending, ui, listed, boxes>>

\* InitializePeerConnection() fails, and says so before it deletes anything.
FailConversation(p) ==
    /\ "nopc" \in Upsets
    /\ ~pc
    /\ state' = state
    /\ peer_id' = p
    /\ Show("message") \/ Show("connection")
    /\ UNCHANGED <<pc, loopback, offers, gathering, queue, pending, ui, listed>>

\* The connection of a loopback call fails: the client signs out, if it has a session.
FailLoopback(p) ==
    /\ "nopc" \in Upsets
    /\ p = peer_id \/ ~pc
    /\ state' # state \/ state = "NOT_CONNECTED"
    /\ DeletePeerConnection(queue)
    /\ IF pc THEN UNCHANGED <<ui, listed>> ELSE SwitchToStreamingUI
    /\ UNCHANGED boxes

OnMessageFromPeer(p) ==
    \/ OpenConversation(p)
    \/ ContinueConversation(p)
    \/ IgnoreThirdParty(p)
    \/ FailConversation(p)
    \/ FailLoopback(p)

WokenNever == <<>>  \* mutant of Woken
Woken == IF Client!MessageSent \in told' THEN <<"wake">> ELSE <<>>

Heard(p) == Client!Call("OnMessageFromPeer", p) \in told'

ClientEvent ==
    /\ Running
    /\ Client!Resolved \/ Client!OnMessage \/ Client!ControlEvent \/ Client!HangingGetEvent
    /\ IF Client!Disconnected \in told' THEN OnDisconnected(Woken)
       ELSE IF \E p \in Ids : Heard(p) THEN \E p \in Ids : Heard(p) /\ OnMessageFromPeer(p)
       ELSE OnNews(Woken)
    /\ Len(queue') <= MaxQueue
    /\ UNCHANGED <<window, loop, died>>

\* OnResolveResult() with an error shows OnServerConnectionFailure()'s box and waits.
LookupFails ==
    /\ Running
    /\ Client!ResolveError
    /\ Show("lookup")
    /\ UNCHANGED <<talkVars, ui, listed, window, loop, queue, pending, died>>

-----------------------------------------------------------------------------
(* Events of the peer connection, on the UI thread.                        *)

\* SendMessage(): the message is posted to the UI thread.
SendMessage ==
    /\ Len(queue) < MaxQueue
    /\ queue' = Append(queue, "fresh")

\* Mutant of OnSuccess: answers a call that was not made.
SuccessTwice ==
    /\ Running
    /\ pc
    /\ offers' = offers - 1
    /\ gathering' = TRUE
    /\ IF loopback THEN UNCHANGED queue ELSE SendMessage
    /\ UNCHANGED <<clientVars, uiVars, peer_id, pc, loopback, pending, died>>

\* OnSuccess(): the description is set, and sent unless the connection calls itself.
OnSuccess ==
    /\ Running
    /\ pc
    /\ offers > 0
    /\ offers' = offers - 1
    /\ gathering' = TRUE
    /\ IF loopback THEN UNCHANGED queue ELSE SendMessage
    /\ UNCHANGED <<clientVars, uiVars, peer_id, pc, loopback, pending, died>>

\* OnFailure(): logged.
OnFailure ==
    /\ Running
    /\ pc
    /\ offers > 0
    /\ offers' = offers - 1
    /\ UNCHANGED <<clientVars, uiVars, peer_id, pc, loopback, gathering, queue, pending, died>>

\* OnIceCandidate() of a connection that does not call itself.
OnIceCandidate ==
    /\ Running
    /\ pc
    /\ gathering
    /\ ~loopback
    /\ SendMessage
    /\ UNCHANGED <<clientVars, uiVars, talkVars, pending, died>>

-----------------------------------------------------------------------------
(* Commands of the user; a MessageBox disables the window.                 *)

UserMay == Running /\ window /\ boxes = <<>>

\* StartLogin(); a Connect() that fails is shown.
StartLogin ==
    /\ UserMay
    /\ ui = "CONNECT_TO_SERVER"
    /\ \/ Client!ConnectBusy \/ Client!ConnectEmpty
       \/ Client!ConnectByName \/ Client!ConnectByAddress
    /\ IF Client!Failure \in told' THEN Show("nothing") ELSE UNCHANGED boxes
    /\ UNCHANGED <<talkVars, ui, listed, window, loop, queue, pending, died>>

\* ConnectToPeer() of a peer in the list.
ConnectToPeer(p) ==
    /\ UserMay
    /\ ui = "LIST_PEERS"
    /\ p \in listed
    /\ \/ /\ pc
          /\ Show("nothing")
          /\ UNCHANGED <<talkVars, ui, listed>>
       \/ /\ ~pc
          /\ Converse(p, 1, FALSE, FALSE)
          /\ SwitchToStreamingUI
          /\ UNCHANGED boxes
       \/ /\ ~pc
          /\ "nopc" \in Upsets
          /\ Show("call") \/ Show("connection")
          /\ UNCHANGED <<talkVars, ui, listed>>
    /\ UNCHANGED <<clientVars, window, loop, queue, pending, died>>

\* Escape outside a conversation: DisconnectFromServer().
Disconnect ==
    /\ UserMay
    /\ ui # "STREAMING"
    /\ DisconnectFromServer
    /\ UNCHANGED conductorVars

\* Escape while streaming: DisconnectFromCurrentPeer().
HangUp ==
    /\ UserMay
    /\ ui = "STREAMING"
    /\ IF pc
         THEN /\ IF state = "CONNECTED" /\ my_id # NoId
                   THEN Client!SendToPeer ELSE UNCHANGED clientVars
              /\ DeletePeerConnection(queue)
         ELSE UNCHANGED <<clientVars, talkVars, queue, pending>>
    /\ SwitchToPeerList(peers')
    /\ UNCHANGED <<window, boxes, loop, died>>

\* Return while streaming: OnDefaultAction() shows "OK!".
Return ==
    /\ UserMay
    /\ ui = "STREAMING"
    /\ "return" \in Upsets
    /\ Show("nothing")
    /\ UNCHANGED <<clientVars, talkVars, ui, listed, window, loop, queue, pending, died>>

\* WM_CLOSE: Close(), then the window is destroyed.
CloseWindow ==
    /\ UserMay
    /\ SignOut
    /\ DeletePeerConnection(queue)
    /\ window' = FALSE
    /\ UNCHANGED <<ui, listed, boxes, loop, died>>

\* What the handlers go on to do when their box is dismissed.  A conversation that has
\* begun under the box of one that failed is deleted with it.
AfterLookup ==
    /\ Client!ResolveFailed
    /\ boxes' = Tail(boxes)
    /\ UNCHANGED <<talkVars, queue, pending, died>>

\* Mutant of AfterMessage: what the message has begun is not deleted.
AfterMessageKept ==
    /\ SignOut
    /\ boxes' = Tail(boxes)
    /\ UNCHANGED <<talkVars, queue, pending, died>>

\* OnMessageFromPeer() signs out.
AfterMessage ==
    /\ DeletePeerConnection(queue)
    /\ SignOut
    /\ boxes' = Tail(boxes)
    /\ UNCHANGED died

\* ConnectToPeer() shows another box.
AfterCall ==
    /\ DeletePeerConnection(queue)
    /\ boxes' = <<"nothing">> \o Tail(boxes)
    /\ UNCHANGED <<clientVars, died>>

\* InitializePeerConnection() goes on to AddTracks() without a connection.
AfterConnection ==
    /\ DeletePeerConnection(queue)
    /\ died' = TRUE
    /\ boxes' = Tail(boxes)
    /\ UNCHANGED clientVars

AfterNothing ==
    /\ boxes' = Tail(boxes)
    /\ UNCHANGED <<clientVars, talkVars, queue, pending, died>>

\* The user dismisses the MessageBox on top.
DismissBox ==
    /\ Running
    /\ boxes # <<>>
    /\ \/ Head(boxes) = "lookup" /\ AfterLookup
       \/ Head(boxes) = "message" /\ AfterMessage
       \/ Head(boxes) = "call" /\ AfterCall
       \/ Head(boxes) = "connection" /\ AfterConnection
       \/ Head(boxes) = "nothing" /\ AfterNothing
    /\ UNCHANGED <<ui, listed, window, loop>>

-----------------------------------------------------------------------------
(* UIThreadCallback(): one thread message.                                 *)

\* SEND_MESSAGE_TO_PEER, when the messages waiting are then msgs: nothing is sent
\* while the client still sends; otherwise the first one is given to it, and lost
\* when the client refuses it.
SendPending(msgs) ==
    \/ /\ msgs = <<>> \/ IsSendingMessage
       /\ pending' = msgs
       /\ UNCHANGED clientVars
    \/ /\ msgs # <<>> /\ ~IsSendingMessage
       /\ pending' = Tail(msgs)
       /\ \/ /\ peer_id = NoId
             /\ UNCHANGED clientVars
          \/ /\ peer_id # NoId
             /\ state = "CONNECTED" /\ my_id # NoId
             /\ Client!SendToPeer
          \/ /\ peer_id # NoId
             /\ state # "CONNECTED" \/ my_id = NoId
             /\ DisconnectFromServer

Waiting == IF Head(queue) = "wake" THEN pending ELSE Append(pending, Head(queue))

SendMessageToPeer ==
    /\ Head(queue) \in Messages \cup {"wake"}
    /\ SendPending(Waiting)
    /\ Len(pending') <= MaxPending
    /\ queue' = Tail(queue)
    /\ UNCHANGED <<talkVars, ui, listed>>

PeerConnectionClosed ==
    /\ Head(queue) = "closed"
    /\ DeletePeerConnection(Tail(queue))
    /\ IF window
         THEN /\ UNCHANGED clientVars
              /\ IF my_id # NoId THEN SwitchToPeerList(peers) ELSE SwitchToConnectUI
         ELSE /\ DisconnectFromServer
              /\ UNCHANGED <<ui, listed>>

UIThreadCallback ==
    /\ Running
    /\ boxes = <<>>
    /\ queue # <<>>
    /\ SendMessageToPeer \/ PeerConnectionClosed
    /\ UNCHANGED <<window, boxes, loop, died>>

\* The loop of a MessageBox dispatches a thread message to no window.
LoseThreadMessage ==
    /\ Running
    /\ boxes # <<>>
    /\ queue # <<>>
    /\ queue' = Tail(queue)
    /\ UNCHANGED <<clientVars, talkVars, uiVars, pending, died>>

-----------------------------------------------------------------------------
(* main(): the first loop ends with WM_QUIT, which comes when no thread    *)
(* message is left; the second when nothing is active any more.  Neither   *)
(* goes on before the message boxes in it are dismissed.                   *)
Quit ==
    /\ ~crashed /\ ~died
    /\ loop = "first" /\ ~window /\ queue = <<>> /\ boxes = <<>>
    /\ loop' = IF Active THEN "second" ELSE "exited"
    /\ UNCHANGED <<clientVars, talkVars, ui, listed, window, boxes, queue, pending, died>>

Exit ==
    /\ ~crashed /\ ~died
    /\ loop = "second" /\ ~Active /\ boxes = <<>>
    /\ loop' = "exited"
    /\ UNCHANGED <<clientVars, talkVars, ui, listed, window, boxes, queue, pending, died>>

Ended == (crashed \/ died \/ loop = "exited") /\ UNCHANGED vars

User ==
    \/ StartLogin
    \/ \E p \in Ids : ConnectToPeer(p)
    \/ Disconnect \/ HangUp \/ Return \/ CloseWindow \/ DismissBox

Next ==
    \/ ClientEvent \/ LookupFails
    \/ OnSuccess \/ OnFailure \/ OnIceCandidate
    \/ User
    \/ UIThreadCallback \/ LoseThreadMessage
    \/ Quit \/ Exit \/ Ended

Spec == Init /\ [][Next]_vars

\* The loops of main() go on taking messages, and the network delivers.
Fairness ==
    /\ WF_vars(ClientEvent)
    /\ WF_vars(UIThreadCallback)
    /\ WF_vars(Quit)
    /\ WF_vars(Exit)

FairSpec == Spec /\ Fairness

-----------------------------------------------------------------------------
(* Properties.                                                             *)

\* A conversation that could not be made waits in its message box for its deletion.
Failing == \E i \in DOMAIN boxes : boxes[i] \in {"message", "connection"}

\* A conversation has a peer, and without one there is a peer at most while the box of a
\* message that could not open one is shown (the assertions of conductor.cc:297 and 306,
\* of which the first does not hold under that box): through hang-ups, lost sessions,
\* conversations begun under the box of another, and boxes dismissed in any state.
ConversationHasPeer ==
    /\ pc => peer_id # NoId
    /\ peer_id # NoId => pc \/ Failing

\* A conversation is what the window shows: nobody talks behind the list of peers
\* or the connect dialog (AddTracks(), DisconnectFromCurrentPeer(), OnDisconnected(),
\* PEER_CONNECTION_CLOSED), also not one begun under a message box.  Needs "fail",
\* "refuse" and "part" \notin Faults.
ConversationIsShown == pc /\ window => ui = "STREAMING"

\* The list the user chooses from is that of the client: every callback that changes
\* peers() while it is shown fills it again, after the change.  Except under the box of
\* a message that failed, whose sender is taken for the peer of a conversation
\* (OnPeerDisconnected(), :279): after that box the client is no longer CONNECTED, or
\* the program has died.
ListIsCurrent ==
    window /\ ui = "LIST_PEERS" /\ state = "CONNECTED" /\ ~Failing /\ ~died
      => listed = peers

\* No lost wakeup (OnMessageSent(), SEND_MESSAGE_TO_PEER): a message that waits while
\* the control socket is idle has a thread message coming that will send it.
NoLostWakeup ==
    /\ state = "CONNECTED"
    /\ control = "closed"
    /\ \E i \in DOMAIN pending : pending[i] = "fresh"
    => \E i \in DOMAIN queue : queue[i] # "closed"

\* Sending what waits never costs the session: SendToPeer() is only called for it
\* when the control socket is idle (IsSendingMessage()).
SendingKeepsSession ==
    [][UIThreadCallback /\ window /\ state = "CONNECTED" => state' = "CONNECTED"]_vars

\* Liveness.  A program whose window was closed while it had an id signs out and ends
\* (Close(), both loops of main()), also when a message was on its way, or the sign-out
\* made by OnRead() fails at once, which nobody looks at (:362).  Unless the connection it waits for is lost, or kept open until the
\* server closes it: OnClose() (:474) then reports a message sent, and nothing signs out
\* any more.  Needs "refuse" and "lookup" \notin Faults: a retry signs in again (:506),
\* and a lookup that fails waits for the user; and "nopc" \notin Upsets (died).
SigningOut ==
    /\ my_id # NoId
    /\ \/ state = "SIGNING_OUT"
       \/ state = "SIGNING_OUT_WAITING" /\ control # "closed"
SignOutLost ==
    /\ state \in {"SIGNING_OUT", "SIGNING_OUT_WAITING"}
    /\ control = "closed"
SignedOutExits == ~window /\ SigningOut ~> loop = "exited" \/ SignOutLost

-----------------------------------------------------------------------------
(* What the code says of itself and does not keep.                         *)

\* "RTC_DCHECK(control_socket_->GetState() == rtc::Socket::CS_CLOSED)" in SendToPeer()
\* (peer_connection_client.cc:155), when it is told to hang up.
HangUpFindsIdleSocket ==
    [][HangUp /\ pc /\ state = "CONNECTED" => control = "closed"]_vars

\* "Send a message to the remote peer." (conductor.h:120): what is sent was signalled
\* in the conversation with that peer.
SentToItsPeer ==
    [][UIThreadCallback /\ Head(queue) # "closed" /\ control = "closed"
         /\ control' = "connecting" /\ state' = "CONNECTED"
       => Head(Waiting) = "fresh"]_vars

\* "Can occur if the app is closed before we finish connecting."
\* (peer_connection_client.cc:197): a program closed at any time comes to its end.
ClosedProgramEnds == ~window ~> loop = "exited" \/ crashed \/ died
=============================================================================
