---------------------------------- MODULE Call ----------------------------------
(***************************************************************************)
(* Programs that call each other through the server: what the Conductors   *)
(* (conductor.cc) of several programs do together.  Each program holds at  *)
(* most one conversation, with the peer of its connection; descriptions    *)
(* and candidates wait in the program until the one before has been sent,  *)
(* and at the server until the other program's hanging GET takes them.     *)
(*                                                                         *)
(* What goes on inside a program is in Conductor and PeerConnectionClient. *)
(* Here a program is in a session until it leaves the server for good (it  *)
(* would come back with another id), its thread messages and               *)
(* pending_messages_ are one queue, and a peer connection is what it does  *)
(* with descriptions: its signalling state and its chain of operations.    *)
(***************************************************************************)
EXTENDS Naturals, Sequences, FiniteSets

CONSTANTS
    Programs,   \* the programs, by the ids they have at the server
    None,       \* peer_id_ == -1
    Plan,       \* bound: Plan[i] is the set of pairs of which the first may call the
                \* second in the i-th call that users make
    Gathering,  \* bound: the programs that gather a candidate
    MaxMishaps  \* bound: sessions lost and descriptions that could not be created

ASSUME NoneAssumption == None \notin Programs
ASSUME BoundsAssumption ==
    /\ Plan \in Seq(SUBSET (Programs \X Programs))
    /\ Gathering \subseteq Programs
    /\ MaxMishaps \in Nat

VARIABLES
    online,     \* online[p]: p is in a session at the server
    peer,       \* peer[p]: peer_id_ of p, None when it has no peer connection
    call,       \* call[p]: how many connections p has made; the number of the last
    conn,       \* conn[p]: the connection of p
    outbox,     \* outbox[p]: what p has signalled and not yet sent, oldest first
    inbox,      \* inbox[p]: what the server holds for p, oldest first
    calls,      \* the calls users have made
    mishaps,    \* the mishaps there have been
    disturbed   \* a message has been sent in, or taken for one of, a conversation that it
                \* is not of, or ignored, or a description could not be created

vars == <<online, peer, call, conn, outbox, inbox, calls, mishaps, disturbed>>

\* A signal is of connection call, and meant for connection to of the peer, if known.
Signals == {"offer", "answer", "candidate"}
News == {"bye", "left"}
Signal(kind, n, m) == [kind |-> kind, call |-> n, to |-> m]
Left == Signal("left", 0, 0)

\* Operations of a connection: create an offer or an answer, set a local description,
\* set the remote one made by connection n of the peer.
Creations == {"CreateOffer", "CreateAnswer"}
Settings == {"SetLocalOffer", "SetLocalAnswer", "SetRemoteOffer", "SetRemoteAnswer"}
Operation(op, n) == [op |-> op, call |-> n]

States == {"stable", "have-local-offer", "have-remote-offer"}

\* A connection, new: remote is the connection of the peer whose description is
\* applied, 0 when none is.
New == [sdp |-> "stable", caller |-> FALSE, local |-> FALSE, remote |-> 0, chain |-> <<>>,
        gathered |-> FALSE]

TypeOK ==
    /\ online \in [Programs -> BOOLEAN]
    /\ peer \in [Programs -> Programs \cup {None}]
    /\ call \in [Programs -> Nat]
    /\ conn \in [Programs ->
                   [sdp : States,
                    caller : BOOLEAN, local : BOOLEAN, remote : Nat,
                    chain : Seq([op : Creations \cup Settings, call : Nat]),
                    gathered : BOOLEAN]]
    /\ outbox \in [Programs -> Seq([kind : Signals, call : Nat, to : Nat])]
    /\ inbox \in [Programs ->
                    Seq([from : Programs,
                         signal : [kind : Signals \cup News, call : Nat, to : Nat]])]
    /\ calls \in 0..Len(Plan)
    /\ mishaps \in 0..MaxMishaps
    /\ disturbed \in BOOLEAN

Init ==
    /\ online = [p \in Programs |-> TRUE]
    /\ peer = [p \in Programs |-> None]
    /\ call = [p \in Programs |-> 0]
    /\ conn = [p \in Programs |-> New]
    /\ outbox = [p \in Programs |-> <<>>]
    /\ inbox = [p \in Programs |-> <<>>]
    /\ calls = 0
    /\ mishaps = 0
    /\ disturbed = FALSE

-----------------------------------------------------------------------------
(* Conversations.                                                          *)

Holds(box, p, kinds) ==
    \E i \in DOMAIN box : box[i].from = p /\ box[i].signal.kind \in kinds

\* Something that p or q has to say in their conversation is still under way.
UnderWay(p, q) ==
    \/ outbox[p] # <<>> \/ conn[p].chain # <<>>
    \/ peer[q] = p /\ (outbox[q] # <<>> \/ conn[q].chain # <<>>)
    \/ Holds(inbox[p], q, Signals) \/ Holds(inbox[q], p, Signals)

\* InitializePeerConnection() for a conversation of p with q.
Begin(p, q, ops) ==
    /\ peer' = [peer EXCEPT ![p] = q]
    /\ call' = [call EXCEPT ![p] = @ + 1]
    /\ conn' = [conn EXCEPT ![p] = [New EXCEPT !.chain = ops,
                                               !.caller = ops = <<Operation("CreateOffer", 0)>>]]

\* Mutant: peer_id_ is set to 0.
EndWithZero(p) ==
    /\ peer' = [peer EXCEPT ![p] = 0]
    /\ conn' = [conn EXCEPT ![p] = New]
    /\ UNCHANGED call

\* DeletePeerConnection(): what has been signalled and not sent stays.
End(p) ==
    /\ peer' = [peer EXCEPT ![p] = None]
    /\ conn' = [conn EXCEPT ![p] = New]
    /\ UNCHANGED call

\* The server keeps what p sends to q, if q is one of its members.
Post(p, q, signal) ==
    IF q \in Programs /\ online[q]
      THEN [inbox EXCEPT ![q] = Append(@, [from |-> p, signal |-> signal])]
      ELSE inbox

\* p leaves the server, which tells the others.
Leave(p) ==
    /\ mishaps < MaxMishaps
    /\ mishaps' = mishaps + 1
    /\ online' = [online EXCEPT ![p] = FALSE]
    /\ End(p)
    /\ outbox' = [outbox EXCEPT ![p] = <<>>]
    /\ inbox' = [q \in Programs |-> IF q = p THEN <<>> ELSE Post(p, q, Left)[q]]
    /\ UNCHANGED <<calls, disturbed>>

-----------------------------------------------------------------------------
(* The user.                                                               *)

\* Who is in the list of p: it shows members until it has heard that they left.
Listed(p) == {q \in Programs \ {p} : online[q] \/ Holds(inbox[p], q, {"left"})}

\* ConnectToPeer()
ConnectToPeer(p, q) ==
    /\ online[p]
    /\ peer[p] = None
    /\ calls < Len(Plan)
    /\ <<p, q>> \in Plan[calls + 1]
    /\ q \in Listed(p)
    /\ calls' = calls + 1
    /\ Begin(p, q, <<Operation("CreateOffer", 0)>>)
    /\ UNCHANGED <<online, outbox, inbox, mishaps, disturbed>>

\* Mutant: the connection is deleted first, and the BYE has no addressee.
DeleteThenHangUp(p) ==
    /\ peer[p] # None
    /\ End(p)
    /\ UNCHANGED <<online, outbox, inbox, calls, mishaps, disturbed>>

\* DisconnectFromCurrentPeer(): BYE is sent at once, past what waits.  If another message
\* is just being sent the control socket is busy, and the client gives up its session.
DisconnectFromCurrentPeer(p) ==
    /\ peer[p] # None
    /\ \/ /\ inbox' = Post(p, peer[p], Signal("bye", call[p], conn[p].remote))
          /\ End(p)
          /\ UNCHANGED <<online, outbox, calls, mishaps, disturbed>>
       \/ Leave(p)

\* The session of p ends: the user signs out, or the connection or the server fails.
LoseSession(p) ==
    /\ online[p]
    /\ Leave(p)

-----------------------------------------------------------------------------
(* What p hears from the server.  An operation that need not wait is done  *)
(* before the next message.                                                *)

Waits(p) == conn[p].chain # <<>> => Head(conn[p].chain).op \in Creations

First(p) == Head(inbox[p]).signal
Sender(p) == Head(inbox[p]).from

\* Mutant: an offer is applied and not answered.
AskedNoAnswer(m) ==
    IF m.kind = "offer" THEN <<Operation("SetRemoteOffer", m.call)>>
    ELSE IF m.kind = "answer" THEN <<Operation("SetRemoteAnswer", m.call)>>
    ELSE <<>>

\* What a message asks of the connection: a candidate is added, or refused, at once.
Asked(m) ==
    IF m.kind = "offer"
      THEN <<Operation("SetRemoteOffer", m.call), Operation("CreateAnswer", 0)>>
    ELSE IF m.kind = "answer" THEN <<Operation("SetRemoteAnswer", m.call)>>
    ELSE <<>>

Take(p) ==
    /\ inbox[p] # <<>>
    /\ inbox' = [inbox EXCEPT ![p] = Tail(@)]

\* Mutant: a hang-up only refreshes the list.
HearNewsForList(p) ==
    /\ Take(p)
    /\ First(p).kind \in News
    /\ \/ peer[p] = Sender(p) /\ First(p).kind = "left" /\ End(p) /\ UNCHANGED disturbed
       \/ /\ peer[p] # Sender(p) \/ First(p).kind = "bye"
          /\ UNCHANGED <<peer, call, conn, disturbed>>
    /\ UNCHANGED <<online, outbox, calls, mishaps>>

\* The BYE is of an earlier conversation with the same peer: it does not come from a
\* connection that answers this one, or that this one answers.
LateBye(p) ==
    /\ First(p).kind = "bye"
    /\ IF conn[p].caller THEN First(p).to # call[p] ELSE First(p).call # conn[p].remote

\* OnPeerDisconnected(), and PEER_CONNECTION_CLOSED if it is the peer: whatever
\* conversation the BYE is of, it ends this one.
HearNews(p) ==
    /\ Take(p)
    /\ First(p).kind \in News
    /\ \/ /\ peer[p] = Sender(p)
          /\ End(p)
          /\ disturbed' = (disturbed \/ LateBye(p))
       \/ peer[p] # Sender(p) /\ UNCHANGED <<peer, call, conn, disturbed>>
    /\ UNCHANGED <<online, outbox, calls, mishaps>>

\* OnMessageFromPeer() without a conversation: any signal begins one.
HearFirst(p) ==
    /\ Take(p)
    /\ First(p).kind \in Signals
    /\ peer[p] = None
    /\ Begin(p, Sender(p), Asked(First(p)))
    /\ disturbed' = (disturbed \/ First(p).kind # "offer")
    /\ UNCHANGED <<online, outbox, calls, mishaps>>

\* OnMessageFromPeer() of the peer.
HearPeer(p) ==
    /\ Take(p)
    /\ First(p).kind \in Signals
    /\ peer[p] = Sender(p)
    /\ conn' = [conn EXCEPT ![p].chain = @ \o Asked(First(p))]
    /\ disturbed' = (disturbed \/ First(p).to \notin {0, call[p]})
    /\ UNCHANGED <<online, peer, call, outbox, calls, mishaps>>

\* OnMessageFromPeer() of somebody else: ignored, without an answer.
HearThird(p) ==
    /\ Take(p)
    /\ First(p).kind \in Signals
    /\ peer[p] \notin {None, Sender(p)}
    /\ disturbed' = TRUE
    /\ UNCHANGED <<online, peer, call, conn, outbox, calls, mishaps>>

-----------------------------------------------------------------------------
(* The connection of p.                                                    *)

\* The descriptions accepted in each signalling state, and the state they lead to.
Transitions ==
    {<<"stable", "SetLocalOffer", "have-local-offer">>,
     <<"have-local-offer", "SetLocalOffer", "have-local-offer">>,
     <<"stable", "SetRemoteOffer", "have-remote-offer">>,
     <<"have-remote-offer", "SetRemoteOffer", "have-remote-offer">>,
     <<"have-remote-offer", "SetLocalAnswer", "stable">>,
     <<"have-local-offer", "SetRemoteAnswer", "stable">>}

Remote == {"SetRemoteOffer", "SetRemoteAnswer"}

\* c with the operation at the head of its chain done, which leads to state sdp.
Done(c, sdp) ==
    [c EXCEPT !.sdp = sdp,
              !.local = @ \/ Head(c.chain).op \notin Remote,
              !.remote = IF Head(c.chain).op \in Remote THEN Head(c.chain).call ELSE @,
              !.chain = Tail(@)]

\* SetLocalDescription() or SetRemoteDescription() comes to the head of the chain; one
\* that is not accepted fails, which is only logged.
SetDescription(p) ==
    /\ conn[p].chain # <<>>
    /\ LET op == Head(conn[p].chain).op
           next == {s \in States : <<conn[p].sdp, op, s>> \in Transitions}
       IN
       /\ op \in Settings
       /\ \/ \E s \in next : conn' = [conn EXCEPT ![p] = Done(@, s)]
          \/ next = {} /\ conn' = [conn EXCEPT ![p].chain = Tail(@)]
    /\ UNCHANGED <<online, peer, call, outbox, inbox, calls, mishaps, disturbed>>

\* An answer can only be created to an offer.
Creatable(p) ==
    \/ Head(conn[p].chain).op = "CreateOffer"
    \/ Head(conn[p].chain).op = "CreateAnswer" /\ conn[p].sdp = "have-remote-offer"

\* OnSuccess(): the description is signalled whether or not it can be set.
OnSuccess(p) ==
    /\ conn[p].chain # <<>>
    /\ Creatable(p)
    /\ LET offer == Head(conn[p].chain).op = "CreateOffer" IN
       /\ conn' = [conn EXCEPT ![p].chain =
             Append(Tail(@), Operation(IF offer THEN "SetLocalOffer" ELSE "SetLocalAnswer", 0))]
       /\ outbox' = [outbox EXCEPT ![p] =
             Append(@, Signal(IF offer THEN "offer" ELSE "answer", call[p], conn[p].remote))]
    /\ UNCHANGED <<online, peer, call, inbox, calls, mishaps, disturbed>>

\* OnFailure(): logged.
OnFailure(p) ==
    /\ conn[p].chain # <<>>
    /\ Head(conn[p].chain).op \in Creations
    /\ conn' = [conn EXCEPT ![p].chain = Tail(@)]
    /\ \/ /\ ~Creatable(p)
          /\ UNCHANGED <<mishaps, disturbed>>
       \/ /\ Creatable(p)
          /\ mishaps < MaxMishaps
          /\ mishaps' = mishaps + 1
          /\ disturbed' = TRUE
    /\ UNCHANGED <<online, peer, call, outbox, inbox, calls>>

\* OnIceCandidate(), once for a connection with a local description.
OnIceCandidate(p) ==
    /\ conn[p].local
    /\ ~conn[p].gathered
    /\ p \in Gathering
    /\ conn' = [conn EXCEPT ![p].gathered = TRUE]
    /\ outbox' = [outbox EXCEPT ![p] = Append(@, Signal("candidate", call[p], conn[p].remote))]
    /\ UNCHANGED <<online, peer, call, inbox, calls, mishaps, disturbed>>

-----------------------------------------------------------------------------
(* Sending.                                                                *)

\* Mutant: the last of the queue is sent first.
SendLast(p) ==
    /\ outbox[p] # <<>>
    /\ outbox' = [outbox EXCEPT ![p] = SubSeq(@, 1, Len(@) - 1)]
    /\ inbox' = Post(p, peer[p], outbox[p][Len(outbox[p])])
    /\ UNCHANGED <<online, peer, call, conn, calls, mishaps, disturbed>>

\* SEND_MESSAGE_TO_PEER: what waits longest is sent to the peer of the moment, whoever
\* it was made for, and lost when there is none.  The next waits for OnMessageSent().
SendToPeer(p) ==
    /\ outbox[p] # <<>>
    /\ outbox' = [outbox EXCEPT ![p] = Tail(@)]
    /\ inbox' = Post(p, peer[p], Head(outbox[p]))
    /\ disturbed' = (disturbed \/ (peer[p] # None /\ Head(outbox[p]).call # call[p]))
    /\ UNCHANGED <<online, peer, call, conn, calls, mishaps>>

-----------------------------------------------------------------------------
User(p) ==
    \/ \E q \in Programs : ConnectToPeer(p, q)
    \/ DisconnectFromCurrentPeer(p)
    \/ LoseSession(p)
Hear(p) == HearNews(p) \/ HearFirst(p) \/ HearPeer(p) \/ HearThird(p)
Create(p) == OnSuccess(p) \/ OnFailure(p)

\* Everybody has gone, or nobody calls any more.
Idle ==
    /\ \A p \in Programs : peer[p] = None /\ inbox[p] = <<>>
    /\ UNCHANGED vars

Next ==
    \/ \E p \in Programs : SetDescription(p)
    \/ /\ \A p \in Programs : Waits(p)
       /\ \/ \E p \in Programs :
               User(p) \/ Hear(p) \/ Create(p) \/ OnIceCandidate(p) \/ SendToPeer(p)
          \/ Idle

Spec == Init /\ [][Next]_vars

\* Messages are delivered, operations complete, and what a conversation has to say is
\* sent (Conductor!NoLostWakeup); users do as they like.
Fairness ==
    \A p \in Programs :
       /\ WF_vars(Hear(p))
       /\ WF_vars(SetDescription(p))
       /\ WF_vars(Create(p))
       /\ WF_vars(peer[p] # None /\ SendToPeer(p))

FairSpec == Spec /\ Fairness

-----------------------------------------------------------------------------
(* Properties.                                                             *)

Quiet(p, q) == ~UnderWay(p, q) /\ ~Holds(inbox[p], q, News) /\ ~Holds(inbox[q], p, News)

Connected(p, q) ==
    /\ conn[p].sdp = "stable"
    /\ conn[p].remote = call[q]

\* p has made an offer, or is making one.
Calling(p) ==
    \/ conn[p].sdp = "have-local-offer"
    \/ conn[p].chain # <<>> /\ Head(conn[p].chain).op = "CreateOffer"

\* Both have called each other, and neither offer is accepted.
Crossed(p, q) == conn[p].sdp = "have-local-offer" /\ conn[q].sdp = "have-local-offer"

\* When all has been said between p and its peer, the peer is in conversation with p,
\* and each has the description of the other's present connection, or both have called
\* at once.  It holds as long as no message has been ignored because of a third party
\* and no conversation has ended with something under way.
PeersAgree ==
    \A p, q \in Programs :
       peer[p] = q /\ Quiet(p, q) /\ ~disturbed =>
          /\ peer[q] = p
          /\ (Connected(p, q) /\ Connected(q, p)) \/ Crossed(p, q)

\* A candidate comes when the description of its connection has been applied ("messages
\* are sent to the server in the same order they were signaled", conductor.cc:509), and
\* is added.  It is only refused, for want of a remote description, when both call each
\* other: the peer knows no description of p, or its answer still waits in p behind the
\* one p is to make.
CandidateIsExpected ==
    [][\A p \in Programs :
         HearPeer(p) /\ First(p).kind = "candidate" /\ ~disturbed' =>
            \/ conn[p].remote = First(p).call
            \/ Calling(p) /\ (First(p).to = 0 \/ conn[p].chain # <<>>)]_vars

\* Liveness.  An offer that has been sent is answered, or the call ends, unless both
\* have called at once, or a message was ignored or came too late.
CallIsAnswered ==
    \A p \in Programs :
       conn[p].sdp = "have-local-offer" ~>
          \/ conn[p].sdp # "have-local-offer"
          \/ disturbed
          \/ \E q \in Programs : peer[p] = q /\ peer[q] = p /\ Crossed(p, q)

\* Liveness.  Nobody stays in a conversation that the peer is not in.
NobodyIsLeftAlone ==
    \A p \in Programs :
       peer[p] # None /\ peer[peer[p]] # p ~>
          peer[p] = None \/ peer[peer[p]] = p \/ disturbed
=============================================================================
