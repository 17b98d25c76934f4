---------------------------- MODULE ConductorProofs ----------------------------
(***************************************************************************)
(* Proofs about the Conductor, for any ids, bounds and upsets.  The first  *)
(* theorem says that the program uses the client as the client may be      *)
(* used: whatever is proved of PeerConnectionClient holds of the client    *)
(* inside the program, and the invariants of the Conductor rest on it.     *)
(***************************************************************************)
EXTENDS Conductor, SequenceTheorems, TLAPS

\* The theorems about the client, with the variables of the program.
Proofs == INSTANCE PeerConnectionClientProofs

-----------------------------------------------------------------------------
(* The client of the program is the client of PeerConnectionClientProofs.  *)

\* The two instances of PeerConnectionClient have the same steps ...
LEMMA SameNext == Client!Next <=> Proofs!Next
  BY DEF Client!Next, Proofs!Next, Client!Application, Proofs!Application,
         Client!ConnectBusy, Proofs!ConnectBusy, Client!ConnectEmpty,
         Proofs!ConnectEmpty, Client!ConnectByName, Proofs!ConnectByName, Client!ConnectByAddress, Proofs!ConnectByAddress,
         Client!SendRejected, Proofs!SendRejected, Client!SendToPeer,
         Proofs!SendToPeer, Client!SignOut, Proofs!SignOut, Client!Resolved,
         Proofs!Resolved, Client!ResolveError, Proofs!ResolveError,
         Client!ResolveFailed, Proofs!ResolveFailed, Client!OnMessage,
         Proofs!OnMessage, Client!ControlEvent, Proofs!ControlEvent, Client!OnConnect,
         Proofs!OnConnect, Client!OnReadPart, Proofs!OnReadPart, Client!OnRead,
         Proofs!OnRead, Client!ControlRefused, Proofs!ControlRefused,
         Client!ControlClosed, Proofs!ControlClosed, Client!HangingGetEvent,
         Proofs!HangingGetEvent, Client!OnHangingGetConnect,
         Proofs!OnHangingGetConnect, Client!OnHangingGetReadPart,
         Proofs!OnHangingGetReadPart, Client!OnHangingGetRead,
         Proofs!OnHangingGetRead, Client!OnNotification, Proofs!OnNotification,
         Client!OnMessageFromPeer, Proofs!OnMessageFromPeer, Client!HangingGetRefused,
         Proofs!HangingGetRefused, Client!HangingGetClosed, Proofs!HangingGetClosed,
         Client!Halted, Proofs!Halted, Client!vars, Proofs!vars, Client!Ready,
         Proofs!Ready, Client!DoConnect, Proofs!DoConnect, Client!Dial, Proofs!Dial,
         Client!DialFails, Proofs!DialFails, Client!CloseSession, Proofs!CloseSession,
         Client!Dialled, Proofs!Dialled, Client!SignOutStarts, Proofs!SignOutStarts,
         Client!SignOutFails, Proofs!SignOutFails, Client!Closes, Proofs!Closes,
         Client!Answered, Proofs!Answered, Client!SentBy, Proofs!SentBy,
         Client!PragmaIds, Proofs!PragmaIds, Client!StartWaiting, Proofs!StartWaiting,
         Client!Redialled, Proofs!Redialled, Client!Call, Proofs!Call, Client!Failure,
         Proofs!Failure, Client!Disconnected, Proofs!Disconnected, Client!MessageSent,
         Proofs!MessageSent, Client!ReturnedFalse, Proofs!ReturnedFalse

\* ... and the same initial states.
LEMMA SameInit == Client!Init <=> Proofs!Init
  BY DEF Client!Init, Proofs!Init

\* Every step of the program is a step of its client, or leaves it alone.
LEMMA ClientStep == [Next]_vars => [Client!Next]_(Client!vars)
<1> SUFFICES ASSUME [Next]_vars PROVE Client!Next \/ UNCHANGED clientVars
  BY DEF clientVars, Client!vars
<1> USE DEF Client!Next, Client!Application
<1>1. CASE UNCHANGED vars
  BY <1>1 DEF vars
<1>2. CASE ClientEvent \/ LookupFails
  BY <1>2 DEF ClientEvent, LookupFails
<1>3. CASE OnSuccess \/ OnFailure \/ OnIceCandidate
  BY <1>3 DEF OnSuccess, OnFailure, OnIceCandidate
<1>4. CASE User
  <2>1. CASE StartLogin
    BY <2>1 DEF StartLogin
  <2>2. ASSUME NEW p \in Ids, ConnectToPeer(p) PROVE UNCHANGED clientVars
    BY <2>2 DEF ConnectToPeer
  <2>3. CASE Disconnect
    BY <2>3 DEF Disconnect, DisconnectFromServer, SignOut
  <2>4. CASE HangUp
    BY <2>4 DEF HangUp
  <2>5. CASE Return
    BY <2>5 DEF Return
  <2>6. CASE CloseWindow
    BY <2>6 DEF CloseWindow, SignOut
  <2>7. CASE DismissBox
    BY <2>7 DEF DismissBox, AfterLookup, AfterMessage, AfterCall, AfterConnection,
                AfterNothing, SignOut
  <2> QED
    BY <1>4, <2>1, <2>2, <2>3, <2>4, <2>5, <2>6, <2>7 DEF User
<1>5. CASE UIThreadCallback
  BY <1>5 DEF UIThreadCallback, SendMessageToPeer, SendPending, PeerConnectionClosed,
              DisconnectFromServer, SignOut
<1>6. CASE LoseThreadMessage \/ Quit \/ Exit \/ Ended
  BY <1>6 DEF LoseThreadMessage, Quit, Exit, Ended, vars
<1> QED
  BY <1>1, <1>2, <1>3, <1>4, <1>5, <1>6 DEF Next

\* The program implements the client: inside it, the client behaves as its own
\* specification says.
THEOREM UsesClient == Spec => Client!Spec
<1>1. Init => Client!Init
  BY DEF Init
<1> QED
  BY <1>1, ClientStep, PTL DEF Spec, Client!Spec

\* So what is proved of the client holds in the program.
LEMMA ClientInvariants == Spec => [](Proofs!TypeOK /\ Proofs!IInv)
<1>1. Client!Spec => Proofs!Spec
  <2>1. [Client!Next]_(Client!vars) => [Proofs!Next]_(Proofs!vars)
    BY SameNext DEF Client!vars, Proofs!vars
  <2> QED
    BY <2>1, SameInit, PTL DEF Client!Spec, Proofs!Spec
<1>2. Proofs!Spec => []Proofs!TypeOK
  BY Proofs!TypeCorrect, ClientAssumption DEF Client!AllFaults, Proofs!AllFaults
<1>3. Proofs!Spec => []Proofs!IInv
  BY Proofs!Invariance, ClientAssumption DEF Client!AllFaults, Proofs!AllFaults
<1> QED
  BY <1>1, <1>2, <1>3, UsesClient, PTL

\* The program sees sessions as the abstract specification promises them, where
\* answers arrive whole and names resolve.
THEOREM SessionsOfProgram ==
    ASSUME Proofs!Whole
    PROVE  Spec => Proofs!ImplementsSession
<1>1. Client!Spec => Proofs!Spec
  <2>1. [Client!Next]_(Client!vars) => [Proofs!Next]_(Proofs!vars)
    BY SameNext DEF Client!vars, Proofs!vars
  <2> QED
    BY <2>1, SameInit, PTL DEF Client!Spec, Proofs!Spec
<1>2. Proofs!Spec => Proofs!ImplementsSession
  BY Proofs!SessionRefined, ClientAssumption DEF Client!AllFaults, Proofs!AllFaults
<1> QED
  BY <1>1, <1>2, UsesClient, PTL

-----------------------------------------------------------------------------
(* The messages that wait.                                                 *)

Fresh(q) == \E i \in DOMAIN q : q[i] = "fresh"
Wakes(q) == \E i \in DOMAIN q : q[i] # "closed"

\* When a conversation ends, what waits keeps its place and is no longer fresh.
LEMMA OutdatedMessages ==
    ASSUME NEW S \in {Messages, ThreadMessages}, NEW q \in Seq(S)
    PROVE  Outdated(q) \in Seq(S) /\ ~Fresh(Outdated(q))
<1>1. q \in [1..Len(q) -> S] /\ DOMAIN q = 1..Len(q) /\ Len(q) \in Nat
  BY LenProperties
<1>2. Outdated(q) \in [1..Len(q) -> S]
  BY <1>1 DEF Outdated, Messages, ThreadMessages
<1>3. Outdated(q) \in Seq(S)
  BY <1>1, <1>2, SeqDef
<1>4. ~Fresh(Outdated(q))
  BY <1>1 DEF Outdated, Fresh
<1> QED
  BY <1>3, <1>4

\* What is put at the end of a queue ...
LEMMA AppendedMessage ==
    ASSUME NEW S \in {Messages, ThreadMessages}, NEW q \in Seq(S), NEW m \in S
    PROVE  /\ Append(q, m) \in Seq(S)
           /\ Append(q, m) # <<>>
           /\ Fresh(Append(q, m)) => Fresh(q) \/ m = "fresh"
           /\ Wakes(q) \/ m # "closed" => Wakes(Append(q, m))
<1>1. /\ Append(q, m) \in Seq(S)
      /\ Append(q, m) # <<>>
      /\ Fresh(Append(q, m)) => Fresh(q) \/ m = "fresh"
  BY DEF Fresh
<1>2. Wakes(q) => Wakes(Append(q, m))
  BY DEF Wakes
<1>3. ASSUME m # "closed" PROVE Wakes(Append(q, m))
  <2>1. Len(q) + 1 \in DOMAIN Append(q, m) /\ Append(q, m)[Len(q) + 1] = m
    OBVIOUS
  <2> QED
    BY <1>3, <2>1 DEF Wakes
<1> QED
  BY <1>1, <1>2, <1>3

\* ... and the rest of a queue.
LEMMA RestOfQueue ==
    ASSUME NEW S \in {Messages, ThreadMessages}, NEW q \in Seq(S), q # <<>>
    PROVE  /\ Head(q) \in S
           /\ Tail(q) \in Seq(S)
           /\ Fresh(Tail(q)) => Fresh(q)
           /\ Head(q) = "fresh" => Fresh(q)
  BY DEF Fresh

\* Two queues one after the other.
LEMMA JoinedQueues ==
    ASSUME NEW q \in Seq(ThreadMessages), NEW r \in Seq(ThreadMessages)
    PROVE  /\ q \o r \in Seq(ThreadMessages)
           /\ Fresh(q \o r) => Fresh(q) \/ Fresh(r)
           /\ Wakes(q) \/ Wakes(r) => Wakes(q \o r)
<1>1. /\ q \o r \in Seq(ThreadMessages)
      /\ Fresh(q \o r) => Fresh(q) \/ Fresh(r)
  BY DEF Fresh
<1>2. Wakes(q) => Wakes(q \o r)
  BY DEF Wakes
<1>3. ASSUME NEW i \in DOMAIN r, r[i] # "closed"
      PROVE  Wakes(q \o r)
  <2>1. Len(q) + i \in DOMAIN (q \o r) /\ (q \o r)[Len(q) + i] = r[i]
    OBVIOUS
  <2> QED
    BY <1>3, <2>1 DEF Wakes
<1> QED
  BY <1>1, <1>2, <1>3 DEF Wakes

\* The one-message queues of the handlers.
LEMMA ShortQueues ==
    /\ <<>> \in Seq(ThreadMessages) /\ ~Fresh(<<>>)
    /\ <<"closed">> \in Seq(ThreadMessages) /\ ~Fresh(<<"closed">>)
    /\ <<"wake">> \in Seq(ThreadMessages) /\ ~Fresh(<<"wake">>) /\ Wakes(<<"wake">>)
<1>1. /\ <<>> \in Seq(ThreadMessages) /\ ~Fresh(<<>>)
      /\ <<"closed">> \in Seq(ThreadMessages) /\ ~Fresh(<<"closed">>)
      /\ <<"wake">> \in Seq(ThreadMessages) /\ ~Fresh(<<"wake">>)
  BY DEF Fresh, ThreadMessages
<1>2. 1 \in DOMAIN <<"wake">> /\ <<"wake">>[1] = "wake"
  OBVIOUS
<1> QED
  BY <1>1, <1>2 DEF Wakes

-----------------------------------------------------------------------------
(* The message boxes.                                                      *)

Fails(b) == \E i \in DOMAIN b : b[i] \in {"message", "connection"}

\* A box that comes on top ...
LEMMA ShownBox ==
    ASSUME NEW b \in Seq(Boxes), NEW x \in Boxes
    PROVE  /\ <<x>> \o b \in Seq(Boxes)
           /\ Fails(<<x>> \o b) <=> Fails(b) \/ x \in {"message", "connection"}
<1>1. <<x>> \o b \in Seq(Boxes)
  OBVIOUS
<1>2. Fails(<<x>> \o b) => Fails(b) \/ x \in {"message", "connection"}
  BY DEF Fails
<1>3. ASSUME NEW i \in DOMAIN b, b[i] \in {"message", "connection"}
      PROVE  Fails(<<x>> \o b)
  <2>1. i + 1 \in DOMAIN (<<x>> \o b) /\ (<<x>> \o b)[i + 1] = b[i]
    OBVIOUS
  <2> QED
    BY <1>3, <2>1 DEF Fails
<1>4. 1 \in DOMAIN (<<x>> \o b) /\ (<<x>> \o b)[1] = x
  OBVIOUS
<1> QED
  BY <1>1, <1>2, <1>3, <1>4 DEF Fails

\* ... and the boxes left when it is dismissed.
LEMMA DismissedBox ==
    ASSUME NEW b \in Seq(Boxes), b # <<>>
    PROVE  /\ Head(b) \in Boxes
           /\ Tail(b) \in Seq(Boxes)
           /\ Fails(b) <=> Fails(Tail(b)) \/ Head(b) \in {"message", "connection"}
<1>1. /\ Head(b) \in Boxes
      /\ Tail(b) \in Seq(Boxes)
      /\ <<Head(b)>> \o Tail(b) = b
  OBVIOUS
<1> QED
  BY <1>1, ShownBox

\* Without a box none has failed.
LEMMA NoBox == boxes = <<>> => ~Failing
  BY DEF Failing

-----------------------------------------------------------------------------
(* Types.                                                                  *)

TalkTypes ==
    /\ peer_id \in Ids \cup {NoId}
    /\ pc \in BOOLEAN
    /\ loopback \in BOOLEAN
    /\ offers \in 0..MaxOffers
    /\ gathering \in BOOLEAN

QueueTypes == queue \in Seq(ThreadMessages) /\ pending \in Seq(Messages)

UiTypes ==
    /\ ui \in {"CONNECT_TO_SERVER", "LIST_PEERS", "STREAMING"}
    /\ listed \subseteq Ids

\* What is left when a conversation has been deleted.
LEMMA Deleted ==
    ASSUME TypeOK, NEW q \in Seq(ThreadMessages), DeletePeerConnection(q)
    PROVE  /\ TalkTypes' /\ QueueTypes'
           /\ ~pc' /\ peer_id' = NoId
           /\ ~Fresh(queue') /\ ~Fresh(pending')
<1>1. /\ Outdated(q) \in Seq(ThreadMessages) /\ ~Fresh(Outdated(q))
      /\ Outdated(pending) \in Seq(Messages) /\ ~Fresh(Outdated(pending))
  BY OutdatedMessages DEF TypeOK
<1>2. pc' = FALSE /\ loopback' \in BOOLEAN /\ gathering' \in BOOLEAN /\ peer_id' = NoId
  BY DEF DeletePeerConnection
<1>3. offers' \in 0..MaxOffers
  BY BoundsAssumption DEF DeletePeerConnection
<1>4. QueueTypes' /\ ~Fresh(queue') /\ ~Fresh(pending')
  BY <1>1 DEF DeletePeerConnection, QueueTypes
<1> QED
  BY <1>2, <1>3, <1>4 DEF TalkTypes

\* What is there when one has been opened or goes on.
LEMMA Handled ==
    ASSUME NEW p \in Ids, NEW n \in 0..MaxOffers, NEW looped \in BOOLEAN,
           NEW described \in BOOLEAN, Handle(p, n, looped, described)
    PROVE  TalkTypes' /\ pc' /\ peer_id' = p
<1>1. pc' = TRUE /\ loopback' \in BOOLEAN /\ gathering' \in BOOLEAN /\ peer_id' = p
  BY DEF Handle, Converse
<1>2. offers' \in 0..MaxOffers
  BY BoundsAssumption DEF Handle, Converse
<1> QED
  BY <1>1, <1>2 DEF TalkTypes

\* What the client has told is put in the queue.
LEMMA WokenType == Woken \in Seq(ThreadMessages) /\ ~Fresh(Woken)
  BY ShortQueues DEF Woken

\* The types of the Conductor's variables, given those of its client's.
LEMMA TypeStep ==
    TypeOK /\ Client!TypeOK' /\ [Next]_vars => TypeOK'
<1> SUFFICES ASSUME TypeOK, Client!TypeOK', [Next]_vars
             PROVE  /\ TalkTypes' /\ QueueTypes' /\ UiTypes'
                    /\ window' \in BOOLEAN
                    /\ boxes' \in Seq(Boxes)
                    /\ loop' \in {"first", "second", "exited"}
                    /\ died' \in BOOLEAN
  BY DEF TypeOK, TalkTypes, QueueTypes, UiTypes
<1>1. /\ TalkTypes /\ QueueTypes /\ UiTypes
      /\ window \in BOOLEAN
      /\ boxes \in Seq(Boxes)
      /\ loop \in {"first", "second", "exited"}
      /\ died \in BOOLEAN
      /\ peers \subseteq Ids /\ peers' \subseteq Ids
  BY DEF TypeOK, TalkTypes, QueueTypes, UiTypes, Client!TypeOK
<1>9. ASSUME NEW b \in Boxes, Show(b) PROVE boxes' \in Seq(Boxes)
  BY <1>1, <1>9, ShownBox DEF Show
<1>10. Boxes = {"nothing", "lookup", "message", "call", "connection"}
  BY DEF Boxes
<1>2. CASE UNCHANGED vars
  BY <1>1, <1>2 DEF vars, conductorVars, talkVars, uiVars, TalkTypes, QueueTypes, UiTypes
<1>3. CASE ClientEvent
  <2>0. UNCHANGED <<window, loop, died>>
    BY <1>3 DEF ClientEvent
  <2>1. /\ queue \o Woken \in Seq(ThreadMessages)
        /\ (queue \o Woken) \o <<"closed">> \in Seq(ThreadMessages)
        /\ (queue \o Woken) \o <<>> \in Seq(ThreadMessages)
    BY <1>1, WokenType, ShortQueues, JoinedQueues DEF QueueTypes
  <2>2. CASE OnDisconnected(Woken)
    BY <1>1, <2>0, <2>1, <2>2, Deleted DEF OnDisconnected, SwitchToConnectUI, UiTypes
  <2>3. ASSUME NEW p \in Ids, OnMessageFromPeer(p)
        PROVE  TalkTypes' /\ QueueTypes' /\ UiTypes' /\ boxes' \in Seq(Boxes)
    <3>1. CASE OpenConversation(p)
      <4>1. 0 \in 0..MaxOffers /\ FALSE \in BOOLEAN
        BY BoundsAssumption
      <4>2. TalkTypes'
        BY <3>1, <4>1, Handled DEF OpenConversation
      <4> QED
        BY <1>1, <2>3, <3>1, <4>2
      DEF OpenConversation, OnMessageFromPeer, SwitchToStreamingUI, QueueTypes, UiTypes
    <3>2. CASE ContinueConversation(p)
      BY <1>1, <2>3, <3>2, Handled
      DEF ContinueConversation, OnMessageFromPeer, TalkTypes, QueueTypes, UiTypes
    <3>3. CASE IgnoreThirdParty(p)
      BY <1>1, <2>3, <3>3 DEF IgnoreThirdParty, OnMessageFromPeer, talkVars, TalkTypes,
                              QueueTypes, UiTypes
    <3>4. CASE FailConversation(p)
      BY <1>1, <1>9, <1>10, <3>4 DEF FailConversation, TalkTypes, QueueTypes, UiTypes
    <3>5. CASE FailLoopback(p)
      BY <1>1, <3>5, Deleted DEF FailLoopback, SwitchToStreamingUI, QueueTypes, UiTypes
    <3> QED
      BY <2>3, <3>1, <3>2, <3>3, <3>4, <3>5 DEF OnMessageFromPeer
  <2>4. CASE OnNews(Woken)
    <3>1. queue' \in Seq(ThreadMessages)
      BY <2>1, <2>4 DEF OnNews
    <3>2. boxes' \in Seq(Boxes)
      BY <1>1, <1>9, <1>10, <2>4 DEF OnNews
    <3> QED
      BY <1>1, <2>0, <2>4, <3>1, <3>2
      DEF OnNews, SwitchToPeerList, talkVars, TalkTypes, QueueTypes, UiTypes
  <2> QED
    BY <1>1, <1>3, <2>0, <2>2, <2>3, <2>4 DEF ClientEvent
<1>11. CASE LookupFails
  BY <1>1, <1>9, <1>10, <1>11 DEF LookupFails, talkVars, TalkTypes, QueueTypes, UiTypes
<1>4. CASE OnSuccess \/ OnFailure \/ OnIceCandidate
  <2>1. Append(queue, "fresh") \in Seq(ThreadMessages)
    BY <1>1, AppendedMessage DEF QueueTypes, ThreadMessages, Messages
  <2>2. gathering' \in BOOLEAN
    BY <1>1, <1>4 DEF OnSuccess, OnFailure, OnIceCandidate, talkVars, TalkTypes
  <2>3. offers' \in 0..MaxOffers /\ queue' \in Seq(ThreadMessages)
    <3>1. offers' = offers \/ (offers > 0 /\ offers' = offers - 1)
      BY <1>4 DEF OnSuccess, OnFailure, OnIceCandidate, talkVars
    <3>2. queue' = queue \/ queue' = Append(queue, "fresh")
      BY <1>4 DEF OnSuccess, OnFailure, OnIceCandidate, SendMessage
    <3>3. offers' \in 0..MaxOffers
      <4>1. offers \in 0..MaxOffers
        BY <1>1 DEF TalkTypes
      <4> QED
        BY <3>1, <4>1, BoundsAssumption
    <3> QED
      BY <1>1, <2>1, <3>2, <3>3 DEF QueueTypes
  <2>4. UNCHANGED <<uiVars, peer_id, pc, loopback, pending, died>>
    BY <1>4 DEF OnSuccess, OnFailure, OnIceCandidate, talkVars
  <2> QED
    BY <1>1, <2>2, <2>3, <2>4 DEF uiVars, TalkTypes, QueueTypes, UiTypes
<1>5. CASE User
  <2>1. CASE StartLogin
    <3>1. boxes' \in Seq(Boxes)
      BY <1>1, <1>9, <1>10, <2>1 DEF StartLogin
    <3>2. UNCHANGED <<talkVars, ui, listed, window, loop, queue, pending, died>>
      BY <2>1 DEF StartLogin
    <3> QED
      BY <1>1, <3>1, <3>2 DEF talkVars, TalkTypes, QueueTypes, UiTypes
  <2>2. ASSUME NEW p \in Ids, ConnectToPeer(p)
        PROVE  /\ TalkTypes' /\ QueueTypes' /\ UiTypes' /\ window' = window
               /\ boxes' \in Seq(Boxes) /\ loop' = loop /\ died' \in BOOLEAN
    <3>1. boxes' \in Seq(Boxes)
      BY <1>1, <1>9, <1>10, <2>2 DEF ConnectToPeer
    <3>2. CASE UNCHANGED <<talkVars, ui, listed, queue, pending, died>>
      BY <1>1, <2>2, <3>1, <3>2 DEF ConnectToPeer, talkVars, TalkTypes, QueueTypes, UiTypes
    <3>3. CASE /\ Converse(p, 1, FALSE, FALSE) /\ SwitchToStreamingUI
               /\ UNCHANGED <<queue, pending, died>>
      <4>1. 0 \in 0..MaxOffers /\ 0 < MaxOffers /\ FALSE \in BOOLEAN /\ 0 + 1 = 1
        BY BoundsAssumption
      <4>2. TalkTypes'
        BY <3>3, <4>1, Handled DEF Handle
      <4> QED
        BY <1>1, <2>2, <3>1, <3>3, <4>2
        DEF ConnectToPeer, SwitchToStreamingUI, QueueTypes, UiTypes
    <3> QED
      BY <2>2, <3>2, <3>3 DEF ConnectToPeer
  <2>3. CASE Disconnect \/ Return
    BY <1>1, <1>9, <1>10, <2>3 DEF Disconnect, Return, conductorVars, talkVars, uiVars,
                                   TalkTypes, QueueTypes, UiTypes
  <2>4. CASE HangUp
    BY <1>1, <2>4, Deleted DEF HangUp, SwitchToPeerList, talkVars, TalkTypes, QueueTypes, UiTypes
  <2>5. CASE CloseWindow
    BY <1>1, <2>5, Deleted DEF CloseWindow, QueueTypes, UiTypes
  <2>6. CASE DismissBox
    <3>1. /\ Tail(boxes) \in Seq(Boxes)
          /\ <<"nothing">> \o Tail(boxes) \in Seq(Boxes)
      BY <1>1, <1>10, <2>6, DismissedBox, ShownBox DEF DismissBox
    <3>2. boxes' \in Seq(Boxes) /\ died' \in BOOLEAN
      BY <1>1, <2>6, <3>1 DEF DismissBox, AfterLookup, AfterMessage, AfterCall,
                              AfterConnection, AfterNothing
    <3>3. DeletePeerConnection(queue) \/ UNCHANGED <<talkVars, queue, pending>>
      BY <2>6 DEF DismissBox, AfterLookup, AfterMessage, AfterCall, AfterConnection,
                  AfterNothing
    <3>4. TalkTypes' /\ QueueTypes'
      BY <1>1, <3>3, Deleted DEF talkVars, TalkTypes, QueueTypes
    <3> QED
      BY <1>1, <2>6, <3>2, <3>4 DEF DismissBox, UiTypes
  <2> QED
    BY <1>1, <1>5, <2>1, <2>2, <2>3, <2>4, <2>5, <2>6 DEF User
<1>6. CASE UIThreadCallback
  <2>1. Head(queue) \in ThreadMessages /\ Tail(queue) \in Seq(ThreadMessages)
    BY <1>1, <1>6, RestOfQueue DEF UIThreadCallback, QueueTypes
  <2>2. CASE SendMessageToPeer
    <3>1. Waiting \in Seq(Messages)
      BY <1>1, <2>2, AppendedMessage DEF SendMessageToPeer, Waiting, QueueTypes, Messages
    <3>2. pending' \in Seq(Messages)
      BY <2>2, <3>1, RestOfQueue DEF SendMessageToPeer, SendPending
    <3> QED
      BY <1>1, <1>6, <2>1, <2>2, <3>2
      DEF UIThreadCallback, SendMessageToPeer, talkVars, TalkTypes, QueueTypes, UiTypes
  <2>3. CASE PeerConnectionClosed
    BY <1>1, <1>6, <2>1, <2>3, Deleted
    DEF UIThreadCallback, PeerConnectionClosed, SwitchToPeerList, SwitchToConnectUI, UiTypes
  <2> QED
    BY <1>6, <2>2, <2>3 DEF UIThreadCallback
<1>7. CASE LoseThreadMessage
  BY <1>1, <1>7, RestOfQueue DEF LoseThreadMessage, talkVars, uiVars, TalkTypes, QueueTypes, UiTypes
<1>8. CASE Quit \/ Exit \/ Ended
  BY <1>1, <1>8, <1>2 DEF Quit, Exit, Ended, talkVars, TalkTypes, QueueTypes, UiTypes
<1> QED
  BY <1>2, <1>3, <1>4, <1>5, <1>6, <1>7, <1>8, <1>11 DEF Next

\* In every reachable state every variable has its type.
THEOREM TypeCorrect == Spec => []TypeOK
<1>1. Proofs!TypeOK => Client!TypeOK
  BY DEF Proofs!TypeOK, Client!TypeOK, Proofs!States, Client!States, Proofs!Sockets,
         Client!Sockets, Proofs!Requests, Client!Requests, Proofs!Callbacks, Client!Callbacks
<1>2. Init /\ Client!TypeOK => TypeOK
  <2>1. Init => /\ offers \in 0..MaxOffers /\ queue \in Seq(ThreadMessages)
                /\ pending \in Seq(Messages) /\ boxes \in Seq(Boxes)
    BY BoundsAssumption, EmptySeq DEF Init
  <2>2. Init => /\ pc \in BOOLEAN /\ loopback \in BOOLEAN /\ gathering \in BOOLEAN
                /\ window \in BOOLEAN /\ died \in BOOLEAN
    BY DEF Init
  <2> QED
    BY <2>1, <2>2 DEF Init, TypeOK
<1> QED
  BY <1>1, <1>2, TypeStep, ClientInvariants, PTL DEF Spec

-----------------------------------------------------------------------------
(* The conversation owns its peer and its messages, in every environment.  *)

\* Besides that a conversation has a peer, and only a conversation or one that could
\* not be made (ConversationHasPeer), a message that is fresh belongs to the conversation
\* there is.
Own ==
    /\ ConversationHasPeer
    /\ Fresh(queue) \/ Fresh(pending) => pc

\* Every step keeps it.
LEMMA OwnStep == TypeOK /\ Own /\ [Next]_vars => Own'
<1> SUFFICES ASSUME TypeOK, Own, [Next]_vars
             PROVE  Own'
  OBVIOUS
<1> USE DEF Own, ConversationHasPeer
<1>1. /\ queue \in Seq(ThreadMessages) /\ pending \in Seq(Messages)
      /\ pc \in BOOLEAN /\ boxes \in Seq(Boxes)
      /\ Boxes = {"nothing", "lookup", "message", "call", "connection"}
      /\ \A p \in Ids : p # NoId
  BY ClientAssumption DEF TypeOK, Boxes
<1>2. ASSUME NEW q \in Seq(ThreadMessages), DeletePeerConnection(q)
      PROVE  Own'
  BY <1>2, Deleted
<1>3. ASSUME NEW p \in Ids, pc', peer_id' = p
      PROVE  Own'
  BY <1>1, <1>3
<1>11. (Failing <=> Fails(boxes)) /\ (Failing' <=> Fails(boxes'))
  BY DEF Failing, Fails
<1>12. ASSUME NEW x \in Boxes, Show(x)
       PROVE  Failing' <=> Failing \/ x \in {"message", "connection"}
  BY <1>1, <1>11, <1>12, ShownBox DEF Show
<1>4. CASE UNCHANGED <<peer_id, pc, queue, pending>> /\ (Failing => Failing')
  BY <1>4 DEF Fresh
<1>13. boxes' = boxes => (Failing => Failing')
  BY DEF Failing
<1>5. CASE ClientEvent
  <2>1. queue \o Woken \in Seq(ThreadMessages) /\ (Fresh(queue \o Woken) => Fresh(queue))
    BY <1>1, WokenType, JoinedQueues
  <2>2. CASE OnDisconnected(Woken)
    BY <1>2, <2>1, <2>2 DEF OnDisconnected
  <2>3. ASSUME NEW p \in Ids, OnMessageFromPeer(p)
        PROVE  Own'
    <3>1. CASE OpenConversation(p) \/ ContinueConversation(p)
      BY <1>3, <3>1 DEF OpenConversation, ContinueConversation, Handle, Converse
    <3>2. CASE IgnoreThirdParty(p)
      BY <1>4, <1>13, <3>2 DEF IgnoreThirdParty, talkVars
    <3>3. CASE FailConversation(p)
      <4>1. Failing'
        BY <1>1, <1>12, <3>3 DEF FailConversation
      <4>2. ~pc /\ ~pc' /\ UNCHANGED <<queue, pending>>
        BY <3>3 DEF FailConversation
      <4> QED
        BY <4>1, <4>2
    <3>4. CASE FailLoopback(p)
      BY <1>1, <1>2, <3>4 DEF FailLoopback
    <3> QED
      BY <2>3, <3>1, <3>2, <3>3, <3>4 DEF OnMessageFromPeer
  <2>4. CASE OnNews(Woken)
    <3>1. Fresh(queue') => Fresh(queue)
      BY <2>1, <2>4, ShortQueues, JoinedQueues DEF OnNews
    <3>2. Failing => Failing'
      BY <1>1, <1>12, <1>13, <2>4 DEF OnNews
    <3> QED
      BY <2>4, <3>1, <3>2 DEF OnNews, talkVars
  <2> QED
    BY <1>5, <2>2, <2>3, <2>4 DEF ClientEvent
<1>14. CASE LookupFails
  BY <1>1, <1>4, <1>12, <1>14 DEF LookupFails, talkVars
<1>6. CASE OnSuccess \/ OnFailure \/ OnIceCandidate
  <2>1. pc /\ pc' = pc /\ peer_id' = peer_id
    BY <1>6 DEF OnSuccess, OnFailure, OnIceCandidate, talkVars
  <2> QED
    BY <2>1
<1>7. CASE User
  <2>1. CASE StartLogin \/ Disconnect \/ Return
    <3>1. Failing => Failing'
      BY <1>1, <1>12, <1>13, <2>1 DEF StartLogin, Disconnect, Return, conductorVars, uiVars
    <3> QED
      BY <1>4, <2>1, <3>1 DEF StartLogin, Disconnect, Return, conductorVars, talkVars
  <2>2. ASSUME NEW p \in Ids, ConnectToPeer(p)
        PROVE  Own'
    <3>1. CASE Converse(p, 1, FALSE, FALSE)
      BY <1>3, <3>1 DEF Converse
    <3>2. CASE UNCHANGED talkVars
      <4>1. Failing => Failing'
        BY <2>2, NoBox DEF ConnectToPeer, UserMay
      <4> QED
        BY <1>4, <2>2, <3>2, <4>1 DEF ConnectToPeer, talkVars
    <3> QED
      BY <2>2, <3>1, <3>2 DEF ConnectToPeer
  <2>3. CASE HangUp
    BY <1>1, <1>2, <1>4, <1>13, <2>3 DEF HangUp, talkVars
  <2>4. CASE CloseWindow
    BY <1>1, <1>2, <2>4 DEF CloseWindow
  <2>5. CASE DismissBox
    <3>1. /\ Head(boxes) \in Boxes
          /\ Failing <=> Fails(Tail(boxes)) \/ Head(boxes) \in {"message", "connection"}
      BY <1>1, <1>11, <2>5, DismissedBox DEF DismissBox
    <3>2. CASE AfterLookup /\ Head(boxes) = "lookup"
      BY <1>4, <1>11, <3>1, <3>2 DEF AfterLookup, talkVars
    <3>3. CASE AfterNothing /\ Head(boxes) = "nothing"
      BY <1>4, <1>11, <3>1, <3>3 DEF AfterNothing, talkVars
    <3>4. CASE AfterMessage \/ AfterCall \/ AfterConnection
      BY <1>1, <1>2, <3>4 DEF AfterMessage, AfterCall, AfterConnection
    <3> QED
      BY <2>5, <3>2, <3>3, <3>4 DEF DismissBox
  <2> QED
    BY <1>7, <2>1, <2>2, <2>3, <2>4, <2>5 DEF User
<1>8. CASE UIThreadCallback
  <2>1. /\ Head(queue) \in ThreadMessages /\ Tail(queue) \in Seq(ThreadMessages)
        /\ Fresh(Tail(queue)) => Fresh(queue)
        /\ Head(queue) = "fresh" => Fresh(queue)
    BY <1>1, <1>8, RestOfQueue DEF UIThreadCallback
  <2>2. CASE SendMessageToPeer
    <3>1. Waiting \in Seq(Messages) /\ (Fresh(Waiting) => Fresh(pending) \/ Fresh(queue))
      BY <1>1, <2>1, <2>2, AppendedMessage DEF SendMessageToPeer, Waiting, Messages
    <3>2. Fresh(pending') => Fresh(Waiting)
      BY <2>2, <3>1, RestOfQueue DEF SendMessageToPeer, SendPending
    <3> QED
      BY <1>8, <1>13, <2>1, <2>2, <3>1, <3>2 DEF UIThreadCallback, SendMessageToPeer, talkVars
  <2>3. CASE PeerConnectionClosed
    BY <1>2, <2>1, <2>3 DEF PeerConnectionClosed
  <2> QED
    BY <1>8, <2>2, <2>3 DEF UIThreadCallback
<1>9. CASE LoseThreadMessage
  BY <1>1, <1>9, <1>13, RestOfQueue DEF LoseThreadMessage, talkVars, uiVars
<1>10. CASE Quit \/ Exit \/ Ended \/ UNCHANGED vars
  BY <1>4, <1>10, <1>13 DEF Quit, Exit, Ended, vars, conductorVars, talkVars, uiVars
<1> QED
  BY <1>5, <1>6, <1>7, <1>8, <1>9, <1>10, <1>14 DEF Next

\* A conversation has its peer, and no message is fresh without one, in every
\* environment.
LEMMA OwnInvariance == Spec => []Own
<1>1. Init => Own
  BY ShortQueues DEF Init, Own, ConversationHasPeer
<1> QED
  BY <1>1, OwnStep, TypeCorrect, PTL DEF Spec

\* A conversation has a peer; without one there is a peer only while the box of a message
\* that could not open one is shown, whatever goes wrong and whatever happens under boxes.
THEOREM PeerOfConversation == Spec => []ConversationHasPeer
<1>1. Own => ConversationHasPeer
  BY DEF Own
<1> QED
  BY <1>1, OwnInvariance, PTL

-----------------------------------------------------------------------------
(* What the client does where no connection is refused, no answer comes in *)
(* parts, names resolve and Connect does not fail at once.                 *)

Reliable == Faults \subseteq {"drop", "losepoll", "error", "keepopen"}

\* What the Conductor relies on, of what is proved of the client.
ClientInv ==
    /\ retries = 0
    /\ control_data = "empty"
    /\ ~modal
    /\ state = "CONNECTED" => my_id # NoId /\ hanging \in {"connecting", "connected"}
    /\ hanging \in {"connecting", "connected"} => my_id # NoId /\ state = "CONNECTED"
    /\ my_id = NoId => asked \in {"none", "sign_in"}
    /\ resolver = "running" => my_id = NoId /\ state \in {"RESOLVING", "SIGNING_OUT"}
    /\ state \in {"RESOLVING", "SIGNING_IN"} => my_id = NoId
    /\ state \in {"NOT_CONNECTED", "RESOLVING"} => control \in {"null", "closed"}

\* It is part of the client's inductive invariant.
LEMMA ClientIsReliable == Reliable /\ Proofs!IInv => ClientInv
  BY DEF Reliable, ClientInv, Proofs!IInv, Proofs!AnyFaults, Proofs!WholeAnswers,
         Proofs!SureDials, Proofs!SureLookups, Proofs!SureAttempts,
         Proofs!AnonymousExchange, Proofs!ConnectedHasId, Proofs!PollOutstanding,
         Proofs!PollOnlyWhenConnected

TellsOf(cb) == \E p \in Ids : Client!Call(cb, p) \in told'
SignedIn == Client!Call("OnSignedIn", NoId) \in told'

\* What an event of the client does to the session, and what it tells of it.
EventFacts ==
    /\ Client!Failure \notin told'
    /\ state' \in {"RESOLVING", "SIGNING_IN"} =>
          \/ state \in {"RESOLVING", "SIGNING_IN"}
          \/ state = "SIGNING_OUT" /\ my_id = NoId
    /\ state' \in {"SIGNING_OUT", "SIGNING_OUT_WAITING"} =>
          my_id' # NoId \/ (my_id = NoId /\ state' = state)
    /\ SignedIn => /\ my_id = NoId
                   /\ state \in {"SIGNING_IN", "SIGNING_OUT", "SIGNING_OUT_WAITING"}
                   /\ state' \notin {"RESOLVING", "SIGNING_IN"}
    /\ state' = "CONNECTED" => my_id' # NoId /\ (state = "CONNECTED" \/ SignedIn)
    /\ my_id' # NoId /\ ~SignedIn =>
          /\ my_id' = my_id
          /\ peers' = peers \/ TellsOf("OnPeerConnected") \/ TellsOf("OnPeerDisconnected")
    /\ TellsOf("OnMessageFromPeer") =>
          /\ state = "CONNECTED" /\ my_id # NoId
          /\ peers' = peers /\ my_id' = my_id
          /\ state' \in {"CONNECTED", "SIGNING_OUT", "SIGNING_OUT_WAITING"}
          /\ state' = "CONNECTED" => control' = control
    /\ state' = "CONNECTED" /\ control' = "closed" =>
          Client!MessageSent \in told' \/ (state = "CONNECTED" /\ control = "closed")
    /\ Client!Disconnected \in told' => state' = "NOT_CONNECTED" /\ my_id' = NoId

\* They hold of every event.
LEMMA Events ==
    ASSUME Reliable, ClientInv, state \in Client!States,
           Client!Resolved \/ Client!OnMessage \/ Client!ControlEvent \/ Client!HangingGetEvent
    PROVE  EventFacts
<1> USE DEF EventFacts, TellsOf, SignedIn, ClientInv, Reliable, Client!Call,
            Client!Failure, Client!MessageSent, Client!Disconnected, Client!ReturnedFalse
<1>1. CASE Client!Resolved
  BY <1>1 DEF Client!Resolved, Client!DoConnect, Client!Dial, Client!DialFails
<1>2. CASE Client!OnMessage
  BY <1>2 DEF Client!OnMessage
<1>3. CASE Client!OnConnect \/ Client!OnReadPart \/ Client!ControlRefused
  BY <1>3 DEF Client!OnConnect, Client!OnReadPart, Client!ControlRefused
<1>4. CASE Client!ControlClosed
  BY <1>4 DEF Client!ControlClosed
<1>5. ASSUME NEW closes, Client!OnRead(closes)
      PROVE  EventFacts
  <2>1. CASE Client!CloseSession /\ told' = Client!SentBy(closes) \cup {Client!Disconnected}
    BY <2>1 DEF Client!CloseSession, Client!SentBy
  <2>2. ASSUME NEW id \in Client!PragmaIds, NEW list \in SUBSET Ids,
               my_id = NoId, my_id' = id, control' = Client!Answered(closes),
               told' = Client!SentBy(closes)
                         \cup {Client!Call("OnPeerConnected", p) : p \in list \ {id}}
                         \cup {Client!Call("OnSignedIn", NoId)},
               Client!StartWaiting
        PROVE  EventFacts
    <3>1. asked = "sign_in" /\ control = "connected"
      BY <1>5, <2>2 DEF Client!OnRead
    <3>2. my_id' # NoId
      BY <2>2, <3>1, ClientAssumption DEF Client!PragmaIds
    <3>3. /\ SignedIn /\ ~TellsOf("OnMessageFromPeer")
          /\ Client!Failure \notin told' /\ Client!Disconnected \notin told'
      BY <2>2 DEF Client!SentBy
    <3>4. control' = "closed" => Client!MessageSent \in told'
      BY <2>2 DEF Client!SentBy, Client!Answered
    <3>5. state \in {"SIGNING_IN", "SIGNING_OUT", "SIGNING_OUT_WAITING"}
      BY <2>2, <3>1 DEF Client!States
    <3>6. state' = "CONNECTED" \/ (state' = state /\ state # "SIGNING_IN")
      BY <2>2 DEF Client!StartWaiting
    <3> QED
      BY <2>2, <3>2, <3>3, <3>4, <3>5, <3>6
  <2>3. CASE my_id # NoId /\ state = "SIGNING_OUT_WAITING" /\ told' = Client!SentBy(closes)
    BY <1>5, <2>3 DEF Client!OnRead, Client!CloseSession, Client!SignOutStarts,
                      Client!SignOutFails, Client!Dial, Client!DialFails,
                      Client!Answered, Client!SentBy
  <2>4. CASE /\ my_id # NoId /\ state \notin {"SIGNING_OUT", "SIGNING_OUT_WAITING"}
             /\ told' = Client!SentBy(closes)
    BY <1>5, <2>4 DEF Client!OnRead, Client!Answered, Client!SentBy, Client!StartWaiting
  <2> QED
    BY <1>5, <2>1, <2>2, <2>3, <2>4 DEF Client!OnRead
<1>6. CASE Client!OnHangingGetConnect \/ Client!OnHangingGetReadPart
             \/ Client!HangingGetRefused \/ Client!HangingGetClosed
  BY <1>6 DEF Client!OnHangingGetConnect, Client!OnHangingGetReadPart,
              Client!HangingGetRefused, Client!HangingGetClosed
<1>7. ASSUME NEW closes, Client!OnHangingGetRead(closes)
      PROVE  EventFacts
  <2>1. CASE Client!CloseSession /\ told' = {Client!Disconnected}
    BY <2>1 DEF Client!CloseSession
  <2>2. CASE Client!OnNotification(closes)
    BY <1>7, <2>2 DEF Client!OnHangingGetRead, Client!OnNotification
  <2>3. CASE Client!OnMessageFromPeer(closes)
    BY <1>7, <2>3 DEF Client!OnHangingGetRead, Client!OnMessageFromPeer,
                      Client!SignOutStarts, Client!SignOutFails, Client!Dial, Client!DialFails
  <2> QED
    BY <1>7, <2>1, <2>2, <2>3 DEF Client!OnHangingGetRead
<1> QED
  BY <1>1, <1>2, <1>3, <1>4, <1>5, <1>6, <1>7 DEF Client!ControlEvent, Client!HangingGetEvent

\* Signing out keeps the session until the server has answered.
LEMMA SignOutFacts ==
    ASSUME Reliable, SignOut
    PROVE  /\ my_id' = my_id /\ peers' = peers
           /\ state' = state \/ state' \in {"SIGNING_OUT", "SIGNING_OUT_WAITING"}
           /\ state' = "CONNECTED" => state = "CONNECTED" /\ hanging = "null"
           /\ state' = "CONNECTED" => control' = control
  BY DEF Reliable, SignOut, clientVars, Client!SignOut, Client!SignOutStarts,
         Client!SignOutFails, Client!Dial, Client!DialFails

\* Sending occupies an idle control socket, and ends the session on a busy one.
LEMMA SendFacts ==
    ASSUME Reliable, Client!SendToPeer
    PROVE  \/ /\ control = "closed" /\ control' = "connecting"
              /\ my_id' = my_id /\ peers' = peers /\ state' = state
           \/ /\ control # "closed"
              /\ my_id' = NoId /\ state' = "NOT_CONNECTED"
  BY DEF Reliable, Client!SendToPeer, Client!Dial, Client!DialFails, Client!CloseSession

-----------------------------------------------------------------------------
(* What the window shows.                                                  *)

\* While the window exists: a session is sought from the connect dialog only, and not
\* under the box of a message that failed, a client that signs out has an id, and what is
\* shown is so.
Page ==
    Reliable /\ window =>
        /\ ui # "CONNECT_TO_SERVER" \/ Failing => state \notin {"RESOLVING", "SIGNING_IN"}
        /\ state \in {"SIGNING_OUT", "SIGNING_OUT_WAITING"} => my_id # NoId
        /\ ConversationIsShown
        /\ ListIsCurrent

\* Every step keeps it.
LEMMA PageStep ==
    ASSUME TypeOK, Own, ClientInv, Page, [Next]_vars
    PROVE  Page'
<1> SUFFICES ASSUME Reliable, window' PROVE Page'
  BY DEF Page
<1> USE DEF Page, ConversationIsShown, ListIsCurrent
<1>1. /\ window
      /\ \A p \in Ids : p # NoId
      /\ state \in Client!States
      /\ ui \in {"CONNECT_TO_SERVER", "LIST_PEERS", "STREAMING"}
      /\ queue \in Seq(ThreadMessages) /\ boxes \in Seq(Boxes)
      /\ Boxes = {"nothing", "lookup", "message", "call", "connection"}
  <2>1. window' => window
    BY DEF Next, vars, conductorVars, uiVars, ClientEvent, LookupFails, OnSuccess, OnFailure,
           OnIceCandidate, User, StartLogin, ConnectToPeer, Disconnect, HangUp, Return,
           CloseWindow, DismissBox, UIThreadCallback, LoseThreadMessage, Quit, Exit, Ended
  <2> QED
    BY <2>1, ClientAssumption DEF TypeOK, Client!TypeOK, Boxes
<1>13. (Failing <=> Fails(boxes)) /\ (Failing' <=> Fails(boxes'))
  BY DEF Failing, Fails
<1>14. ASSUME NEW x \in Boxes, Show(x)
       PROVE  Failing' <=> Failing \/ x \in {"message", "connection"}
  BY <1>1, <1>13, <1>14, ShownBox DEF Show
<1>15. boxes' = boxes => (Failing <=> Failing')
  BY <1>13
<1>2. ASSUME NEW q, DeletePeerConnection(q)
      PROVE  ~pc' /\ ConversationIsShown'
  BY <1>2 DEF DeletePeerConnection
<1>3. CASE UNCHANGED <<clientVars, pc, ui, listed, died>> /\ (Failing <=> Failing')
  BY <1>1, <1>3 DEF clientVars
<1>4. CASE ClientEvent
  <2>1. EventFacts
    BY <1>1, <1>4, Events DEF ClientEvent
  <2>5. died' = died
    BY <1>4 DEF ClientEvent
  <2>2. CASE OnDisconnected(Woken) /\ Client!Disconnected \in told'
    BY <1>1, <1>2, <2>1, <2>2 DEF EventFacts, OnDisconnected, SwitchToConnectUI
  <2>3. ASSUME NEW p \in Ids, Heard(p), OnMessageFromPeer(p)
        PROVE  Page'
    <3>1. /\ state = "CONNECTED" /\ my_id # NoId
          /\ peers' = peers /\ my_id' = my_id
          /\ state' \in {"CONNECTED", "SIGNING_OUT", "SIGNING_OUT_WAITING"}
      BY <2>1, <2>3 DEF EventFacts, TellsOf, Heard
    <3>2. CASE OpenConversation(p)
      BY <1>1, <1>15, <3>1, <3>2 DEF OpenConversation, SwitchToStreamingUI
    <3>3. CASE ContinueConversation(p)
      BY <1>1, <1>15, <2>5, <3>1, <3>3 DEF ContinueConversation
    <3>4. CASE IgnoreThirdParty(p)
      BY <1>1, <1>15, <2>5, <3>1, <3>4 DEF IgnoreThirdParty, talkVars
    <3>5. CASE FailConversation(p)
      <4>1. Failing'
        BY <1>1, <1>14, <3>5 DEF FailConversation
      <4> QED
        BY <1>1, <3>1, <3>5, <4>1 DEF FailConversation
    <3>6. CASE FailLoopback(p)
      <4>1. ~pc' /\ state' \notin {"CONNECTED", "RESOLVING", "SIGNING_IN"}
        BY <1>2, <3>1, <3>6 DEF FailLoopback
      <4> QED
        BY <1>1, <3>1, <4>1
    <3> QED
      BY <2>3, <3>2, <3>3, <3>4, <3>5, <3>6 DEF OnMessageFromPeer
  <2>4. CASE OnNews(Woken)
    <3>1. pc' = pc /\ boxes' = boxes /\ (Failing <=> Failing')
      BY <1>15, <2>1, <2>4 DEF EventFacts, OnNews, talkVars
    <3>2. CASE SignedIn
      <4>1. ui = "CONNECT_TO_SERVER" /\ ~pc
        BY <1>1, <2>1, <3>2 DEF EventFacts
      <4>2. SwitchToPeerList(peers')
        BY <2>4, <3>2 DEF OnNews, SignedIn
      <4> QED
        BY <1>1, <2>1, <3>1, <3>2, <4>1, <4>2 DEF EventFacts, SwitchToPeerList
    <3>3. CASE ~SignedIn
      <4>1. ui' = ui
        BY <2>4, <3>3 DEF OnNews, SwitchToPeerList, SignedIn
      <4>2. listed' = listed \/ listed' = peers'
        BY <2>4 DEF OnNews, SwitchToPeerList
      <4>3. ASSUME ui = "LIST_PEERS", state' = "CONNECTED", peers' # peers, ~Failing'
            PROVE  listed' = peers'
        <5>1. TellsOf("OnPeerConnected") \/ TellsOf("OnPeerDisconnected")
          <6>1. my_id' # NoId
            BY <2>1, <4>3 DEF EventFacts
          <6> QED
            BY <2>1, <3>3, <4>3, <6>1 DEF EventFacts
        <5>2. peer_id = NoId
          BY <1>1, <3>1, <4>3 DEF Own, ConversationHasPeer, TypeOK
        <5> QED
          BY <1>1, <2>4, <4>3, <5>1, <5>2 DEF OnNews, TellsOf, SwitchToPeerList
      <4> QED
        BY <1>1, <2>1, <2>5, <3>1, <3>3, <4>1, <4>2, <4>3 DEF EventFacts
    <3> QED
      BY <3>2, <3>3
  <2> QED
    BY <1>4, <2>2, <2>3, <2>4 DEF ClientEvent
<1>5. CASE OnSuccess \/ OnFailure \/ OnIceCandidate
  BY <1>3, <1>5, <1>15 DEF OnSuccess, OnFailure, OnIceCandidate, talkVars, uiVars
<1>16. CASE Return
  BY <1>1, <1>3, <1>14, <1>16 DEF Return, talkVars
<1>17. CASE LookupFails
  BY <1>17 DEF LookupFails, Client!ResolveError, Reliable
<1>18. CASE DismissBox
  <2>1. UNCHANGED <<ui, listed>> /\ boxes # <<>>
    BY <1>18 DEF DismissBox
  <2>2. /\ Head(boxes) \in Boxes
        /\ Failing <=> Fails(Tail(boxes)) \/ Head(boxes) \in {"message", "connection"}
        /\ Fails(<<"nothing">> \o Tail(boxes)) <=> Fails(Tail(boxes))
    BY <1>1, <1>13, <2>1, DismissedBox, ShownBox
  <2>3. CASE AfterLookup
    BY <2>3 DEF AfterLookup, Client!ResolveFailed, ClientInv
  <2>4. CASE AfterNothing /\ Head(boxes) = "nothing"
    BY <1>3, <1>13, <2>1, <2>2, <2>4 DEF AfterNothing, talkVars
  <2>5. CASE AfterMessage /\ Head(boxes) = "message"
    <3>1. ~pc' /\ (Failing' => Failing) /\ Failing
      BY <1>2, <1>13, <2>2, <2>5 DEF AfterMessage
    <3>2. /\ my_id' = my_id /\ state' # "CONNECTED"
          /\ state' = state \/ state' \in {"SIGNING_OUT", "SIGNING_OUT_WAITING"}
          /\ state' = state \/ state \notin {"NOT_CONNECTED", "SIGNING_OUT"}
      BY <2>5, SignOutFacts DEF AfterMessage, ClientInv, SignOut, clientVars
    <3>3. state' \in {"SIGNING_OUT", "SIGNING_OUT_WAITING"} => my_id' # NoId
      BY <1>1, <3>1, <3>2 DEF Client!States, ClientInv
    <3> QED
      BY <1>1, <2>1, <3>1, <3>2, <3>3
  <2>6. CASE AfterCall /\ Head(boxes) = "call"
    <3>1. ~pc' /\ (Failing <=> Failing') /\ UNCHANGED <<clientVars, died>>
      BY <1>2, <1>13, <2>2, <2>6 DEF AfterCall
    <3> QED
      BY <1>1, <2>1, <3>1 DEF clientVars
  <2>7. CASE AfterConnection
    <3>1. ~pc' /\ died' /\ UNCHANGED clientVars /\ (Failing' => Failing)
      BY <1>2, <1>13, <2>2, <2>7 DEF AfterConnection
    <3> QED
      BY <1>1, <2>1, <3>1 DEF clientVars
  <2> QED
    BY <1>18, <2>3, <2>4, <2>5, <2>6, <2>7 DEF DismissBox
<1>6. CASE StartLogin
  <2>1. ui = "CONNECT_TO_SERVER" /\ ui' = ui /\ pc' = pc /\ ~Failing'
    BY <1>1, <1>6, <1>14, <1>15, NoBox DEF StartLogin, UserMay, talkVars
  <2>2. state' \in {"SIGNING_OUT", "SIGNING_OUT_WAITING"} => state' = state /\ my_id' = my_id
    BY <1>6 DEF StartLogin, Client!ConnectBusy, Client!ConnectEmpty, Client!ConnectByName, Client!ConnectByAddress,
                Client!DoConnect, Client!Dial, Client!DialFails, Client!CloseSession
  <2> QED
    BY <1>1, <2>1, <2>2
<1>7. ASSUME NEW p \in Ids, ConnectToPeer(p)
      PROVE  Page'
  <2>1. ui = "LIST_PEERS" /\ ~Failing /\ UNCHANGED <<clientVars, died>>
    BY <1>7, NoBox DEF ConnectToPeer, UserMay
  <2>2. CASE SwitchToStreamingUI
    BY <1>1, <2>1, <2>2 DEF SwitchToStreamingUI, clientVars
  <2>3. CASE UNCHANGED <<talkVars, ui, listed>>
    BY <1>1, <2>1, <2>3 DEF talkVars, clientVars
  <2> QED
    BY <1>7, <2>2, <2>3 DEF ConnectToPeer
<1>8. CASE Disconnect
  <2>1. UNCHANGED <<pc, ui, listed, died>> /\ (Failing <=> Failing')
    BY <1>8, <1>15 DEF Disconnect, conductorVars, talkVars, uiVars
  <2>2. UNCHANGED clientVars \/ (my_id # NoId /\ SignOut)
    BY <1>8 DEF Disconnect, DisconnectFromServer
  <2> QED
    BY <1>1, <1>3, <2>1, <2>2, SignOutFacts
<1>9. CASE HangUp
  <2>1. \/ state' = state /\ my_id' = my_id
        \/ state' = "NOT_CONNECTED"
    BY <1>9, SendFacts DEF HangUp, clientVars
  <2>2. ~pc'
    BY <1>9, <1>2 DEF HangUp, talkVars
  <2> QED
    BY <1>1, <1>9, <1>15, <2>1, <2>2 DEF HangUp, SwitchToPeerList
<1>10. CASE CloseWindow
  BY <1>10 DEF CloseWindow
<1>11. CASE UIThreadCallback
  <2>3. died' = died /\ (Failing <=> Failing')
    BY <1>11, <1>15 DEF UIThreadCallback
  <2>1. CASE SendMessageToPeer
    <3>1. UNCHANGED <<pc, ui, listed>>
      BY <2>1 DEF SendMessageToPeer, talkVars
    <3>2. \/ UNCHANGED clientVars
          \/ Client!SendToPeer
          \/ my_id # NoId /\ SignOut
      BY <2>1 DEF SendMessageToPeer, SendPending, DisconnectFromServer
    <3> QED
      BY <1>1, <1>3, <2>3, <3>1, <3>2, SendFacts, SignOutFacts
  <2>2. CASE PeerConnectionClosed
    <3>1. ~pc'
      BY <2>2, <1>2 DEF PeerConnectionClosed
    <3> QED
      BY <1>1, <2>2, <2>3, <3>1
      DEF PeerConnectionClosed, SwitchToPeerList, SwitchToConnectUI, clientVars, ClientInv
  <2> QED
    BY <1>11, <2>1, <2>2 DEF UIThreadCallback
<1>12. CASE LoseThreadMessage \/ Quit \/ Exit \/ Ended \/ UNCHANGED vars
  BY <1>3, <1>12, <1>15
  DEF LoseThreadMessage, Quit, Exit, Ended, vars, conductorVars, talkVars, uiVars
<1> QED
  BY <1>4, <1>5, <1>6, <1>7, <1>8, <1>9, <1>10, <1>11, <1>12, <1>16, <1>17, <1>18
  DEF Next, User

-----------------------------------------------------------------------------
(* What waits is sent.                                                     *)

\* As long as nobody opens a message box in a conversation, which would throw away
\* the thread messages: no box is open while a message waits, and no wakeup is lost.
Wake ==
    Reliable /\ "return" \notin Upsets =>
        /\ Fresh(pending) => boxes = <<>>
        /\ NoLostWakeup

\* Without a fresh message that waits, nothing is asked for.
LEMMA NothingWaits == ~Fresh(pending') => Wake'
  BY DEF Wake, NoLostWakeup, Fresh

\* Every step keeps it.
LEMMA WakeStep ==
    ASSUME TypeOK, Own, ClientInv, Page, Wake, [Next]_vars
    PROVE  Wake'
<1> SUFFICES ASSUME Reliable, "return" \notin Upsets, Fresh(pending')
             PROVE  /\ boxes' = <<>>
                    /\ state' = "CONNECTED" /\ control' = "closed" => Wakes(queue')
  BY DEF Wake, NoLostWakeup, Fresh, Wakes
<1>1. /\ queue \in Seq(ThreadMessages) /\ pending \in Seq(Messages)
      /\ boxes \in Seq(Boxes)
      /\ state \in Client!States
  BY DEF TypeOK, Client!TypeOK
<1>2. ASSUME Fresh(pending)
      PROVE  /\ pc /\ boxes = <<>>
             /\ state = "CONNECTED" /\ control = "closed" => Wakes(queue)
  BY <1>2 DEF Own, Wake, NoLostWakeup, Fresh, Wakes
<1>3. ASSUME NEW q \in Seq(ThreadMessages)
      PROVE  ~DeletePeerConnection(q)
  BY <1>3, Deleted
<1>4. CASE /\ pending' = pending /\ queue' = queue /\ boxes' = boxes
           /\ state' = "CONNECTED" /\ control' = "closed" =>
                 state = "CONNECTED" /\ control = "closed"
  BY <1>2, <1>4
<1>5. CASE ClientEvent
  <2>1. EventFacts
    BY <1>1, <1>5, Events DEF ClientEvent
  <2>2. queue \o Woken \in Seq(ThreadMessages)
    BY <1>1, WokenType, JoinedQueues
  <2>3. CASE OnDisconnected(Woken)
    BY <1>3, <2>2, <2>3 DEF OnDisconnected
  <2>4. ASSUME NEW p \in Ids, Heard(p), OnMessageFromPeer(p)
        PROVE  /\ pending' = pending /\ queue' = queue /\ boxes' = boxes
               /\ state' = "CONNECTED" /\ control' = "closed" =>
                     state = "CONNECTED" /\ control = "closed"
    <3>1. ~FailConversation(p)
      BY <1>2 DEF FailConversation
    <3>2. boxes' = boxes /\ queue' = queue /\ pending' = pending
      BY <1>1, <1>3, <2>4, <3>1
      DEF OnMessageFromPeer, OpenConversation, ContinueConversation, IgnoreThirdParty,
          FailLoopback
    <3> QED
      BY <2>1, <2>4, <3>2 DEF EventFacts, TellsOf, Heard
  <2>5. CASE OnNews(Woken)
    <3>1. pending' = pending /\ boxes' = boxes
      BY <2>1, <2>5 DEF OnNews, EventFacts
    <3>2. PICK rest \in Seq(ThreadMessages) : queue' = (queue \o Woken) \o rest
      BY <2>5, ShortQueues DEF OnNews
    <3>3. Wakes(queue) \/ Wakes(Woken) => Wakes(queue')
      BY <1>1, <2>2, <3>2, WokenType, JoinedQueues
    <3>4. Client!MessageSent \in told' => Wakes(Woken)
      BY ShortQueues DEF Woken
    <3> QED
      BY <1>2, <2>1, <3>1, <3>3, <3>4 DEF EventFacts
  <2> QED
    BY <1>4, <1>5, <2>3, <2>4, <2>5 DEF ClientEvent
<1>6. CASE OnSuccess \/ OnFailure \/ OnIceCandidate
  <2>1. UNCHANGED <<clientVars, boxes, pending>>
    BY <1>6 DEF OnSuccess, OnFailure, OnIceCandidate, uiVars
  <2>2. queue' = queue \/ queue' = Append(queue, "fresh")
    BY <1>6 DEF OnSuccess, OnFailure, OnIceCandidate, SendMessage
  <2>3. Wakes(queue) => Wakes(queue')
    BY <1>1, <2>2, AppendedMessage DEF ThreadMessages, Messages
  <2> QED
    BY <1>2, <2>1, <2>3 DEF clientVars
<1>7. CASE StartLogin
  <2>1. window /\ ui = "CONNECT_TO_SERVER" /\ pending' = pending
    BY <1>7 DEF StartLogin, UserMay
  <2>2. ~pc
    BY <2>1 DEF Page, ConversationIsShown
  <2> QED
    BY <1>2, <2>1, <2>2
<1>8. ASSUME NEW p \in Ids, ConnectToPeer(p)
      PROVE  FALSE
  <2>1. window /\ ui = "LIST_PEERS"
    BY <1>8 DEF ConnectToPeer, UserMay
  <2>2. ~pc
    BY <2>1 DEF Page, ConversationIsShown
  <2>3. pending' = pending
    BY <1>8 DEF ConnectToPeer
  <2> QED
    BY <1>2, <2>2, <2>3
<1>9. CASE Disconnect
  <2>1. pending' = pending /\ queue' = queue /\ boxes' = boxes
    BY <1>9 DEF Disconnect, conductorVars, uiVars
  <2> QED
    BY <1>4, <1>9, <2>1, SignOutFacts DEF Disconnect, DisconnectFromServer, clientVars
<1>10. CASE HangUp
  <2>1. UNCHANGED <<clientVars, queue, pending, boxes>>
    BY <1>1, <1>3, <1>10 DEF HangUp
  <2> QED
    BY <1>4, <2>1 DEF clientVars
<1>11. CASE CloseWindow
  BY <1>1, <1>3, <1>11 DEF CloseWindow
<1>12. CASE Return
  BY <1>12 DEF Return
<1>13. CASE DismissBox \/ LoseThreadMessage
  <2>1. boxes # <<>> /\ (pending' = pending \/ DeletePeerConnection(queue))
    BY <1>13 DEF DismissBox, LoseThreadMessage, AfterLookup, AfterMessage, AfterCall,
                 AfterConnection, AfterNothing
  <2> QED
    BY <1>1, <1>2, <1>3, <2>1
<1>16. CASE LookupFails
  BY <1>16 DEF LookupFails, Client!ResolveError, Reliable
<1>14. CASE UIThreadCallback
  <2>1. /\ boxes = <<>> /\ boxes' = boxes /\ queue # <<>>
        /\ Head(queue) \in ThreadMessages /\ Tail(queue) \in Seq(ThreadMessages)
        /\ Head(queue) = "fresh" => Fresh(queue)
    BY <1>1, <1>14, RestOfQueue DEF UIThreadCallback
  <2>2. CASE SendMessageToPeer
    <3>1. Waiting \in Seq(Messages) /\ (Fresh(Waiting) => pc)
      BY <1>1, <2>1, <2>2, AppendedMessage DEF SendMessageToPeer, Waiting, Messages, Own
    <3>2. Waiting # <<>>
      <4>1. ~Fresh(<<>>)
        BY ShortQueues
      <4> QED
        BY <2>2, <4>1 DEF SendMessageToPeer, SendPending
    <3>3. CASE IsSendingMessage /\ UNCHANGED clientVars
      BY <2>1, <3>3 DEF IsSendingMessage, clientVars
    <3>4. CASE ~IsSendingMessage /\ pending' = Tail(Waiting)
      <4>1. pc
        BY <3>1, <3>2, <3>4, RestOfQueue
      <4>2. peer_id # NoId
        BY <4>1 DEF Own, ConversationHasPeer
      <4>3. CASE Client!SendToPeer
        BY <2>1, <4>3, SendFacts
      <4>4. CASE (state # "CONNECTED" \/ my_id = NoId) /\ DisconnectFromServer
        <5>1. state # "CONNECTED"
          BY <4>4 DEF ClientInv
        <5> QED
          BY <2>1, <4>4, <5>1, SignOutFacts DEF DisconnectFromServer, clientVars
      <4> QED
        BY <2>2, <3>2, <3>4, <4>2, <4>3, <4>4 DEF SendMessageToPeer, SendPending
    <3> QED
      BY <2>2, <3>2, <3>3, <3>4 DEF SendMessageToPeer, SendPending
  <2>3. CASE PeerConnectionClosed
    BY <1>3, <2>1, <2>3 DEF PeerConnectionClosed
  <2> QED
    BY <1>14, <2>2, <2>3 DEF UIThreadCallback
<1>15. CASE Quit \/ Exit \/ Ended \/ UNCHANGED vars
  BY <1>4, <1>15 DEF Quit, Exit, Ended, vars, clientVars, conductorVars, uiVars
<1> QED
  BY <1>5, <1>6, <1>7, <1>8, <1>9, <1>10, <1>11, <1>12, <1>13, <1>14, <1>15, <1>16
  DEF Next, User

-----------------------------------------------------------------------------
(* What the invariants are for.                                            *)

\* The invariants of the Conductor, with what it relies on of the client.
LEMMA Invariance == Spec => [](Own /\ Page /\ Wake)
<1>1. Init => Page /\ Wake
  <2>1. Init => Page
    BY DEF Init, Client!Init, Page, ConversationIsShown, ListIsCurrent
  <2>2. Init => Wake
    BY ShortQueues DEF Init, Wake, NoLostWakeup, Fresh
  <2> QED
    BY <2>1, <2>2
<1>2. TypeOK /\ Own /\ Proofs!IInv /\ Page /\ Wake /\ [Next]_vars => (Page /\ Wake)'
  <2>1. ASSUME ~Reliable
        PROVE  (Page /\ Wake)'
    BY <2>1 DEF Page, Wake, Reliable
  <2> QED
    BY <2>1, ClientIsReliable, PageStep, WakeStep
<1> QED
  BY <1>1, <1>2, TypeCorrect, OwnInvariance, ClientInvariants, PTL DEF Spec

\* Where connections are not refused, answers arrive whole, names resolve and Connect
\* does not fail at once, a conversation is what the window shows ...
THEOREM WindowTells ==
    ASSUME Reliable
    PROVE  Spec => []ConversationIsShown
<1>1. Page => ConversationIsShown
  BY DEF Page, ConversationIsShown
<1> QED
  BY <1>1, Invariance, PTL

\* ... and the list of peers it shows is the client's, through lost connections and
\* failing peer connections.
THEOREM ListTells ==
    ASSUME Reliable
    PROVE  Spec => []ListIsCurrent
<1>1. Page => ListIsCurrent
  BY DEF Page, ListIsCurrent
<1> QED
  BY <1>1, Invariance, PTL

\* There, if the user does not press Return while streaming, no wakeup is lost.
THEOREM MessagesAreWoken ==
    ASSUME Reliable, "return" \notin Upsets
    PROVE  Spec => []NoLostWakeup
<1>1. Wake => NoLostWakeup
  BY DEF Wake
<1> QED
  BY <1>1, Invariance, PTL

\* Sending what waits does not end a session, where Connect does not fail at once.
THEOREM SendingIsSafe ==
    ASSUME "fail" \notin Faults
    PROVE  Spec => SendingKeepsSession
<1>1. [Next]_vars => [UIThreadCallback /\ window /\ state = "CONNECTED"
                       => state' = "CONNECTED"]_vars
  <2> SUFFICES ASSUME UIThreadCallback, window, state = "CONNECTED"
               PROVE  state' = "CONNECTED"
    OBVIOUS
  <2>1. CASE SendMessageToPeer
    <3>1. CASE UNCHANGED clientVars
      BY <3>1 DEF clientVars
    <3>2. CASE ~IsSendingMessage /\ Client!SendToPeer
      BY <3>2 DEF IsSendingMessage, Client!SendToPeer, Client!Dial, Client!DialFails
    <3>3. CASE (state # "CONNECTED" \/ my_id = NoId) /\ DisconnectFromServer
      BY <3>3 DEF DisconnectFromServer, clientVars
    <3> QED
      BY <2>1, <3>1, <3>2, <3>3 DEF SendMessageToPeer, SendPending
  <2>2. CASE PeerConnectionClosed
    BY <2>2 DEF PeerConnectionClosed, clientVars
  <2> QED
    BY <2>1, <2>2 DEF UIThreadCallback
<1> QED
  BY <1>1, PTL DEF Spec, SendingKeepsSession
=============================================================================
