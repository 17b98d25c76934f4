---------------------- MODULE PeerConnectionClientProofs ----------------------
(***************************************************************************)
(* What PeerConnectionClient guarantees for every set of ids, every bound  *)
(* on the pending retries and every environment.                           *)
(***************************************************************************)
EXTENDS PeerConnectionClient, TLAPS

-----------------------------------------------------------------------------
(* Types.                                                                  *)

\* What DoConnect leaves behind has the right types.
LEMMA DoConnectType ==
    ASSUME TypeOK, NEW res \in {"null", "running", "done"}, DoConnect(res)
    PROVE  /\ state' \in States
           /\ my_id' \in Ids \cup {NoId}
           /\ peers' \subseteq Ids
           /\ resolver' \in {"null", "running", "done"}
           /\ control' \in Sockets
           /\ hanging' \in Sockets
           /\ request' \in Requests \cup {"none"}
           /\ asked' \in Requests \cup {"none"}
           /\ control_data' \in Requests \cup {"empty"}
           /\ notification_data' \in {"empty", "part"}
           /\ crashed' \in BOOLEAN
           /\ told' \subseteq [cb : Callbacks \cup {"false"}, id : Ids \cup {NoId}]
  BY DEF DoConnect, Dial, DialFails, CloseSession, TypeOK, States, Sockets,
         Requests, Failure, Call, Callbacks

\* Every step keeps the types.
LEMMA TypeStep == TypeOK /\ [Next]_vars => TypeOK'
<1> SUFFICES ASSUME TypeOK, [Next]_vars
             PROVE  TypeOK'
  OBVIOUS
<1> USE DEF TypeOK
<1>1. CASE UNCHANGED vars
  BY <1>1 DEF vars
<1>2. CASE ConnectBusy \/ ConnectEmpty
  BY <1>2 DEF ConnectBusy, ConnectEmpty, Failure, Call, Callbacks
<1>3. CASE ConnectByName
  BY <1>3 DEF ConnectByName, States
<1>4. CASE ConnectByAddress
  BY <1>4, DoConnectType DEF ConnectByAddress
<1>5. CASE SendRejected
  BY <1>5 DEF SendRejected, ReturnedFalse, Call
<1>6. CASE SendToPeer
  BY <1>6 DEF SendToPeer, Dial, DialFails, CloseSession, States, Sockets, Requests,
              ReturnedFalse, Call
<1>7. CASE SignOut
  <2>1. CASE hanging = "null" /\ UNCHANGED <<state, my_id, peers, resolver, control,
                                              hanging, request, asked>>
    BY <1>7, <2>1 DEF SignOut, ReturnedFalse, Call
  <2>2. CASE SignOutStarts(control, asked)
    BY <1>7, <2>2 DEF SignOut, SignOutStarts, Dial, States, Sockets, Requests,
                      ReturnedFalse, Call
  <2>3. CASE SignOutFails(control)
    BY <1>7, <2>3 DEF SignOut, SignOutFails, DialFails, CloseSession, States, Sockets,
                      ReturnedFalse, Call
  <2> QED
    BY <1>7, <2>1, <2>2, <2>3 DEF SignOut
<1>8. CASE Resolved
  BY <1>8, DoConnectType DEF Resolved
<1>9. CASE ResolveError
  BY <1>9 DEF ResolveError, Failure, Call, Callbacks
<1>10. CASE ResolveFailed
  BY <1>10 DEF ResolveFailed, States
<1>11. CASE OnMessage
  <2>1. retries' \in 0..MaxRetries
    BY <1>11, MaxRetriesAssumption DEF OnMessage
  <2> QED
    BY <1>11, <2>1, DoConnectType DEF OnMessage
<1>12. CASE OnConnect
  BY <1>12 DEF OnConnect, Sockets
<1>13. CASE OnReadPart
  BY <1>13 DEF OnReadPart
<1>14. ASSUME NEW closes \in Closes, OnRead(closes)
       PROVE  TypeOK'
  <2>1. told' \subseteq [cb : Callbacks \cup {"false"}, id : Ids \cup {NoId}]
    BY <1>14 DEF OnRead, SentBy, MessageSent, Disconnected, Call, Callbacks
  <2>2. my_id' \in Ids \cup {NoId} /\ peers' \subseteq Ids
    BY <1>14 DEF OnRead, PragmaIds, CloseSession, SignOutStarts, SignOutFails, DialFails
  <2>3. state' \in States /\ hanging' \in Sockets
    BY <1>14 DEF OnRead, CloseSession, StartWaiting, Dialled, SignOutStarts,
                 SignOutFails, DialFails, States, Sockets
  <2>4. /\ control' \in Sockets
        /\ request' \in Requests \cup {"none"}
        /\ asked' \in Requests \cup {"none"}
    BY <1>14 DEF OnRead, CloseSession, Answered, SignOutStarts, SignOutFails, Dial,
                 DialFails, Sockets, Requests
  <2>5. resolver' \in {"null", "running", "done"}
    BY <1>14 DEF OnRead, CloseSession, SignOutStarts, SignOutFails, DialFails
  <2> QED
    BY <1>14, <2>1, <2>2, <2>3, <2>4, <2>5 DEF OnRead
<1>15. CASE ControlRefused
  BY <1>15, MaxRetriesAssumption DEF ControlRefused, Sockets
<1>16. CASE ControlClosed
  BY <1>16 DEF ControlClosed, Sockets, MessageSent, Call, Callbacks
<1>17. CASE OnHangingGetConnect
  BY <1>17 DEF OnHangingGetConnect, Sockets
<1>18. CASE OnHangingGetReadPart
  BY <1>18 DEF OnHangingGetReadPart
<1>19. ASSUME NEW closes \in Closes, OnHangingGetRead(closes)
       PROVE  TypeOK'
  <2>1. CASE CloseSession /\ told' = {Disconnected}
    BY <1>19, <2>1 DEF OnHangingGetRead, CloseSession, States, Sockets, Disconnected,
                       Call, Callbacks
  <2>2. CASE OnNotification(closes)
    BY <1>19, <2>2 DEF OnHangingGetRead, OnNotification, Redialled, Dialled, Sockets,
                       Call, Callbacks
  <2>3. CASE OnMessageFromPeer(closes)
    BY <1>19, <2>3 DEF OnHangingGetRead, OnMessageFromPeer, Redialled, Dialled,
                       SignOutStarts, SignOutFails, Dial, DialFails, CloseSession,
                       States, Sockets, Requests, ReturnedFalse, Call, Callbacks
  <2> QED
    BY <1>19, <2>1, <2>2, <2>3 DEF OnHangingGetRead
<1>20. CASE HangingGetRefused
  BY <1>20 DEF HangingGetRefused, CloseSession, States, Sockets, Disconnected, Call,
               Callbacks
<1>21. CASE HangingGetClosed
  BY <1>21 DEF HangingGetClosed, Dialled, Sockets
<1>22. CASE Halted
  BY <1>22 DEF Halted, vars
<1> QED
  BY <1>1, <1>2, <1>3, <1>4, <1>5, <1>6, <1>7, <1>8, <1>9, <1>10, <1>11, <1>12,
     <1>13, <1>14, <1>15, <1>16, <1>17, <1>18, <1>19, <1>20, <1>21, <1>22
  DEF Next, Application, ControlEvent, HangingGetEvent

\* They hold at the start ...
LEMMA InitType == Init => TypeOK
<1>1. Init => retries \in 0..MaxRetries
  BY MaxRetriesAssumption DEF Init
<1>2. Init => modal \in BOOLEAN /\ crashed \in BOOLEAN
  BY DEF Init
<1> QED
  BY <1>1, <1>2 DEF Init, TypeOK, States, Sockets

\* ... and so in every reachable state.
THEOREM TypeCorrect == Spec => []TypeOK
BY InitType, TypeStep, PTL DEF Spec

-----------------------------------------------------------------------------
(* The inductive invariant.  Its first part holds in every environment; the *)
(* others hold where one kind of fault is ruled out.                        *)

AnyFaults ==
    /\ OnConnectHasData
    /\ PollIdleWhileSigningIn
    /\ ResolverOwned
    /\ AnonymousExchange
    /\ control = "null" => hanging = "null"

\* The list of peers belongs to the session: a client without an id lists nobody,
\* and no client lists itself, even when it signs in again after a retry.  Needs
\* answers that arrive whole: "part" \notin Faults.
PeerListOfSession ==
    /\ my_id = NoId => peers = {}
    /\ my_id \notin peers

\* Answers that arrive whole leave nothing behind for the next connection.
WholeAnswers ==
    "part" \notin Faults =>
        /\ control_data = "empty"
        /\ ConnectedHasId
        /\ hanging \in {"connecting", "connected"} => my_id # NoId
        /\ PeerListOfSession

SureDials == "fail" \notin Faults => PollOutstanding

\* Without message boxes nothing overwrites state_, and a client outside a session
\* has neither an id nor a connection.
SureLookups ==
    "lookup" \notin Faults =>
        /\ ~modal
        /\ PollOnlyWhenConnected
        /\ state \in {"NOT_CONNECTED", "RESOLVING"} =>
              my_id = NoId /\ control \in {"null", "closed"}

\* A connection that is not lost stays until its answer is read.
SureConnections ==
    "drop" \notin Faults =>
        /\ RetryScheduled
        /\ state = "SIGNING_IN" /\ control = "connected" => asked # "none"

\* Where nothing is retried and names resolve, a sign-in is asked for by a client
\* without an id and starts with an idle control socket.
SureAttempts ==
    "refuse" \notin Faults /\ "lookup" \notin Faults =>
        /\ retries = 0
        /\ resolver = "running" => /\ my_id = NoId
                                   /\ control \in {"null", "closed"}
                                   /\ state \in {"RESOLVING", "SIGNING_OUT"}
        /\ state = "SIGNING_IN" => my_id = NoId

IInv == AnyFaults /\ WholeAnswers /\ SureDials /\ SureLookups /\ SureConnections
          /\ SureAttempts

\* Every step keeps the inductive invariant.
LEMMA InvStep == TypeOK /\ IInv /\ [Next]_vars => IInv'
<1> SUFFICES ASSUME TypeOK, IInv, [Next]_vars
             PROVE  IInv'
  OBVIOUS
<1> USE DEF IInv, AnyFaults, WholeAnswers, SureDials, SureLookups, SureConnections,
            SureAttempts, OnConnectHasData, PollIdleWhileSigningIn, ResolverOwned, AnonymousExchange,
            ConnectedHasId, PeerListOfSession, PollOutstanding,
            PollOnlyWhenConnected, RetryScheduled
<1>1. CASE UNCHANGED vars
  BY <1>1 DEF vars
<1>2. CASE ConnectBusy \/ ConnectEmpty
  BY <1>2 DEF ConnectBusy, ConnectEmpty
<1>3. CASE ConnectByName
  BY <1>3 DEF ConnectByName
<1>4. CASE ConnectByAddress
  BY <1>4 DEF ConnectByAddress, DoConnect, Dial, DialFails, CloseSession, Ready
<1>5. CASE SendRejected
  BY <1>5 DEF SendRejected
<1>6. CASE SendToPeer
  BY <1>6 DEF SendToPeer, Dial, DialFails, CloseSession
<1>7. CASE SignOut
  BY <1>7 DEF SignOut, SignOutStarts, SignOutFails, Dial, DialFails, CloseSession
<1>8. CASE Resolved
  BY <1>8 DEF Resolved, DoConnect, Dial, DialFails, CloseSession
<1>9. CASE ResolveError
  BY <1>9 DEF ResolveError
<1>10. CASE ResolveFailed
  BY <1>10 DEF ResolveFailed
<1>11. CASE OnMessage
  BY <1>11 DEF OnMessage, DoConnect, Dial, DialFails, CloseSession
<1>12. CASE OnConnect
  BY <1>12 DEF OnConnect
<1>13. CASE OnReadPart
  BY <1>13 DEF OnReadPart
<1>14. ASSUME NEW closes \in Closes, OnRead(closes)
       PROVE  IInv'
  BY <1>14, NoIdAssumption
  DEF OnRead, PragmaIds, CloseSession, SignOutStarts, SignOutFails, Dial, DialFails,
      StartWaiting, Dialled, Answered
<1>15. CASE ControlRefused
  <2>1. retries' > 0
    BY <1>15, MaxRetriesAssumption DEF ControlRefused, TypeOK
  <2> QED
    BY <1>15, <2>1 DEF ControlRefused
<1>16. CASE ControlClosed
  BY <1>16 DEF ControlClosed
<1>17. CASE OnHangingGetConnect
  BY <1>17 DEF OnHangingGetConnect
<1>18. CASE OnHangingGetReadPart
  BY <1>18 DEF OnHangingGetReadPart
<1>19. ASSUME NEW closes \in Closes, OnHangingGetRead(closes)
       PROVE  IInv'
  <2>1. CASE CloseSession
    BY <1>19, <2>1 DEF OnHangingGetRead, CloseSession
  <2>2. CASE OnNotification(closes)
    BY <1>19, <2>2 DEF OnHangingGetRead, OnNotification, Redialled, Dialled
  <2>3. CASE OnMessageFromPeer(closes)
    BY <1>19, <2>3 DEF OnHangingGetRead, OnMessageFromPeer, Redialled, Dialled,
                       SignOutStarts, SignOutFails, Dial, DialFails, CloseSession
  <2> QED
    BY <1>19, <2>1, <2>2, <2>3 DEF OnHangingGetRead
<1>20. CASE HangingGetRefused
  BY <1>20 DEF HangingGetRefused, CloseSession
<1>21. CASE HangingGetClosed
  BY <1>21 DEF HangingGetClosed, Dialled
<1>22. CASE Halted
  BY <1>22 DEF Halted, vars
<1> QED
  BY <1>1, <1>2, <1>3, <1>4, <1>5, <1>6, <1>7, <1>8, <1>9, <1>10, <1>11, <1>12,
     <1>13, <1>14, <1>15, <1>16, <1>17, <1>18, <1>19, <1>20, <1>21, <1>22
  DEF Next, Application, ControlEvent, HangingGetEvent

\* It holds at the start ...
LEMMA InitInv == Init => IInv
  BY DEF Init, IInv, AnyFaults, WholeAnswers, SureDials, SureLookups, SureConnections,
         SureAttempts, OnConnectHasData, PollIdleWhileSigningIn, ResolverOwned, AnonymousExchange,
         ConnectedHasId, PeerListOfSession, PollOutstanding,
         PollOnlyWhenConnected, RetryScheduled

\* ... and so in every reachable state.
LEMMA Invariance == Spec => []IInv
BY InitInv, InvStep, TypeCorrect, PTL DEF Spec

-----------------------------------------------------------------------------
(* What the invariant is for.                                              *)

\* The assertions of OnConnect() and OnRead() on the two sockets hold, whatever goes
\* wrong: a connecting control socket has a request ...
THEOREM SocketsInOrder == Spec => []OnConnectHasData
<1>1. IInv => OnConnectHasData
  BY DEF IInv, AnyFaults
<1> QED
  BY <1>1, Invariance, PTL

\* ... and a sign-in finds the hanging GET closed.
THEOREM SignInFindsPollClosed == Spec => []PollIdleWhileSigningIn
<1>1. IInv => PollIdleWhileSigningIn
  BY DEF IInv, AnyFaults
<1> QED
  BY <1>1, Invariance, PTL

\* In every environment, the resolver that Connect() allocates overwrites no other.
THEOREM NoResolverLost == Spec => []ResolverOwned
<1>1. IInv => ResolverOwned
  BY DEF IInv, AnyFaults
<1> QED
  BY <1>1, Invariance, PTL

\* In every environment, on the control connection a client without an id asks for
\* nothing but a sign_in (of its poll, see SessionHasId and PollEndsWithSession).
THEOREM NobodyAsks == Spec => []AnonymousExchange
<1>1. IInv => AnonymousExchange
  BY DEF IInv, AnyFaults
<1> QED
  BY <1>1, Invariance, PTL

\* When answers arrive whole, a client that is CONNECTED has an id ...
THEOREM SessionHasId ==
    ASSUME "part" \notin Faults
    PROVE  Spec => []ConnectedHasId
<1>1. IInv => ConnectedHasId
  BY DEF IInv, WholeAnswers
<1> QED
  BY <1>1, Invariance, PTL

\* ... and its list of peers is that of its session.
THEOREM PeersOfSession ==
    ASSUME "part" \notin Faults
    PROVE  Spec => []PeerListOfSession
<1>1. IInv => PeerListOfSession
  BY DEF IInv, WholeAnswers
<1> QED
  BY <1>1, Invariance, PTL

\* When Connect does not fail at once, a CONNECTED client never stops polling.
THEOREM PollNeverStops ==
    ASSUME "fail" \notin Faults
    PROVE  Spec => []PollOutstanding
<1>1. IInv => PollOutstanding
  BY DEF IInv, SureDials
<1> QED
  BY <1>1, Invariance, PTL

\* When names resolve, only a CONNECTED client polls.
THEOREM PollEndsWithSession ==
    ASSUME "lookup" \notin Faults
    PROVE  Spec => []PollOnlyWhenConnected
<1>1. IInv => PollOnlyWhenConnected
  BY DEF IInv, SureLookups
<1> QED
  BY <1>1, Invariance, PTL

\* When connections are not lost, a sign-in without a connection has a retry pending.
THEOREM RefusedSignInIsRetried ==
    ASSUME "drop" \notin Faults
    PROVE  Spec => []RetryScheduled
<1>1. IInv => RetryScheduled
  BY DEF IInv, SureConnections
<1> QED
  BY <1>1, Invariance, PTL

\* The application is told whenever a session ends.
THEOREM EndIsReported == Spec => LossReported
<1>1. [Next]_vars => [LossIsReported]_vars
  <2> SUFFICES ASSUME Next, my_id # NoId, my_id' = NoId,
                      state # "SIGNING_OUT_WAITING"
               PROVE  told' \cap {Disconnected, Failure, ReturnedFalse} # {}
    BY DEF LossIsReported
  <2>1. CASE Application
    BY <2>1 DEF Application, ConnectBusy, ConnectEmpty, ConnectByName,
                ConnectByAddress, SendRejected, SendToPeer, Dial, SignOut, SignOutStarts, SignOutFails
  <2>2. CASE Resolved \/ OnMessage
    BY <2>2 DEF Resolved, OnMessage, DoConnect
  <2>3. CASE ControlEvent
    BY <2>3 DEF ControlEvent, OnConnect, OnReadPart, OnRead, ControlRefused,
                ControlClosed
  <2>4. CASE HangingGetEvent
    BY <2>4 DEF HangingGetEvent, OnHangingGetConnect, OnHangingGetReadPart,
                OnHangingGetRead, OnNotification, OnMessageFromPeer, SignOutStarts,
                HangingGetRefused, HangingGetClosed
  <2>5. CASE ResolveError \/ ResolveFailed \/ Halted
    BY <2>5 DEF ResolveError, ResolveFailed, Halted, vars
  <2> QED
    BY <2>1, <2>2, <2>3, <2>4, <2>5 DEF Next
<1> QED
  BY <1>1, PTL DEF Spec, LossReported

-----------------------------------------------------------------------------
(* The client implements the abstract session.                             *)

Whole == "part" \notin Faults /\ "lookup" \notin Faults

\* Close() ends the abstract session, if the application is told.
LEMMA CloseEnds ==
    ASSUME CloseSession,
           \/ Phase = "leaving" /\ told' \subseteq {MessageSent}
           \/ told' \in {{Disconnected}, {Disconnected, MessageSent}, {Failure},
                         {ReturnedFalse}}
           \/ /\ Phase = "in"
              /\ \E p \in Ids \ {my_id} :
                    told' = {Call("OnMessageFromPeer", p), ReturnedFalse}
    PROVE  Session!End
<1>1. Phase' = "out"
  BY DEF CloseSession, Phase
<1>2. my_id' = NoId /\ peers' = {}
  BY DEF CloseSession
<1>3. CASE Phase = "leaving" /\ told' \subseteq {MessageSent}
  <2>1. told' = {} \/ told' = {MessageSent}
    BY <1>3
  <2> QED
    BY <1>1, <1>2, <1>3, <2>1
    DEF Session!End, Session!Tells, MessageSent, Session!MessageSent, Call, Session!Call
<1>4. ASSUME NEW calls \in {{Disconnected}, {Failure}, {ReturnedFalse}},
             told' \in {calls, calls \cup {MessageSent}}
      PROVE  Session!End
  <2>1. calls \in SUBSET {Disconnected, Failure, ReturnedFalse} /\ calls # {}
    OBVIOUS
  <2> QED
    BY <1>1, <1>2, <1>4, <2>1
    DEF Session!End, Session!Tells, MessageSent, Session!MessageSent, Call,
        Session!Call, Disconnected, Session!Disconnected, Failure, Session!Failure,
        ReturnedFalse, Session!ReturnedFalse
<1>5. CASE told' \in {{Disconnected}, {Disconnected, MessageSent}, {Failure},
                      {ReturnedFalse}}
  <2>1. {Disconnected, MessageSent} = {Disconnected} \cup {MessageSent}
    OBVIOUS
  <2> QED
    BY <1>4, <1>5, <2>1
<1>6. ASSUME Phase = "in", NEW p \in Ids \ {my_id},
             told' = {Call("OnMessageFromPeer", p), ReturnedFalse}
      PROVE  Session!End
  <2>1. told' = {ReturnedFalse} \cup {Call("OnMessageFromPeer", p)}
    BY <1>6
  <2> QED
    BY <1>1, <1>2, <1>6, <2>1
    DEF Session!End, Call, Session!Call, Disconnected, Session!Disconnected, Failure,
        Session!Failure, ReturnedFalse, Session!ReturnedFalse
<1> QED
  BY <1>3, <1>5, <1>6
\* A handler that dials a sign-in seeks a session, or reports the end of one.
LEMMA DoConnectSeeks ==
    ASSUME TypeOK, IInv, Whole, NEW res, DoConnect(res),
           state = "NOT_CONNECTED" => my_id = NoId
    PROVE  Session!Next
<1>1. CASE DialFails("closed") /\ told' = {Failure}
  BY <1>1, CloseEnds DEF DialFails, Session!Next
<1>2. CASE /\ state' = "SIGNING_IN"
           /\ told' = {}
           /\ UNCHANGED <<my_id, peers>>
  <2>1. Phase' = IF my_id = NoId THEN "seeking" ELSE "in"
    BY <1>2 DEF Phase
  <2>2. CASE Phase \in {"out", "leaving"}
    BY <1>2, <2>1, <2>2 DEF Session!Next, Session!Seek, Session!Tells
  <2>3. CASE Phase \in {"seeking", "in"}
    <3>1. Phase' = Phase
      BY <2>1, <2>3 DEF Phase
    <3> QED
      BY <1>2, <3>1 DEF Session!Next, Session!Carry
  <2> QED
    BY <2>2, <2>3 DEF Phase
<1> QED
  BY <1>1, <1>2 DEF DoConnect

\* A handler that leaves the session alone.
LEMMA Carried ==
    ASSUME UNCHANGED <<state, my_id, peers>>,
           \/ told' \subseteq {MessageSent, ReturnedFalse}
           \/ my_id = NoId /\ told' = {Failure}
    PROVE  Session!Next
<1>1. Phase' = Phase
  BY DEF Phase
<1> QED
  BY <1>1 DEF Session!Next, Session!Carry, MessageSent, Session!MessageSent,
       ReturnedFalse, Session!ReturnedFalse, Failure, Session!Failure, Call, Session!Call

\* The answer to a request, whole.
LEMMA OnReadRefines ==
    ASSUME TypeOK, IInv, Whole, NEW closes \in Closes, OnRead(closes)
    PROVE  Session!Next
<1> USE DEF SentBy
<1>1. CASE CloseSession /\ told' = SentBy(closes) \cup {Disconnected}
  BY <1>1, CloseEnds DEF Session!Next
<1>2. ASSUME my_id = NoId, StartWaiting,
             NEW id \in PragmaIds, NEW list \in SUBSET Ids,
             my_id' = id,
             peers' = peers \cup (list \ {id}),
             told' = SentBy(closes)
                       \cup {Call("OnPeerConnected", p) : p \in list \ {id}}
                       \cup {Call("OnSignedIn", NoId)}
      PROVE  Session!Next
  <2>1. id \in Ids /\ peers = {}
    BY <1>2, NoIdAssumption
    DEF IInv, AnyFaults, WholeAnswers, Whole, PragmaIds, AnonymousExchange, OnRead,
        PeerListOfSession
  <2>2. /\ Phase \in {"seeking", "leaving"}
        /\ Phase' = IF Phase = "seeking" THEN "in" ELSE Phase
    BY <1>2, <2>1, NoIdAssumption
    DEF OnRead, IInv, SureLookups, WholeAnswers, Whole, ConnectedHasId, StartWaiting,
        Phase, TypeOK, States
  <2>3. Session!Tells({Session!Call("OnPeerConnected", p) : p \in list \ {id}}
                        \cup {Session!SignedIn})
    BY <1>2 DEF Session!Tells, Session!SignedIn, MessageSent, Session!MessageSent,
                Call, Session!Call
  <2>4. Session!Admit(id, list \ {id})
    BY <1>2, <2>1, <2>2, <2>3 DEF Session!Admit
  <2> QED
    BY <2>1, <2>4 DEF Session!Next
<1>3. CASE CloseSession /\ state = "SIGNING_OUT" /\ told' = SentBy(closes) \cup {Disconnected}
  BY <1>1, <1>3
<1>4. CASE /\ state = "SIGNING_OUT_WAITING"
           /\ \/ SignOutStarts(Answered(closes), "none")
              \/ SignOutFails(Answered(closes))
           /\ told' = SentBy(closes)
  <2>1. CASE SignOutStarts(Answered(closes), "none")
    <3>1. Phase = "leaving" /\ Phase' = "leaving" /\ UNCHANGED <<my_id, peers>>
      BY <1>4, <2>1 DEF SignOutStarts, Phase
    <3> QED
      BY <1>4, <3>1 DEF Session!Next, Session!Carry, MessageSent, Session!MessageSent,
                        Call, Session!Call
  <2>2. CASE SignOutFails(Answered(closes))
    BY <1>4, <2>2, CloseEnds DEF SignOutFails, DialFails, Phase, Session!Next
  <2> QED
    BY <1>4, <2>1, <2>2
<1>5. CASE /\ my_id # NoId
           /\ state \notin {"SIGNING_OUT", "SIGNING_OUT_WAITING"}
           /\ told' = SentBy(closes)
           /\ StartWaiting
           /\ UNCHANGED <<my_id, peers>>
  <2>1. Phase' = Phase
    BY <1>5 DEF StartWaiting, Phase
  <2> QED
    BY <1>5, <2>1 DEF Session!Next, Session!Carry, MessageSent, Session!MessageSent,
                      Call, Session!Call
<1> QED
  BY <1>1, <1>2, <1>3, <1>4, <1>5 DEF OnRead

\* An answer of the hanging GET, whole: it comes inside a session.
LEMMA OnHangingGetReadRefines ==
    ASSUME TypeOK, IInv, Whole, NEW closes \in Closes, OnHangingGetRead(closes)
    PROVE  Session!Next
<1>1. Phase = "in" /\ state = "CONNECTED" /\ my_id # NoId
  BY DEF OnHangingGetRead, IInv, Whole, SureLookups, PollOnlyWhenConnected, WholeAnswers,
         ConnectedHasId, Phase
<1>2. CASE CloseSession /\ told' = {Disconnected}
  BY <1>2, CloseEnds DEF Session!Next
<1>3. CASE OnNotification(closes)
  <2>1. Phase' = Phase /\ UNCHANGED my_id
    BY <1>3 DEF OnNotification, Phase
  <2>2. CASE UNCHANGED peers /\ told' = {}
    BY <2>1, <2>2 DEF Session!Next, Session!Carry
  <2>3. ASSUME NEW p \in Ids \ {my_id},
               \/ peers' = peers \cup {p} /\ told' = {Call("OnPeerConnected", p)}
               \/ peers' = peers \ {p} /\ told' = {Call("OnPeerDisconnected", p)}
        PROVE  Session!Next
    <3>1. Session!Join(p) \/ Session!Part(p)
      BY <1>1, <2>1, <2>3 DEF Session!Join, Session!Part, Call, Session!Call
    <3> QED
      BY <2>3, <3>1 DEF Session!Next
  <2> QED
    BY <1>3, <2>2, <2>3 DEF OnNotification
<1>4. ASSUME NEW p \in Ids \ {my_id}, UNCHANGED <<state, my_id, peers>>,
             told' \in {{Call("OnPeerDisconnected", p)}, {Call("OnMessageFromPeer", p)}}
      PROVE  Session!Next
  <2>1. Phase' = Phase
    BY <1>4 DEF Phase
  <2>2. Session!Part(p) \/ Session!Receive(p)
    BY <1>1, <1>4, <2>1 DEF Session!Part, Session!Receive, Call, Session!Call
  <2> QED
    BY <1>4, <2>2 DEF Session!Next
<1>5. ASSUME NEW p \in Ids \ {my_id}, SignOutStarts(control, asked),
             told' = {Call("OnMessageFromPeer", p)}
      PROVE  Session!Next
  <2>1. Phase' = "leaving" /\ UNCHANGED <<my_id, peers>>
    BY <1>5 DEF SignOutStarts, Phase
  <2>2. Session!Receive(p)
    BY <1>1, <1>5, <2>1 DEF Session!Receive, Call, Session!Call
  <2> QED
    BY <1>5, <2>2 DEF Session!Next
<1>6. ASSUME NEW p \in Ids \ {my_id}, SignOutFails(control),
             told' = {Call("OnMessageFromPeer", p), ReturnedFalse}
      PROVE  Session!Next
  BY <1>1, <1>6, CloseEnds DEF SignOutFails, DialFails, Session!Next
<1> QED
  BY <1>2, <1>3, <1>4, <1>5, <1>6 DEF OnHangingGetRead, OnMessageFromPeer

\* Every step of the client is a step of the abstract session, or none.
LEMMA SessionStep ==
    ASSUME TypeOK, IInv, Whole, [Next]_vars
    PROVE  [Session!Next]_(Session!vars)
<1>1. CASE UNCHANGED vars
  BY <1>1 DEF vars, Session!vars, Phase
<1>2. CASE ConnectBusy \/ ConnectEmpty
  BY <1>2, Carried DEF ConnectBusy, ConnectEmpty
<1>3. CASE ConnectByName
  <2>1. Phase = "out" /\ Phase' = "seeking"
    BY <1>3 DEF ConnectByName, Phase
  <2> QED
    BY <1>3, <2>1 DEF ConnectByName, Session!Next, Session!Seek, Session!Tells
<1>4. CASE ConnectByAddress
  BY <1>4, DoConnectSeeks DEF ConnectByAddress
<1>5. CASE SendRejected
  BY <1>5, Carried DEF SendRejected
<1>6. CASE SendToPeer
  <2>1. CASE told' = {} /\ UNCHANGED <<state, my_id, peers>>
    BY <2>1, Carried
  <2>2. CASE CloseSession /\ told' = {ReturnedFalse}
    BY <2>2, CloseEnds DEF Session!Next
  <2> QED
    BY <1>6, <2>1, <2>2 DEF SendToPeer, DialFails
<1>7. CASE SignOut
  <2>1. CASE hanging = "null" /\ told' = {} /\ UNCHANGED <<state, my_id, peers>>
    BY <2>1, Carried
  <2>2. CASE SignOutStarts(control, asked) /\ told' = {}
    <3>1. Phase' = "leaving" /\ UNCHANGED <<my_id, peers>>
      BY <2>2 DEF SignOutStarts, Phase
    <3>2. Phase \in {"seeking", "in"} \/ Phase = "leaving"
      BY <1>7 DEF SignOut, Phase
    <3> QED
      BY <2>2, <3>1, <3>2 DEF Session!Next, Session!SignOut, Session!Tells, Session!Carry
  <2>3. CASE SignOutFails(control) /\ told' = {ReturnedFalse}
    BY <2>3, CloseEnds DEF SignOutFails, DialFails, Session!Next
  <2> QED
    BY <1>7, <2>1, <2>2, <2>3 DEF SignOut
<1>8. CASE Resolved \/ OnMessage
  BY <1>8, DoConnectSeeks DEF Resolved, OnMessage, IInv, Whole, SureLookups
<1>9. CASE ResolveError \/ ResolveFailed
  BY <1>9 DEF ResolveError, ResolveFailed, IInv, Whole, SureLookups
<1>10. CASE OnConnect \/ OnReadPart \/ ControlRefused \/ ControlClosed
  BY <1>10, Carried DEF OnConnect, OnReadPart, ControlRefused, ControlClosed
<1>11. ASSUME NEW closes \in Closes, OnRead(closes)
       PROVE  Session!Next
  BY <1>11, OnReadRefines
<1>12. CASE OnHangingGetConnect \/ OnHangingGetReadPart \/ HangingGetClosed
  BY <1>12, Carried DEF OnHangingGetConnect, OnHangingGetReadPart, HangingGetClosed
<1>13. ASSUME NEW closes \in Closes, OnHangingGetRead(closes)
       PROVE  Session!Next
  BY <1>13, OnHangingGetReadRefines
<1>14. CASE HangingGetRefused
  BY <1>14, CloseEnds DEF HangingGetRefused, Session!Next
<1>15. CASE Halted
  BY <1>1, <1>15 DEF Halted
<1> QED
  BY <1>1, <1>2, <1>3, <1>4, <1>5, <1>6, <1>7, <1>8, <1>9, <1>10, <1>11, <1>12,
     <1>13, <1>14, <1>15
  DEF Next, Application, ControlEvent, HangingGetEvent

\* When answers arrive whole and names resolve, the client implements the abstract
\* session, in every environment otherwise: whatever is refused, lost or retried, the
\* application sees sessions that begin, change and end as it is told.
THEOREM SessionRefined ==
    ASSUME Whole
    PROVE  Spec => ImplementsSession
<1>1. Init => Session!Init
  BY DEF Init, Session!Init, Phase
<1>2. TypeOK /\ IInv /\ [Next]_vars => [Session!Next]_(Session!vars)
  BY SessionStep
<1> QED
  BY <1>1, <1>2, TypeCorrect, Invariance, PTL DEF Spec, ImplementsSession, Session!Spec
=============================================================================
