------------------------------- MODULE CallProofs -------------------------------
(***************************************************************************)
(* Theorems about Call, proved for any number of programs and calls.       *)
(***************************************************************************)
EXTENDS Call, SequenceTheorems, TLAPS

Operations == [op : Creations \cup Settings, call : Nat]
Conns == [sdp : States, caller : BOOLEAN, local : BOOLEAN, remote : Nat,
          chain : Seq(Operations), gathered : BOOLEAN]
SignalRecords == [kind : Signals, call : Nat, to : Nat]
Mails == [from : Programs, signal : [kind : Signals \cup News, call : Nat, to : Nat]]

\* The type of a connection is kept by what is done to it.
LEMMA NewConn ==
    ASSUME NEW ops \in Seq(Operations), NEW caller \in BOOLEAN
    PROVE /\ New \in Conns
          /\ [New EXCEPT !.chain = ops, !.caller = caller] \in Conns
PROOF
<1>1. <<>> \in Seq(Operations)
  OBVIOUS
<1> QED
  BY <1>1 DEF New, Conns, States

LEMMA ChainConn ==
    ASSUME NEW c \in Conns, NEW ops \in Seq(Operations)
    PROVE [c EXCEPT !.chain = ops] \in Conns
PROOF
  BY DEF Conns

LEMMA HeadOfChain ==
    ASSUME NEW c \in Conns, c.chain # <<>>
    PROVE /\ Head(c.chain) \in Operations
          /\ Tail(c.chain) \in Seq(Operations)
PROOF
<1>1. c.chain \in Seq(Operations)
  BY DEF Conns
<1> QED
  BY <1>1, HeadTailProperties

LEMMA DoneConn ==
    ASSUME NEW c \in Conns, c.chain # <<>>, NEW s \in States
    PROVE Done(c, s) \in Conns
PROOF
<1>1. /\ Head(c.chain).call \in Nat
      /\ Tail(c.chain) \in Seq(Operations)
  BY HeadOfChain DEF Operations
<1> QED
  BY <1>1 DEF Done, Conns

LEMMA AskedType ==
    ASSUME NEW m, m.call \in Nat
    PROVE Asked(m) \in Seq(Operations)
PROOF
<1>1. /\ Operation("SetRemoteOffer", m.call) \in Operations
      /\ Operation("SetRemoteAnswer", m.call) \in Operations
      /\ Operation("CreateAnswer", 0) \in Operations
  BY DEF Operation, Operations, Creations, Settings
<1> QED
  BY <1>1 DEF Asked

LEMMA SignalType ==
    ASSUME NEW k, NEW n \in Nat, NEW m \in Nat
    PROVE Signal(k, n, m) = [kind |-> k, call |-> n, to |-> m]
PROOF
  BY DEF Signal

LEMMA PostType ==
    ASSUME inbox \in [Programs -> Seq(Mails)], NEW p \in Programs, NEW q,
           NEW signal \in [kind : Signals \cup News, call : Nat, to : Nat]
    PROVE Post(p, q, signal) \in [Programs -> Seq(Mails)]
PROOF
<1>1. [from |-> p, signal |-> signal] \in Mails
  BY DEF Mails
<1>2. \A r \in Programs : Append(inbox[r], [from |-> p, signal |-> signal]) \in Seq(Mails)
  BY <1>1, AppendProperties
<1> QED
  BY <1>2 DEF Post

LEMMA FirstType ==
    ASSUME inbox \in [Programs -> Seq(Mails)], NEW p \in Programs, inbox[p] # <<>>
    PROVE /\ Sender(p) \in Programs
          /\ First(p) \in [kind : Signals \cup News, call : Nat, to : Nat]
          /\ Tail(inbox[p]) \in Seq(Mails)
PROOF
<1>1. inbox[p] \in Seq(Mails)
  OBVIOUS
<1>2. Head(inbox[p]) \in Mails /\ Tail(inbox[p]) \in Seq(Mails)
  BY <1>1, HeadTailProperties
<1> QED
  BY <1>2 DEF Sender, First, Mails

\* TypeOK with the names of this module.
LEMMA TypeRestated ==
    TypeOK <=>
      /\ online \in [Programs -> BOOLEAN]
      /\ peer \in [Programs -> Programs \cup {None}]
      /\ call \in [Programs -> Nat]
      /\ conn \in [Programs -> Conns]
      /\ outbox \in [Programs -> Seq(SignalRecords)]
      /\ inbox \in [Programs -> Seq(Mails)]
      /\ calls \in 0..Len(Plan)
      /\ mishaps \in 0..MaxMishaps
      /\ disturbed \in BOOLEAN
PROOF
  BY DEF TypeOK, Conns, Operations, SignalRecords, Mails

LEMMA BeginType ==
    ASSUME TypeOK, NEW p \in Programs, NEW q \in Programs, NEW ops \in Seq(Operations),
           Begin(p, q, ops)
    PROVE /\ peer' \in [Programs -> Programs \cup {None}]
          /\ call' \in [Programs -> Nat]
          /\ conn' \in [Programs -> Conns]
PROOF
<1>1. [New EXCEPT !.chain = ops, !.caller = ops = <<Operation("CreateOffer", 0)>>] \in Conns
  <2>1. (ops = <<Operation("CreateOffer", 0)>>) \in BOOLEAN
    OBVIOUS
  <2> QED
    BY <2>1, NewConn
<1> QED
  BY <1>1, TypeRestated DEF Begin

LEMMA EndType ==
    ASSUME TypeOK, NEW p \in Programs, End(p)
    PROVE /\ peer' \in [Programs -> Programs \cup {None}]
          /\ call' \in [Programs -> Nat]
          /\ conn' \in [Programs -> Conns]
PROOF
<1>1. New \in Conns
  BY DEF New, Conns, States
<1> QED
  BY <1>1, TypeRestated DEF End

LEMMA LeaveType ==
    ASSUME TypeOK, NEW p \in Programs, Leave(p)
    PROVE TypeOK'
PROOF
<1>1. Left \in [kind : Signals \cup News, call : Nat, to : Nat]
  BY DEF Left, Signal, News
<1>3. \A q \in Programs : Post(p, q, Left) \in [Programs -> Seq(Mails)]
  BY <1>1, PostType, TypeRestated
<1>4. inbox' \in [Programs -> Seq(Mails)]
  BY <1>3 DEF Leave
<1>5. mishaps' \in 0..MaxMishaps
  BY BoundsAssumption, TypeRestated DEF Leave
<1>6. outbox' \in [Programs -> Seq(SignalRecords)]
  BY TypeRestated DEF Leave
<1>7. /\ online' \in [Programs -> BOOLEAN]
      /\ UNCHANGED <<calls, disturbed>>
      /\ End(p)
  BY TypeRestated DEF Leave
<1> QED
  BY <1>4, <1>5, <1>6, <1>7, EndType, TypeRestated DEF TypeOK, Conns, Operations,
     SignalRecords, Mails

LEMMA UserType ==
    ASSUME TypeOK, NEW p \in Programs, User(p)
    PROVE TypeOK'
PROOF
<1> USE DEF TypeOK, Conns, Operations, SignalRecords, Mails
<1>1. ASSUME NEW q \in Programs, ConnectToPeer(p, q) PROVE TypeOK'
  <2>1. <<Operation("CreateOffer", 0)>> \in Seq(Operations)
    BY DEF Operation, Creations
  <2>2. Begin(p, q, <<Operation("CreateOffer", 0)>>)
    BY <1>1 DEF ConnectToPeer
  <2>3. calls' \in 0..Len(Plan)
    <3>1. Len(Plan) \in Nat
      BY BoundsAssumption, LenProperties
    <3> QED
      BY <1>1, <3>1 DEF ConnectToPeer
  <2> QED
    BY <1>1, <2>1, <2>2, <2>3, BeginType DEF ConnectToPeer
<1>2. ASSUME DisconnectFromCurrentPeer(p) PROVE TypeOK'
  <2>1. CASE Leave(p)
    BY <2>1, LeaveType
  <2>2. CASE /\ inbox' = Post(p, peer[p], Signal("bye", call[p], conn[p].remote))
             /\ End(p)
             /\ UNCHANGED <<online, outbox, calls, mishaps, disturbed>>
    <3>1. Signal("bye", call[p], conn[p].remote)
            \in [kind : Signals \cup News, call : Nat, to : Nat]
      BY DEF Signal, News
    <3>2. inbox' \in [Programs -> Seq(Mails)]
      BY <2>2, <3>1, PostType, TypeRestated
    <3> QED
      BY <2>2, <3>2, EndType
  <2> QED
    BY <1>2, <2>1, <2>2 DEF DisconnectFromCurrentPeer
<1>3. ASSUME LoseSession(p) PROVE TypeOK'
  BY <1>3, LeaveType DEF LoseSession
<1> QED
  BY <1>1, <1>2, <1>3 DEF User

LEMMA HearType ==
    ASSUME TypeOK, NEW p \in Programs, Hear(p)
    PROVE TypeOK'
PROOF
<1> USE DEF TypeOK, Conns, Operations, SignalRecords, Mails
<1>1. /\ inbox[p] # <<>>
      /\ inbox' = [inbox EXCEPT ![p] = Tail(@)]
  BY DEF Hear, HearNews, HearFirst, HearPeer, HearThird, Take
<1>2. /\ Sender(p) \in Programs
      /\ First(p).call \in Nat
      /\ inbox' \in [Programs -> Seq(Mails)]
  BY <1>1, FirstType, TypeRestated
<1>3. Asked(First(p)) \in Seq(Operations)
  BY <1>2, AskedType
<1>4. CASE HearNews(p)
  BY <1>2, <1>4, EndType DEF HearNews
<1>5. CASE HearFirst(p)
  BY <1>2, <1>3, <1>5, BeginType DEF HearFirst
<1>6. CASE HearPeer(p)
  <2>1. conn[p].chain \o Asked(First(p)) \in Seq(Operations)
    BY <1>3, ConcatProperties
  <2>2. [conn[p] EXCEPT !.chain = conn[p].chain \o Asked(First(p))] \in Conns
    BY <2>1, ChainConn
  <2>3. conn' \in [Programs -> Conns]
    BY <1>6, <2>2 DEF HearPeer
  <2> QED
    BY <1>2, <1>6, <2>3 DEF HearPeer
<1>7. CASE HearThird(p)
  BY <1>2, <1>7 DEF HearThird
<1> QED
  BY <1>4, <1>5, <1>6, <1>7 DEF Hear

LEMMA ConnectionType ==
    ASSUME TypeOK, NEW p \in Programs,
           SetDescription(p) \/ Create(p) \/ OnIceCandidate(p)
    PROVE TypeOK'
PROOF
<1> USE DEF TypeOK, Conns, Operations, SignalRecords, Mails
<1>1. CASE SetDescription(p)
  <2>1. conn[p] \in Conns /\ conn[p].chain # <<>>
    BY <1>1 DEF SetDescription
  <2>2. [conn[p] EXCEPT !.chain = Tail(conn[p].chain)] \in Conns
    BY <2>1, HeadOfChain, ChainConn
  <2>3. \A s \in States : Done(conn[p], s) \in Conns
    BY <2>1, DoneConn
  <2>4. PICK c \in Conns : conn' = [conn EXCEPT ![p] = c]
    <3> HIDE DEF Conns, TypeOK
    <3> QED BY <1>1, <2>2, <2>3 DEF SetDescription
  <2>5. conn' \in [Programs -> Conns]
    BY <2>4
  <2> QED
    BY <1>1, <2>5 DEF SetDescription
<1>2. CASE OnSuccess(p)
  <2> DEFINE offer == Head(conn[p].chain).op = "CreateOffer"
             next == Operation(IF offer THEN "SetLocalOffer" ELSE "SetLocalAnswer", 0)
             told == Signal(IF offer THEN "offer" ELSE "answer", call[p], conn[p].remote)
  <2>1. conn[p] \in Conns /\ conn[p].chain # <<>>
    BY <1>2 DEF OnSuccess
  <2>2. next \in Operations
    BY DEF Operation, Settings
  <2>3. Append(Tail(conn[p].chain), next) \in Seq(Operations)
    BY <2>1, <2>2, HeadOfChain, AppendProperties
  <2>4. [conn[p] EXCEPT !.chain = Append(Tail(conn[p].chain), next)] \in Conns
    BY <2>1, <2>3, ChainConn
  <2>5. told \in SignalRecords
    BY DEF Signal, Signals
  <2>6. Append(outbox[p], told) \in Seq(SignalRecords)
    BY <2>5, AppendProperties
  <2>7. /\ conn' = [conn EXCEPT ![p].chain = Append(Tail(@), next)]
        /\ outbox' = [outbox EXCEPT ![p] = Append(@, told)]
    BY <1>2 DEF OnSuccess
  <2>8. conn' \in [Programs -> Conns]
    BY <2>4, <2>7
  <2>9. outbox' \in [Programs -> Seq(SignalRecords)]
    BY <2>6, <2>7
  <2> QED
    BY <1>2, <2>8, <2>9 DEF OnSuccess
<1>3. CASE OnFailure(p)
  <2>1. conn[p] \in Conns /\ conn[p].chain # <<>>
    BY <1>3 DEF OnFailure
  <2>2. [conn[p] EXCEPT !.chain = Tail(conn[p].chain)] \in Conns
    BY <2>1, HeadOfChain, ChainConn
  <2>3. conn' \in [Programs -> Conns]
    BY <1>3, <2>2 DEF OnFailure
  <2>4. mishaps' \in 0..MaxMishaps
    BY <1>3, BoundsAssumption DEF OnFailure
  <2> QED
    BY <1>3, <2>3, <2>4 DEF OnFailure
<1>4. CASE OnIceCandidate(p)
  <2>1. [conn[p] EXCEPT !.gathered = TRUE] \in Conns
    OBVIOUS
  <2>2. conn' \in [Programs -> Conns]
    BY <1>4, <2>1 DEF OnIceCandidate
  <2>3. Signal("candidate", call[p], conn[p].remote) \in SignalRecords
    BY DEF Signal, Signals
  <2>4. Append(outbox[p], Signal("candidate", call[p], conn[p].remote)) \in Seq(SignalRecords)
    BY <2>3, AppendProperties
  <2>5. outbox' \in [Programs -> Seq(SignalRecords)]
    BY <1>4, <2>4 DEF OnIceCandidate
  <2> QED
    BY <1>4, <2>2, <2>5 DEF OnIceCandidate
<1> QED
  BY <1>1, <1>2, <1>3, <1>4 DEF Create

LEMMA SendType ==
    ASSUME TypeOK, NEW p \in Programs, SendToPeer(p)
    PROVE TypeOK'
PROOF
<1> USE DEF TypeOK, Conns, Operations, SignalRecords, Mails
<1>1. outbox[p] \in Seq(SignalRecords) /\ outbox[p] # <<>>
  BY DEF SendToPeer
<1>2. Head(outbox[p]) \in SignalRecords /\ Tail(outbox[p]) \in Seq(SignalRecords)
  BY <1>1, HeadTailProperties
<1>3. Post(p, peer[p], Head(outbox[p])) \in [Programs -> Seq(Mails)]
  BY <1>2, PostType, TypeRestated
<1> QED
  BY <1>2, <1>3 DEF SendToPeer

\* Every variable keeps its type, whatever the programs and the calls.
THEOREM TypeCorrect == Spec => []TypeOK
PROOF
<1>1. Init => TypeOK
  <2> SUFFICES ASSUME Init PROVE TypeOK
    OBVIOUS
  <2>1. New \in Conns
    BY DEF New, Conns, States
  <2>2. Len(Plan) \in Nat
    BY BoundsAssumption, LenProperties
  <2>3. conn \in [Programs -> Conns]
    BY <2>1 DEF Init
  <2>4. /\ <<>> \in Seq(SignalRecords)
        /\ <<>> \in Seq(Mails)
    OBVIOUS
  <2>5. /\ outbox \in [Programs -> Seq(SignalRecords)]
        /\ inbox \in [Programs -> Seq(Mails)]
    BY <2>4 DEF Init
  <2>6. /\ calls \in 0..Len(Plan)
        /\ mishaps \in 0..MaxMishaps
    BY <2>2, BoundsAssumption DEF Init
  <2>7. /\ online \in [Programs -> BOOLEAN]
        /\ peer \in [Programs -> Programs \cup {None}]
        /\ call \in [Programs -> Nat]
        /\ disturbed \in BOOLEAN
    BY DEF Init
  <2> QED
    BY <2>3, <2>5, <2>6, <2>7, TypeRestated
<1>2. TypeOK /\ [Next]_vars => TypeOK'
  <2> SUFFICES ASSUME TypeOK, [Next]_vars PROVE TypeOK'
    OBVIOUS
  <2>1. CASE UNCHANGED vars
    BY <2>1 DEF vars, TypeOK
  <2>2. CASE \E p \in Programs :
               \/ User(p) \/ Hear(p) \/ SendToPeer(p)
               \/ SetDescription(p) \/ Create(p) \/ OnIceCandidate(p)
    BY <2>2, UserType, HearType, SendType, ConnectionType
  <2> QED
    BY <2>1, <2>2 DEF Next, Idle
<1> QED
  BY <1>1, <1>2, PTL DEF Spec
=============================================================================
