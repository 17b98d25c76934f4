--------------------------- MODULE SignallingSession ---------------------------
(***************************************************************************)
(* What the signalling client promises the program that uses it: sessions  *)
(* at a server, each with an id and a list of members, and an observer     *)
(* that is told of everything that happens to them.  There are no sockets, *)
(* retries, resolvers or buffers here.  PeerConnectionClient implements    *)
(* this specification (peer_connection_client.cc, with the observer's      *)
(* methods in peer_connection_client.h).                                   *)
(***************************************************************************)
CONSTANTS
    Ids,    \* the ids the server may assign to its members
    NoId    \* the id of a client that has none

VARIABLES
    phase,      \* "out" of any session, "seeking" one, "in" one, "leaving" it
    id,         \* the id in the session
    members,    \* the other members that are known
    told        \* what the last step told the program

vars == <<phase, id, members, told>>

Call(cb, p) == [cb |-> cb, id |-> p]
SignedIn == Call("OnSignedIn", NoId)
Disconnected == Call("OnDisconnected", NoId)
Failure == Call("OnServerConnectionFailure", NoId)
MessageSent == Call("OnMessageSent", NoId)
ReturnedFalse == Call("false", NoId)

Init ==
    /\ phase = "out"
    /\ id = NoId
    /\ members = {}
    /\ told = {}

-----------------------------------------------------------------------------
\* A step tells of its calls, and perhaps that a message has been sent.
Tells(calls) == told' \in {calls, calls \cup {MessageSent}}

\* A session is sought, because the user asks for it or a retry comes due; also by a
\* client that was leaving, which is then in its session again, or seeks one.
Seek ==
    /\ phase \in {"out", "leaving"}
    /\ phase' = IF id = NoId THEN "seeking" ELSE "in"
    /\ Tells({})
    /\ UNCHANGED <<id, members>>

\* The server admits the client: the observer is told of every member, and that it is
\* signed in.  A client that is leaving is admitted all the same.
Admit(i, list) ==
    /\ phase \in {"seeking", "leaving"}
    /\ id = NoId
    /\ phase' = IF phase = "seeking" THEN "in" ELSE phase
    /\ id' = i
    /\ members' = list
    /\ Tells({Call("OnPeerConnected", p) : p \in list} \cup {SignedIn})

\* Of other members the observer hears only inside a session.
Join(p) ==
    /\ phase = "in"
    /\ members' = members \cup {p}
    /\ told' = {Call("OnPeerConnected", p)}
    /\ UNCHANGED <<phase, id>>

\* A member has left the server, or said BYE, which leaves it in the list.
Part(p) ==
    /\ phase = "in"
    /\ members' \in {members, members \ {p}}
    /\ told' = {Call("OnPeerDisconnected", p)}
    /\ UNCHANGED <<phase, id>>

\* A message has come, and the observer may sign out at once.
Receive(p) ==
    /\ phase = "in"
    /\ phase' \in {"in", "leaving"}
    /\ told' = {Call("OnMessageFromPeer", p)}
    /\ UNCHANGED <<id, members>>

SignOut ==
    /\ phase \in {"seeking", "in"}
    /\ phase' = "leaving"
    /\ Tells({})
    /\ UNCHANGED <<id, members>>

\* The end of a session, or of the search for one: nothing is left of it.  The program
\* is told unless it was leaving; a message may be what it was about to be told.
End ==
    /\ phase' = "out"
    /\ id' = NoId
    /\ members' = {}
    /\ \E calls \in SUBSET {Disconnected, Failure, ReturnedFalse} :
          /\ phase = "leaving" \/ calls # {}
          /\ \/ Tells(calls)
             \/ phase = "in" /\ \E p \in Ids \ {id} :
                                   told' = calls \cup {Call("OnMessageFromPeer", p)}

\* Nothing happens to the session: a request is refused or made, a message is sent.
\* Only a client without an id is told that it cannot connect.
Carry ==
    /\ \/ told' \subseteq {MessageSent, ReturnedFalse}
       \/ id = NoId /\ told' = {Failure}
    /\ UNCHANGED <<phase, id, members>>

Next ==
    \/ Seek
    \/ \E i \in Ids : \E list \in SUBSET (Ids \ {i}) : Admit(i, list)
    \/ \E p \in Ids \ {id} : Join(p) \/ Part(p) \/ Receive(p)
    \/ SignOut
    \/ End
    \/ Carry

Spec == Init /\ [][Next]_vars
=============================================================================
