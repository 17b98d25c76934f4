----------------------------- MODULE CallAgreement -----------------------------
(***************************************************************************)
(* The inductive invariant of Call: what is true, as long as nothing has   *)
(* disturbed a conversation, of two programs and of every message between  *)
(* them.  It is proved in CallAgreementProofs.                             *)
(***************************************************************************)
EXTENDS Call

\* What p has sent to q and q has not heard.
Mail(p, q) == {inbox[q][i].signal : i \in {j \in DOMAIN inbox[q] : inbox[q][j].from = p}}

\* What p has signalled for its last connection and not sent.
Said(p) == {outbox[p][i] : i \in {j \in DOMAIN outbox[p] : outbox[p][j].call = call[p]}}

\* The connections that operations in a chain are for.
CallsOf(chain, ops) == {chain[i].call : i \in {j \in DOMAIN chain : chain[j].op \in ops}}

\* The connections of the peer an answer of which p is to apply; a description of which
\* p has, applied or to be applied.
Due(p) == CallsOf(conn[p].chain, {"SetRemoteAnswer"})
Known(p) == (CallsOf(conn[p].chain, Remote) \cup {conn[p].remote}) \ {0}

HasToCall(p) == CallsOf(conn[p].chain, {"CreateOffer"}) # {}

\* p has an offer to make, or to send.
Unsaid(p) == peer[p] # None /\ (HasToCall(p) \/ \E s \in Said(p) : s.kind = "offer")

\* p has applied an offer and not answered it.
Owes(p) ==
    /\ conn[p].sdp = "have-remote-offer"
    /\ conn[p].chain # <<>>
    /\ Head(conn[p].chain).op = "CreateAnswer"

\* p has not answered anything, nor had an answer.
Early(p) == conn[p].remote = 0 \/ Owes(p)

\* The connections of p a description of which q has, as what it has or has said shows.
Learnt(q, p) ==
    ({s.to : s \in Mail(q, p)}
       \cup IF peer[q] = p THEN Known(q) \cup {s.to : s \in Said(q)} ELSE {}) \ {0}

Gone(q, p) == \E s \in Mail(q, p) : s.kind = "left"

\* Connection m of q is its conversation with p, or p is to hear of its end.
Live(q, p, m) ==
    \/ peer[q] = p /\ call[q] = m
    \/ \E s \in Mail(q, p) : s.kind = "bye" /\ s.call = m
    \/ call[q] = m /\ Gone(q, p)

-----------------------------------------------------------------------------
(* The order of messages.                                                  *)

\* What a program says comes in the order of its connections; of each, first the offer,
\* the answer before anything that is meant for a connection of the peer, the BYE last.
Precedes(x, y) ==
    /\ x.kind # "left"
    /\ \/ y.kind = "left"
       \/ x.call < y.call
       \/ /\ x.call = y.call
          /\ x.kind # "bye"
          /\ y.kind # "offer"
          /\ y.kind = "answer" => x.to = 0

InboxInOrder(p) ==
    \A i, j \in DOMAIN inbox[p] :
       i < j /\ inbox[p][i].from = inbox[p][j].from =>
          Precedes(inbox[p][i].signal, inbox[p][j].signal)

OutboxInOrder(p) ==
    /\ \A i \in DOMAIN outbox[p] : outbox[p][i].call <= call[p]
    /\ \A i, j \in DOMAIN outbox[p] :
          i < j /\ outbox[p][i].call = call[p] /\ outbox[p][j].call = call[p] =>
             Precedes(outbox[p][i], outbox[p][j])

-----------------------------------------------------------------------------
(* One program.                                                            *)

\* A program without a session has nothing, and one without a peer no connection.
Presence(p) ==
    /\ peer[p] # p
    /\ ~online[p] => peer[p] = None /\ outbox[p] = <<>> /\ inbox[p] = <<>>
    /\ peer[p] = None => conn[p] = New
    /\ peer[p] # None => call[p] # 0

\* The stages of a connection: it makes an offer, sets it, and waits for the answer; or
\* applies an offer and answers it; and is settled.  A description that cannot be set,
\* or answered, only goes.
Only(chain, ops) == \A i \in DOMAIN chain : chain[i].op \in ops

Offers(c) ==
    /\ c.sdp = "stable" /\ c.remote = 0 /\ ~c.local /\ c.caller
    /\ \/ c.chain = <<Operation("CreateOffer", 0)>>
       \/ \E i \in DOMAIN c.chain :
             c.chain = <<Operation("CreateOffer", 0),
                         Operation("SetRemoteOffer", c.chain[i].call),
                         Operation("CreateAnswer", 0)>>
Sets(c) ==
    /\ c.sdp = "stable" /\ c.remote = 0 /\ ~c.local /\ c.caller
    /\ c.chain = <<Operation("SetLocalOffer", 0)>>
Accepts(c) ==
    /\ c.sdp = "stable" /\ c.remote = 0 /\ ~c.local
    /\ \E i \in DOMAIN c.chain :
          LET set == Operation("SetRemoteOffer", c.chain[i].call) IN
          \/ c.chain = <<set, Operation("CreateAnswer", 0)>>
          \/ c.chain = <<set, Operation("CreateAnswer", 0), Operation("SetLocalOffer", 0)>>
Waiting(c) ==
    /\ c.sdp = "have-local-offer" /\ c.remote = 0
    /\ Only(c.chain, {"SetRemoteOffer", "CreateAnswer", "SetRemoteAnswer"})
    /\ \A i, j \in DOMAIN c.chain :
          i < j /\ c.chain[i].op = "SetRemoteAnswer" => c.chain[j].op # "SetRemoteOffer"
Answers(c) ==
    /\ c.sdp = "have-remote-offer" /\ c.remote # 0 /\ ~c.local
    /\ c.chain # <<>>
    /\ \E op \in {"CreateAnswer", "SetLocalAnswer"} :
          LET k == IF op = "CreateAnswer" THEN 1 ELSE Len(c.chain) IN
          /\ c.chain[k].op = op
          /\ \A i \in DOMAIN c.chain \ {k} : c.chain[i].op \in {"SetLocalOffer", "SetRemoteAnswer"}
Settled(c) ==
    /\ c.sdp = "stable" /\ c.remote # 0
    /\ Only(c.chain, {"CreateAnswer", "SetRemoteAnswer"})

Stage(c) ==
    /\ \A i \in DOMAIN c.chain : c.chain[i].op \in Remote => c.chain[i].call # 0
    /\ Offers(c) \/ Sets(c) \/ Accepts(c) \/ Waiting(c) \/ Answers(c) \/ Settled(c)

Staged(p) == peer[p] # None => Stage(conn[p])

\* What is said agrees with what the connection has done.
Speaks(p) ==
    /\ \A s \in Said(p) :
          /\ s.kind = "answer" => s.to # 0
          /\ s.kind = "offer" /\ peer[p] # None => conn[p].caller
          /\ Early(p) /\ peer[p] # None => s.to = 0
    /\ HasToCall(p) => Said(p) = {}
    /\ Sets(conn[p]) => \E s \in Said(p) : s.kind = "offer"

-----------------------------------------------------------------------------
(* Two programs.                                                           *)

\* What q is to hear from p.
Posted(p, q) ==
    /\ \A s \in Mail(p, q) :
          /\ p # q
          /\ s.kind = "left" => ~online[p]
          /\ s.kind # "left" => 0 < s.call /\ s.call <= call[p]
          /\ s.kind = "bye" => s.call < call[p] \/ peer[p] = None
          /\ s.kind = "answer" => s.to # 0
          /\ s.kind # "left" /\ Unsaid(p) => s.call < call[p]
          /\ s.kind # "left" /\ s.call = call[p] /\ peer[p] # None
                /\ (Early(p) \/ \E a \in Said(p) : a.kind = "answer") => s.to = 0
    /\ ~online[p] /\ (peer[q] = p \/ Mail(p, q) # {}) => Gone(p, q)

\* q has a description of p only when it has heard all that came before it.
HeardFirst(q, p) ==
    \A t \in Learnt(q, p) :
       /\ t <= call[p]
       /\ \A s \in Mail(p, q) :
             s.kind # "left" => t <= s.call /\ (s.call = t => s.kind # "offer")
       /\ call[p] = t => ~Unsaid(p)

\* The description of its peer that p has is of a connection that is in conversation
\* with it, or of the end of which it is to hear.
KnownIsLive(p, q) == peer[p] = q => \A m \in Known(p) : Live(q, p, m)

\* The same of the descriptions p is to take.
OfferIsLive(p, q) ==
    \A s \in Mail(q, p) :
       s.kind = "offer" =>
          /\ Live(q, p, s.call)
          /\ peer[q] # None /\ call[q] = s.call => conn[q].caller
AnswerIsLive(p, q) ==
    \A s \in Mail(q, p) :
       s.kind = "answer" /\ peer[p] = q /\ s.to = call[p] => Live(q, p, s.call)

\* A BYE for a connection of q was of another connection of p than one that knows it.
ByeIsPast(p, q) ==
    peer[p] = q =>
       \A s \in Mail(p, q) : s.kind = "bye" => s.to \notin Known(p)

\* What p knows of a connection that makes no offer is its answer to this call of p.
CalleeHeard(p, q) ==
    peer[p] = q /\ peer[q] = p /\ call[q] \in Known(p) /\ ~conn[q].caller =>
       \A s \in Mail(p, q) : call[p] <= s.call

\* p waits for an answer: the offer is under way, or has come to q in its conversation
\* with p, which has not ended, or p is to hear of its end.
OfferIsHeard(p, q) ==
    peer[p] = q /\ conn[p].sdp = "have-local-offer" =>
       \/ Unsaid(p)
       \/ \E s \in Mail(p, q) : s.kind = "offer" /\ s.call = call[p]
       \/ /\ peer[q] = p \/ \E s \in Mail(q, p) : s.kind \in News
          /\ \A s \in Mail(p, q) : call[p] <= s.call

\* If it has been applied then the answer is to come.
AnswerIsDue(p, q) ==
    /\ peer[p] = q
    /\ peer[q] = p
    /\ conn[p].sdp = "have-local-offer"
    /\ conn[q].remote = call[p]
    =>
    \/ Owes(q)
    \/ \E s \in Said(q) \cup Mail(q, p) : s.kind = "answer" /\ s.to = call[p] /\ s.call = call[q]
    \/ Due(p) # {}

\* Who has answered has a description of the peer.
AnswererKnows(p, q) ==
    peer[p] = q /\ conn[p].remote = 0 =>
       /\ \A s \in Said(p) \cup Mail(p, q) : s.call = call[p] => s.kind # "answer"
       /\ peer[q] = p => call[p] \notin Due(q)

\* A candidate for a connection that waits for its answer comes behind it.
CandidateFollows(p, q) ==
    peer[p] = q /\ conn[p].sdp = "have-local-offer" /\ Due(p) = {} =>
       /\ \A s \in Mail(q, p) :
             s.kind = "candidate" /\ s.to = call[p] =>
                \E a \in Mail(q, p) : a.kind = "answer" /\ a.to = call[p] /\ a.call = s.call
       /\ peer[q] = p =>
             \A s \in Said(q) :
                s.kind = "candidate" /\ s.to = call[p] =>
                   \E a \in Said(q) \cup Mail(q, p) :
                      a.kind = "answer" /\ a.to = call[p] /\ a.call = call[q]

-----------------------------------------------------------------------------
Each(p) ==
    Presence(p) /\ Staged(p) /\ Speaks(p) /\ InboxInOrder(p) /\ OutboxInOrder(p)

Pair(p, q) ==
    /\ Posted(p, q) /\ HeardFirst(p, q) /\ KnownIsLive(p, q)
    /\ OfferIsLive(p, q) /\ AnswerIsLive(p, q) /\ ByeIsPast(p, q) /\ CalleeHeard(p, q)
    /\ OfferIsHeard(p, q) /\ AnswerIsDue(p, q) /\ AnswererKnows(p, q) /\ CandidateFollows(p, q)

Agreed ==
    /\ \A p \in Programs : Each(p)
    /\ \A p, q \in Programs : Pair(p, q)

Agreement == ~disturbed => Agreed
=============================================================================
