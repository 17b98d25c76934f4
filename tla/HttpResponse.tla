-------------------------------- MODULE HttpResponse --------------------------------
(***************************************************************************)
(* How the signalling client finds the answers of the server in the bytes  *)
(* it receives on one of its connections (peer_connection_client.cc):      *)
(* ReadIntoBuffer(), GetHeaderValue(), GetResponseStatus(),                *)
(* ParseServerResponse(), and what becomes of the buffer, control_data_ or *)
(* notification_data_.                                                     *)
(*                                                                         *)
(* A buffer is a sequence of lines, each a kind and a number, with the     *)
(* line end before it: what is received of a line before the next one      *)
(* changes nothing that the code looks for.  A line of the body may look   *)
(* like one of the header: the code searches the whole buffer for it.      *)
(* Content-Length counts lines.                                            *)
(***************************************************************************)
EXTENDS Integers, Sequences

CONSTANTS
    Ids,        \* the ids of the members
    Answers,    \* the answers the server may give
    SizeRange,  \* the number of values of size_t
    MaxAnswers  \* bound: answers given

\* What atoi() may return: an int is no wider than a size_t.
Numbers == -SizeRange..(SizeRange - 1)

\* The lines of a header that the client looks for; "blank" ends the header.
FieldKinds == {"length", "pragma", "close"}
Lines == [kind : {"status", "length", "close", "blank", "text"}, n : Numbers]
           \cup [kind : {"pragma"}, n : Ids]
Line(kind, n) == [kind |-> kind, n |-> n]

\* A header has no line twice, and a size_t holds the length of every answer.
ASSUME IdsAssumption == Ids \subseteq Nat \ {0}
ASSUME AnswersAssumption ==
    /\ Answers \subseteq [status : Numbers, fields : Seq(Lines), body : Seq(Lines)]
    /\ \A a \in Answers : \A i, j \in DOMAIN a.fields :
          /\ a.fields[i].kind \in FieldKinds
          /\ a.fields[i].kind = a.fields[j].kind => i = j
ASSUME SizeAssumption ==
    /\ SizeRange \in Nat
    /\ \A a \in Answers : 2 + Len(a.fields) + Len(a.body) < SizeRange
ASSUME BoundAssumption == MaxAnswers \in Nat

VARIABLES
    open,       \* the connection is up
    wire,       \* what the server has sent on it and the client has not received
    data,       \* the buffer
    answers,    \* the answers given, without those of which nothing was received
    taken,      \* what the client has taken for answers
    clean       \* so far the lengths were right, no answer was cut off, and none was
                \* given before the one before it had been received

vars == <<open, wire, data, answers, taken, clean>>

\* What the client makes of an answer: refused, or a peer id and a body.
Refused == [ok |-> FALSE, peer |-> -1, body |-> <<>>]
Result(peer, body) == [ok |-> TRUE, peer |-> peer, body |-> body]

TypeOK ==
    /\ open \in BOOLEAN
    /\ wire \in Seq(Lines)
    /\ data \in Seq(Lines)
    /\ answers \in Seq(Answers) /\ Len(answers) <= MaxAnswers
    /\ taken \in Seq([ok : BOOLEAN, peer : Ids \cup {-1}, body : Seq(Lines)])
    /\ clean \in BOOLEAN

Init ==
    /\ open = FALSE
    /\ wire = <<>>
    /\ data = <<>>
    /\ answers = <<>>
    /\ taken = <<>>
    /\ clean = TRUE

-----------------------------------------------------------------------------
(* The parser.                                                             *)

\* find(): where the first line of this kind is, if there is one.
Find(d, kind) ==
    {i \in DOMAIN d : d[i].kind = kind /\ \A j \in 1..(i - 1) : d[j].kind # kind}

\* Mutant: what is found behind the header counts.
HeaderValueAnywhere(d, eoh, kind) == {d[i].n : i \in Find(d, kind)}

\* GetHeaderValue(): nothing when the first such line comes behind the header.
HeaderValue(d, eoh, kind) == {d[i].n : i \in {j \in Find(d, kind) : j < eoh}}

\* Integers as size_t: a negative one wraps, and so does a sum.
SizeT(n) == IF n < 0 THEN n + SizeRange ELSE n
Sum(a, b) == IF a + b >= SizeRange THEN a + b - SizeRange ELSE a + b

\* Mutant: one line more is waited for.
WholeAndMore(d, eoh) ==
    \E n \in HeaderValue(d, eoh, "length") : Len(d) > Sum(eoh, SizeT(n))

\* ReadIntoBuffer(): all of the answer has been received.
Whole(d, eoh) ==
    \E n \in HeaderValue(d, eoh, "length") : Len(d) >= Sum(eoh, SizeT(n))

\* GetResponseStatus(): the number behind the first space of the buffer, which may be
\* any when the buffer does not begin with a status line.
Statuses(d) == IF d[1].kind = "status" THEN {d[1].n} ELSE {200, -1}

\* Mutant: *peer_id is not set to -1 first.
ParseUnset(d, eoh, status) ==
    IF status # 200 THEN Refused
    ELSE Result(IF HeaderValue(d, eoh, "pragma") = {} THEN 0
                  ELSE CHOOSE n \in HeaderValue(d, eoh, "pragma") : TRUE,
                SubSeq(d, eoh + 1, Len(d)))

\* ParseServerResponse(): *peer_id, and the body, which is the rest of the buffer.
Parse(d, eoh, status) ==
    IF status # 200 THEN Refused
    ELSE Result(IF HeaderValue(d, eoh, "pragma") = {} THEN -1
                  ELSE CHOOSE n \in HeaderValue(d, eoh, "pragma") : TRUE,
                SubSeq(d, eoh + 1, Len(d)))

-----------------------------------------------------------------------------
(* The server.                                                             *)

Bytes(a) == <<Line("status", a.status)>> \o a.fields \o <<Line("blank", 0)>> \o a.body

\* The Content-Length is that of the body.
Honest(a) == \E i \in DOMAIN a.fields : a.fields[i] = Line("length", Len(a.body))

\* What the server means by an answer.
Meant(a) ==
    IF a.status # 200 THEN Refused
    ELSE Result(IF \E i \in DOMAIN a.fields : a.fields[i].kind = "pragma"
                  THEN a.fields[CHOOSE i \in DOMAIN a.fields : a.fields[i].kind = "pragma"].n
                  ELSE -1,
                a.body)

\* Connect() on the socket: the buffer is left as it is.
Connect ==
    /\ ~open
    /\ open' = TRUE
    /\ UNCHANGED <<wire, data, answers, taken, clean>>

Answer(a) ==
    /\ open
    /\ Len(answers) < MaxAnswers
    /\ wire' = wire \o Bytes(a)
    /\ answers' = Append(answers, a)
    /\ clean' = (clean /\ wire = <<>> /\ Honest(a))
    /\ UNCHANGED <<open, data, taken>>

\* The connection is lost, with what is on its way.
Lose ==
    /\ open
    /\ open' = FALSE
    /\ wire' = <<>>
    /\ \/ /\ wire # <<>> /\ data = <<>> /\ clean
          /\ answers' = SubSeq(answers, 1, Len(answers) - 1)
          /\ UNCHANGED clean
       \/ /\ wire = <<>> \/ data # <<>> \/ ~clean
          /\ clean' = (clean /\ wire = <<>>)
          /\ UNCHANGED answers
    /\ UNCHANGED <<data, taken>>

-----------------------------------------------------------------------------
(* OnRead() and OnHangingGetRead(): all that has arrived is read.          *)

\* The answer is not whole: the buffer keeps it.
KeepReading(d, rest) ==
    /\ ~\E eoh \in Find(d, "blank") : Whole(d, eoh)
    /\ data' = d
    /\ wire' = rest
    /\ UNCHANGED <<open, taken>>

\* It is, is taken with all that is behind it, and the buffer cleared.  The connection
\* is closed, with what has not arrived, when the header asks for it or the server refuses.
TakeAnswer(d, rest) ==
    \E eoh \in Find(d, "blank"), status \in Statuses(d) :
       LET close == HeaderValue(d, eoh, "close") # {} \/ status # 200 IN
       /\ Whole(d, eoh)
       /\ taken' = Append(taken, Parse(d, eoh, status))
       /\ data' = <<>>
       /\ open' = ~close
       /\ wire' = IF close THEN <<>> ELSE rest

Read ==
    \E n \in 1..Len(wire) :
       LET d == data \o SubSeq(wire, 1, n)
           rest == SubSeq(wire, n + 1, Len(wire))
       IN
       /\ KeepReading(d, rest) \/ TakeAnswer(d, rest)
       /\ UNCHANGED <<answers, clean>>

-----------------------------------------------------------------------------
Next ==
    \/ Connect
    \/ \E a \in Answers : Answer(a)
    \/ Lose
    \/ Read

Spec == Init /\ [][Next]_vars

\* What the server has sent arrives, unless the connection is lost.
FairSpec == Spec /\ WF_vars(Read)

-----------------------------------------------------------------------------
(* Properties.                                                             *)

\* Whatever pieces the answers arrive in and whatever their bodies look like, the client
\* takes each as it was meant, once, in order, and none before it is whole; between two
\* answers nothing of one is left in the buffer for the next.  The lengths are right, and
\* no answer has been cut off or overtaken by the next.
TakenAsMeant ==
    clean =>
       /\ Len(taken) \in {Len(answers) - 1, Len(answers)}
       /\ \A i \in DOMAIN taken : taken[i] = Meant(answers[i])
       /\ wire = <<>> => data = <<>> /\ Len(taken) = Len(answers)

\* Liveness.  Under the same conditions an answer given is taken, or lost as a whole.
AnswerIsTaken == Len(answers) > Len(taken) ~> Len(answers) = Len(taken) \/ ~clean
=============================================================================
