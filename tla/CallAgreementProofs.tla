-------------------------- MODULE CallAgreementProofs --------------------------
(***************************************************************************)
(* Two programs agree on their conversation: the invariant of              *)
(* CallAgreement, and what follows from it, for any number of programs and *)
(* calls.                                                                  *)
(***************************************************************************)
EXTENDS CallAgreement, CallProofs

MailSignals == [kind : Signals \cup News, call : Nat, to : Nat]

-----------------------------------------------------------------------------
(* Sequences.                                                              *)

\* Where the elements of a queue are when its head has gone.
LEMMA TailElements ==
    ASSUME NEW S, NEW s \in Seq(S), s # <<>>
    PROVE /\ 1 \in DOMAIN s /\ s[1] = Head(s)
          /\ \A i \in DOMAIN s : i = 1 \/ (i - 1 \in DOMAIN Tail(s) /\ Tail(s)[i - 1] = s[i])
          /\ \A i \in DOMAIN Tail(s) :
                i + 1 \in DOMAIN s /\ s[i + 1] = Tail(s)[i] /\ 1 < i + 1
          /\ \A i, j \in DOMAIN Tail(s) : i < j => i + 1 < j + 1
PROOF
<1>1. /\ Len(s) \in Nat /\ Len(s) > 0
      /\ DOMAIN s = 1..Len(s)
      /\ Head(s) = s[1]
      /\ DOMAIN Tail(s) = 1..(Len(s) - 1)
      /\ \A i \in 1..(Len(s) - 1) : Tail(s)[i] = s[i + 1]
  OBVIOUS
<1> QED
  BY <1>1

\* What is last stays last.
LEMMA TailLast ==
    ASSUME NEW S, NEW s \in Seq(S), s # <<>>, Len(s) # 1
    PROVE /\ Tail(s) # <<>>
          /\ Tail(s)[Len(Tail(s))] = s[Len(s)]
          /\ \A i \in DOMAIN Tail(s) \ {Len(Tail(s))} :
                i + 1 \in DOMAIN s \ {Len(s)} /\ Tail(s)[i] = s[i + 1]
PROOF
<1> DEFINE n == Len(s)
<1>1. n \in Nat /\ n # 0 /\ n # 1
  BY EmptySeq
<1>2. /\ DOMAIN s = 1..n
      /\ Len(Tail(s)) = n - 1
      /\ DOMAIN Tail(s) = 1..(n - 1)
      /\ \A i \in 1..(n - 1) : Tail(s)[i] = s[i + 1]
  OBVIOUS
<1>3. Tail(s) # <<>>
  <2>1. DOMAIN <<>> = {}
    OBVIOUS
  <2>2. 1 \in DOMAIN Tail(s)
    BY <1>1, <1>2
  <2> QED
    BY <2>1, <2>2
<1> HIDE DEF n
<1>4. /\ n - 1 \in 1..(n - 1) /\ (n - 1) + 1 = n
      /\ \A i \in 1..(n - 1) \ {n - 1} : i + 1 \in 1..n \ {n}
  BY <1>1
<1> QED
  BY <1>2, <1>3, <1>4 DEF n

\* Chains of which every operation is known.
LEMMA Tuples ==
    ASSUME NEW a, NEW b, NEW c
    PROVE /\ Head(<<a>>) = a /\ Tail(<<a>>) = <<>>
          /\ Head(<<a, b>>) = a /\ Tail(<<a, b>>) = <<b>>
          /\ Head(<<a, b, c>>) = a /\ Tail(<<a, b, c>>) = <<b, c>>
PROOF
  OBVIOUS

\* A sequence is what has been appended if it has the elements.
LEMMA AppendIs ==
    ASSUME NEW S, NEW s \in Seq(S), NEW t \in Seq(S), NEW e \in S,
           Len(t) = Len(s) + 1, t[Len(t)] = e, \A i \in 1..Len(s) : t[i] = s[i]
    PROVE Append(s, e) = t
PROOF
<1> DEFINE u == Append(s, e)
<1>1. /\ u \in Seq(S) /\ Len(u) = Len(s) + 1 /\ u[Len(s) + 1] = e
      /\ \A i \in 1..Len(s) : u[i] = s[i]
  BY AppendProperties
<1>2. Len(s) \in Nat
  OBVIOUS
<1> HIDE DEF u
<1>3. \A i \in 1..Len(u) : u[i] = t[i]
  BY <1>1, <1>2
<1>4. u = t
  BY <1>1, <1>3, SeqEqual
<1> QED
  BY <1>4 DEF u

\* Chains of which every operation is known, and one more.
LEMMA AppendOne ==
    ASSUME NEW a, NEW b
    PROVE Append(<<a>>, b) = <<a, b>>
PROOF
<1> DEFINE S == {a, b}
           s == <<a>>
           t == <<a, b>>
<1>1. s \in Seq(S) /\ Len(s) = 1 /\ s[1] = a
  OBVIOUS
<1>2. t \in Seq(S) /\ Len(t) = 2 /\ t[1] = a /\ t[2] = b
  OBVIOUS
<1>3. b \in S
  OBVIOUS
<1> HIDE DEF s, t, S
<1>4. Len(t) = Len(s) + 1 /\ t[Len(t)] = b /\ \A i \in 1..Len(s) : t[i] = s[i]
  BY <1>1, <1>2
<1>5. Append(s, b) = t
  BY <1>1, <1>2, <1>3, <1>4, AppendIs
<1> QED
  BY <1>5 DEF s, t

\* The same, for two.
LEMMA AppendTwo ==
    ASSUME NEW a, NEW b, NEW c
    PROVE Append(<<a, b>>, c) = <<a, b, c>>
PROOF
<1> DEFINE S == {a, b, c}
           s == <<a, b>>
           t == <<a, b, c>>
<1>1. s \in Seq(S) /\ Len(s) = 2 /\ s[1] = a /\ s[2] = b
  OBVIOUS
<1>2. t \in Seq(S) /\ Len(t) = 3 /\ t[1] = a /\ t[2] = b /\ t[3] = c
  OBVIOUS
<1>3. c \in S
  OBVIOUS
<1> HIDE DEF s, t, S
<1>4. Len(t) = Len(s) + 1 /\ t[Len(t)] = c /\ \A i \in 1..Len(s) : t[i] = s[i]
  BY <1>1, <1>2
<1>5. Append(s, c) = t
  BY <1>1, <1>2, <1>3, <1>4, AppendIs
<1> QED
  BY <1>5 DEF s, t

\* What comes together comes one after the other.
LEMMA ConcatAppend ==
    ASSUME NEW S, NEW s \in Seq(S), NEW a \in S, NEW b \in S
    PROVE s \o <<a>> = Append(s, a) /\ s \o <<a, b>> = Append(Append(s, a), b)
PROOF
<1>1. s \o <<a>> = Append(s, a)
  OBVIOUS
<1>2. s \o <<a, b>> = Append(Append(s, a), b)
  <2> DEFINE t == Append(s, a)
             u == Append(t, b)
             v == s \o <<a, b>>
  <2>1. v \in Seq(S) /\ Len(v) = Len(s) + 2 /\ v[Len(s) + 1] = a /\ v[Len(s) + 2] = b
        /\ \A i \in 1..Len(s) : v[i] = s[i]
    OBVIOUS
  <2>2. t \in Seq(S) /\ Len(t) = Len(s) + 1 /\ t[Len(s) + 1] = a
        /\ \A i \in 1..Len(s) : t[i] = s[i]
    OBVIOUS
  <2> HIDE DEF t, v
  <2>3. u \in Seq(S) /\ Len(u) = Len(t) + 1 /\ u[Len(t) + 1] = b
        /\ \A i \in 1..Len(t) : u[i] = t[i]
    BY <2>2
  <2> HIDE DEF u
  <2>4. \A i \in 1..Len(v) : v[i] = u[i]
    BY <2>1, <2>2, <2>3
  <2>5. u = v
    BY <2>1, <2>2, <2>3, <2>4
  <2> QED
    BY <2>5 DEF u, v, t
<1> QED
  BY <1>1, <1>2

\* Where they are when one more has come.
LEMMA AppendElements ==
    ASSUME NEW S, NEW s \in Seq(S), NEW e \in S
    PROVE LET more == Append(s, e)
              n == Len(s) + 1 IN
          /\ n \in DOMAIN more /\ more[n] = e
          /\ \A i \in DOMAIN more : i = n \/ (i \in DOMAIN s /\ more[i] = s[i])
          /\ \A i \in DOMAIN s : i \in DOMAIN more /\ more[i] = s[i] /\ i < n /\ ~(n < i)
          /\ ~(n < n)
PROOF
<1>1. /\ Len(s) \in Nat
      /\ DOMAIN s = 1..Len(s)
      /\ DOMAIN Append(s, e) = 1..(Len(s) + 1)
      /\ Append(s, e)[Len(s) + 1] = e
      /\ \A i \in 1..Len(s) : Append(s, e)[i] = s[i]
  OBVIOUS
<1> QED
  BY <1>1

\* The connections that a chain is for, when its head has gone.
LEMMA CallsTail ==
    ASSUME NEW ops, NEW chain \in Seq(Operations), chain # <<>>
    PROVE CallsOf(chain, ops) =
             IF Head(chain).op \in ops THEN CallsOf(Tail(chain), ops) \cup {Head(chain).call}
             ELSE CallsOf(Tail(chain), ops)
PROOF
<1> DEFINE rest == Tail(chain)
<1>1. /\ 1 \in DOMAIN chain /\ chain[1] = Head(chain)
      /\ \A i \in DOMAIN chain : i = 1 \/ (i - 1 \in DOMAIN rest /\ rest[i - 1] = chain[i])
      /\ \A i \in DOMAIN rest : i + 1 \in DOMAIN chain /\ chain[i + 1] = rest[i]
  BY TailElements
<1> HIDE DEF rest
<1>2. CallsOf(chain, ops) =
         IF Head(chain).op \in ops THEN CallsOf(rest, ops) \cup {Head(chain).call}
         ELSE CallsOf(rest, ops)
  BY <1>1 DEF CallsOf
<1> QED
  BY <1>2 DEF rest

\* The same, when one more has come.
LEMMA CallsAppend ==
    ASSUME NEW ops, NEW chain \in Seq(Operations), NEW op \in Operations
    PROVE CallsOf(Append(chain, op), ops) =
             IF op.op \in ops THEN CallsOf(chain, ops) \cup {op.call} ELSE CallsOf(chain, ops)
PROOF
<1> DEFINE more == Append(chain, op)
           n == Len(chain) + 1
<1>1. /\ n \in DOMAIN more /\ more[n] = op
      /\ \A i \in DOMAIN more : i = n \/ (i \in DOMAIN chain /\ more[i] = chain[i])
      /\ \A i \in DOMAIN chain : i \in DOMAIN more /\ more[i] = chain[i]
  BY AppendElements
<1> HIDE DEF more, n
<1>2. CallsOf(more, ops) =
         IF op.op \in ops THEN CallsOf(chain, ops) \cup {op.call} ELSE CallsOf(chain, ops)
  BY <1>1 DEF CallsOf
<1> QED
  BY <1>2 DEF more

\* An empty chain is for none.
LEMMA CallsEmpty ==
    ASSUME NEW ops
    PROVE CallsOf(<<>>, ops) = {}
PROOF
  BY DEF CallsOf

-----------------------------------------------------------------------------
(* Messages.                                                               *)

\* What is in the inbox of q, and in the outbox of p, by the two views.
LEMMA MailType ==
    ASSUME TypeOK, NEW p \in Programs, NEW q \in Programs
    PROVE /\ Mail(p, q) \subseteq MailSignals
          /\ Said(p) \subseteq SignalRecords
PROOF
<1>1. inbox[q] \in Seq(Mails) /\ outbox[p] \in Seq(SignalRecords)
  BY TypeRestated
<1>2. \A i \in DOMAIN inbox[q] : inbox[q][i] \in Mails
  BY <1>1
<1>3. \A i \in DOMAIN outbox[p] : outbox[p][i] \in SignalRecords
  BY <1>1
<1> QED
  BY <1>2, <1>3 DEF Mail, Said, Mails, MailSignals

\* The message that is taken.
LEMMA TakeType ==
    ASSUME TypeOK, NEW p \in Programs, Take(p)
    PROVE Sender(p) \in Programs /\ First(p) \in MailSignals
PROOF
  BY FirstType, TypeRestated DEF Take, MailSignals

\* What q has sent to p, and the order of it, when x has been taken.
LEMMA TakeMail ==
    ASSUME TypeOK, NEW p \in Programs, InboxInOrder(p), Take(p),
           NEW q \in Programs, q = Sender(p), NEW x, x = First(p)
    PROVE /\ Mail(q, p) = Mail(q, p)' \cup {x}
          /\ \A y \in Mail(q, p)' : Precedes(x, y)
          /\ \A r, s \in Programs : r # q \/ s # p => Mail(r, s)' = Mail(r, s)
          /\ InboxInOrder(p)'
          /\ \A r \in Programs \ {p} : inbox'[r] = inbox[r]
PROOF
<1> DEFINE box == inbox[p]
           rest == Tail(inbox[p])
<1>1. box \in Seq(Mails) /\ box # <<>>
  BY TypeRestated DEF Take
<1>2. /\ inbox'[p] = rest
      /\ \A r \in Programs \ {p} : inbox'[r] = inbox[r]
  BY TypeRestated DEF Take
<1>3. /\ 1 \in DOMAIN box /\ box[1] = Head(box)
      /\ \A i \in DOMAIN box : i = 1 \/ (i - 1 \in DOMAIN rest /\ rest[i - 1] = box[i])
      /\ \A i \in DOMAIN rest : i + 1 \in DOMAIN box /\ box[i + 1] = rest[i] /\ 1 < i + 1
      /\ \A i, j \in DOMAIN rest : i < j => i + 1 < j + 1
  BY <1>1, TailElements
<1>4. q = box[1].from /\ x = box[1].signal
  BY <1>3 DEF Sender, First
<1> HIDE DEF rest
<1>6. Mail(q, p) = Mail(q, p)' \cup {x}
  BY <1>2, <1>4, <1>3 DEF Mail
<1>7. \A y \in Mail(q, p)' : Precedes(x, y)
  <2>1. ASSUME NEW i \in DOMAIN rest, rest[i].from = q
        PROVE Precedes(x, rest[i].signal)
    BY <1>4, <1>3, <2>1 DEF InboxInOrder
  <2> QED
    BY <1>2, <2>1 DEF Mail
<1>8. ASSUME NEW r \in Programs, NEW s \in Programs, r # q \/ s # p
      PROVE Mail(r, s)' = Mail(r, s)
  <2>1. CASE s # p
    BY <1>2, <2>1 DEF Mail
  <2>2. CASE s = p
    BY <1>2, <1>4, <1>3, <1>8, <2>2 DEF Mail
  <2> QED
    BY <2>1, <2>2
<1>9. InboxInOrder(p)'
  <2>1. ASSUME NEW i \in DOMAIN rest, NEW j \in DOMAIN rest, i < j, rest[i].from = rest[j].from
        PROVE Precedes(rest[i].signal, rest[j].signal)
    BY <1>3, <2>1 DEF InboxInOrder
  <2> QED
    BY <1>2, <2>1 DEF InboxInOrder
<1> QED
  BY <1>2, <1>6, <1>7, <1>8, <1>9

\* A message that the server keeps for r.
LEMMA PostMail ==
    ASSUME TypeOK, NEW p \in Programs, NEW r \in Programs, NEW x \in MailSignals,
           inbox'[r] = Append(inbox[r], [from |-> p, signal |-> x])
    PROVE /\ Mail(p, r)' = Mail(p, r) \cup {x}
          /\ \A s \in Programs \ {p} : Mail(s, r)' = Mail(s, r)
          /\ InboxInOrder(r) /\ (\A y \in Mail(p, r) : Precedes(y, x)) => InboxInOrder(r)'
PROOF
<1> DEFINE box == inbox[r]
           m == [from |-> p, signal |-> x]
           more == Append(inbox[r], m)
           n == Len(box) + 1
<1>1. box \in Seq(Mails) /\ m \in Mails
  BY TypeRestated DEF Mails, MailSignals
<1>2. /\ n \in DOMAIN more /\ more[n] = m
      /\ \A i \in DOMAIN more : i = n \/ (i \in DOMAIN box /\ more[i] = box[i])
      /\ \A i \in DOMAIN box : i \in DOMAIN more /\ more[i] = box[i] /\ i < n /\ ~(n < i)
      /\ ~(n < n)
  BY <1>1, AppendElements
<1>3. m.from = p /\ m.signal = x
  OBVIOUS
<1>5. inbox'[r] = more
  OBVIOUS
<1> HIDE DEF box, m, more, n
<1>7. Mail(p, r)' = Mail(p, r) \cup {x}
  BY <1>2, <1>3, <1>5 DEF Mail, box
<1>8. \A s \in Programs \ {p} : Mail(s, r)' = Mail(s, r)
  BY <1>2, <1>3, <1>5 DEF Mail, box
<1>9. ASSUME InboxInOrder(r), \A y \in Mail(p, r) : Precedes(y, x)
      PROVE InboxInOrder(r)'
  <2> SUFFICES ASSUME NEW i \in DOMAIN more, NEW j \in DOMAIN more, i < j,
                      more[i].from = more[j].from
               PROVE Precedes(more[i].signal, more[j].signal)
    BY <1>5 DEF InboxInOrder
  <2>1. CASE j = n
    <3>1. i \in DOMAIN box /\ more[i] = box[i]
      BY <1>2, <2>1
    <3>2. box[i].from = p
      BY <1>2, <1>3, <2>1, <3>1
    <3>3. box[i].signal \in Mail(p, r)
      BY <3>1, <3>2 DEF Mail, box
    <3> QED
      BY <1>2, <1>3, <1>9, <2>1, <3>1, <3>3
  <2>2. CASE j # n
    <3>1. /\ j \in DOMAIN box /\ more[j] = box[j]
          /\ i \in DOMAIN box /\ more[i] = box[i]
      BY <1>2, <2>2
    <3> QED
      BY <1>9, <3>1 DEF InboxInOrder, box
  <2> QED
    BY <2>1, <2>2
<1> QED
  BY <1>7, <1>8, <1>9

\* Signalling one more, x.
LEMMA SayMore ==
    ASSUME TypeOK, NEW p \in Programs, NEW x \in SignalRecords, x.call = call[p],
           call'[p] = call[p], outbox'[p] = Append(outbox[p], x),
           OutboxInOrder(p), \A y \in Said(p) : Precedes(y, x)
    PROVE Said(p)' = Said(p) \cup {x} /\ OutboxInOrder(p)'
PROOF
<1> DEFINE box == outbox[p]
           more == Append(outbox[p], x)
           n == Len(box) + 1
<1>1. box \in Seq(SignalRecords)
  BY TypeRestated
<1>2. /\ n \in DOMAIN more /\ more[n] = x
      /\ \A i \in DOMAIN more : i = n \/ (i \in DOMAIN box /\ more[i] = box[i])
      /\ \A i \in DOMAIN box : i \in DOMAIN more /\ more[i] = box[i] /\ i < n /\ ~(n < i)
      /\ ~(n < n)
  BY <1>1, AppendElements
<1>3. outbox'[p] = more
  OBVIOUS
<1>4. x.call <= call[p]
  BY TypeRestated DEF SignalRecords
<1> HIDE DEF more, n
<1>5. Said(p)' = Said(p) \cup {x}
  BY <1>2, <1>3 DEF Said
<1>6. \A i \in DOMAIN more : more[i].call <= call[p]
  BY <1>2, <1>4 DEF OutboxInOrder
<1>7. ASSUME NEW i \in DOMAIN more, NEW j \in DOMAIN more, i < j,
             more[i].call = call[p], more[j].call = call[p]
      PROVE Precedes(more[i], more[j])
  <2>1. CASE j = n
    <3>1. i \in DOMAIN box /\ more[i] = box[i]
      BY <1>2, <1>7, <2>1
    <3>2. box[i] \in Said(p)
      BY <1>7, <3>1 DEF Said
    <3> QED
      BY <1>2, <2>1, <3>1, <3>2
  <2>2. CASE j # n
    <3>1. /\ j \in DOMAIN box /\ more[j] = box[j]
          /\ i \in DOMAIN box /\ more[i] = box[i]
      BY <1>2, <1>7, <2>2
    <3> QED
      BY <1>7, <3>1 DEF OutboxInOrder
  <2> QED
    BY <2>1, <2>2
<1> QED
  BY <1>3, <1>5, <1>6, <1>7 DEF OutboxInOrder

\* The first, h, goes.
LEMMA SayLess ==
    ASSUME TypeOK, NEW p \in Programs, outbox[p] # <<>>, NEW h, h = Head(outbox[p]),
           call'[p] = call[p], outbox'[p] = Tail(outbox[p]), OutboxInOrder(p)
    PROVE /\ h \in SignalRecords
          /\ Said(p)' \subseteq Said(p)
          /\ h.call = call[p] => /\ Said(p) = Said(p)' \cup {h}
                                 /\ \A y \in Said(p)' : Precedes(h, y)
          /\ OutboxInOrder(p)'
PROOF
<1> DEFINE box == outbox[p]
           rest == Tail(outbox[p])
<1>1. box \in Seq(SignalRecords) /\ box # <<>>
  BY TypeRestated
<1>2. /\ 1 \in DOMAIN box /\ box[1] = h
      /\ \A i \in DOMAIN box : i = 1 \/ (i - 1 \in DOMAIN rest /\ rest[i - 1] = box[i])
      /\ \A i \in DOMAIN rest : i + 1 \in DOMAIN box /\ box[i + 1] = rest[i] /\ 1 < i + 1
      /\ \A i, j \in DOMAIN rest : i < j => i + 1 < j + 1
  BY <1>1, TailElements
<1>3. h \in SignalRecords
  BY <1>1, <1>2
<1>4. outbox'[p] = rest
  OBVIOUS
<1> HIDE DEF rest
<1>5. Said(p)' \subseteq Said(p)
  <2>1. \A i \in DOMAIN rest : rest[i].call = call[p] => rest[i] \in Said(p)
    BY <1>2 DEF Said
  <2> QED
    BY <1>4, <2>1 DEF Said
<1>6. ASSUME h.call = call[p]
      PROVE Said(p) = Said(p)' \cup {h} /\ \A y \in Said(p)' : Precedes(h, y)
  <2>1. Said(p) = Said(p)' \cup {h}
    <3>1. h \in Said(p)
      BY <1>2, <1>6 DEF Said
    <3>2. \A i \in DOMAIN rest : rest[i].call = call[p] => rest[i] \in Said(p)'
      BY <1>4 DEF Said
    <3>3. \A i \in DOMAIN box : box[i].call = call[p] => box[i] = h \/ box[i] \in Said(p)'
      BY <1>2, <3>2
    <3> QED
      BY <1>5, <3>1, <3>3 DEF Said
  <2>2. ASSUME NEW i \in DOMAIN rest, rest[i].call = call[p]
        PROVE Precedes(h, rest[i])
    BY <1>2, <1>6, <2>2 DEF OutboxInOrder
  <2> QED
    BY <1>4, <2>1, <2>2 DEF Said
<1>7. OutboxInOrder(p)'
  <2>1. \A i \in DOMAIN rest : rest[i].call <= call[p]
    BY <1>2 DEF OutboxInOrder
  <2>2. ASSUME NEW i \in DOMAIN rest, NEW j \in DOMAIN rest, i < j,
               rest[i].call = call[p], rest[j].call = call[p]
        PROVE Precedes(rest[i], rest[j])
    BY <1>2, <2>2 DEF OutboxInOrder
  <2> QED
    BY <1>4, <2>1, <2>2 DEF OutboxInOrder
<1> QED
  BY <1>3, <1>5, <1>6, <1>7

-----------------------------------------------------------------------------
(* Connections.                                                            *)

\* What is true of a program whose own variables a step leaves alone.
LEMMA SameProgram ==
    ASSUME NEW p \in Programs, peer'[p] = peer[p], call'[p] = call[p],
           conn'[p] = conn[p], outbox'[p] = outbox[p]
    PROVE /\ Said(p)' = Said(p) /\ Known(p)' = Known(p) /\ Due(p)' = Due(p)
          /\ HasToCall(p)' = HasToCall(p) /\ Unsaid(p)' = Unsaid(p)
          /\ Owes(p)' = Owes(p) /\ Early(p)' = Early(p)
          /\ Staged(p) => Staged(p)'
          /\ Speaks(p) => Speaks(p)'
          /\ OutboxInOrder(p) => OutboxInOrder(p)'
PROOF
<1>1. Said(p)' = Said(p)
  BY DEF Said
<1>2. /\ Known(p)' = Known(p) /\ Due(p)' = Due(p)
      /\ HasToCall(p)' = HasToCall(p) /\ Owes(p)' = Owes(p)
  BY DEF Known, Due, HasToCall, Owes
<1>3. Unsaid(p)' = Unsaid(p) /\ Early(p)' = Early(p)
  BY <1>1, <1>2 DEF Unsaid, Early
<1>4. Staged(p) => Staged(p)'
  BY DEF Staged
<1>5. Speaks(p) => Speaks(p)'
  BY <1>1, <1>2, <1>3 DEF Speaks
<1>6. OutboxInOrder(p) => OutboxInOrder(p)'
  BY DEF OutboxInOrder
<1> QED
  BY <1>1, <1>2, <1>3, <1>4, <1>5, <1>6

\* A program without a connection.
LEMMA NoConnection ==
    ASSUME NEW p \in Programs, peer'[p] = None, conn'[p] = New
    PROVE /\ Known(p)' = {} /\ Due(p)' = {}
          /\ ~HasToCall(p)' /\ ~Unsaid(p)' /\ ~Owes(p)'
          /\ Staged(p)'
PROOF
  BY CallsEmpty DEF New, Known, Due, HasToCall, Unsaid, Owes, Staged

\* The last connection ends; what has been said stays, or goes.
LEMMA EndProgram ==
    ASSUME NEW p \in Programs, End(p), TypeOK, OutboxInOrder(p), Speaks(p),
           outbox'[p] \in {outbox[p], <<>>}
    PROVE /\ Known(p)' = {} /\ Due(p)' = {}
          /\ ~HasToCall(p)' /\ ~Unsaid(p)' /\ ~Owes(p)'
          /\ Said(p)' \subseteq Said(p)
          /\ Staged(p)' /\ Speaks(p)' /\ OutboxInOrder(p)'
PROOF
<1>1. peer'[p] = None /\ conn'[p] = New /\ call'[p] = call[p]
  BY TypeRestated DEF End
<1>2. /\ Known(p)' = {} /\ Due(p)' = {}
      /\ ~HasToCall(p)' /\ ~Unsaid(p)' /\ ~Owes(p)'
      /\ Staged(p)'
  BY <1>1, NoConnection
<1>3. Said(p)' \subseteq Said(p) /\ OutboxInOrder(p)'
  BY <1>1 DEF Said, OutboxInOrder
<1>4. Speaks(p)'
  BY <1>1, <1>2, <1>3 DEF Speaks, Sets, New
<1> QED
  BY <1>2, <1>3, <1>4

\* A connection begins, with nothing said.
LEMMA BeginProgram ==
    ASSUME NEW p \in Programs, NEW q \in Programs, NEW ops, Begin(p, q, ops), TypeOK,
           OutboxInOrder(p), outbox'[p] = outbox[p],
           Stage(conn'[p]), ~Sets(conn'[p])
    PROVE /\ peer'[p] = q /\ call'[p] = call[p] + 1
          /\ conn'[p].sdp = "stable" /\ conn'[p].remote = 0 /\ conn'[p].chain = ops
          /\ conn'[p].caller = (ops = <<Operation("CreateOffer", 0)>>)
          /\ Said(p)' = {}
          /\ ~Owes(p)'
          /\ Staged(p)' /\ Speaks(p)' /\ OutboxInOrder(p)'
PROOF
<1>1. /\ peer'[p] = q /\ call'[p] = call[p] + 1
      /\ conn'[p].sdp = "stable" /\ conn'[p].remote = 0 /\ conn'[p].chain = ops
      /\ conn'[p].caller = (ops = <<Operation("CreateOffer", 0)>>)
  BY TypeRestated DEF Begin, New, Conns
<1>2. call[p] \in Nat /\ \A i \in DOMAIN outbox[p] : outbox[p][i].call \in Nat
  <2>1. outbox[p] \in Seq(SignalRecords) /\ call[p] \in Nat
    BY TypeRestated
  <2>2. \A i \in DOMAIN outbox[p] : outbox[p][i] \in SignalRecords
    BY <2>1
  <2> QED
    BY <2>1, <2>2 DEF SignalRecords
<1>3. \A i \in DOMAIN outbox[p] : outbox[p][i].call < call'[p]
  BY <1>1, <1>2 DEF OutboxInOrder
<1>4. Said(p)' = {} /\ OutboxInOrder(p)'
  BY <1>1, <1>2, <1>3 DEF Said, OutboxInOrder
<1>5. ~Owes(p)'
  BY <1>1 DEF Owes
<1>6. Staged(p)' /\ Speaks(p)'
  BY <1>4 DEF Staged, Speaks
<1> QED
  BY <1>1, <1>4, <1>5, <1>6

\* The stages, with what is in the chain.
LEMMA ChainType ==
    ASSUME TypeOK, NEW p \in Programs
    PROVE /\ conn[p] \in Conns
          /\ conn[p].chain \in Seq(Operations)
          /\ \A i \in DOMAIN conn[p].chain : conn[p].chain[i] \in Operations
PROOF
<1>1. conn[p] \in Conns
  BY TypeRestated
<1>2. conn[p].chain \in Seq(Operations)
  BY <1>1 DEF Conns
<1> QED
  BY <1>1, <1>2

\* What a step of the connection does to the chain: its head goes.
LEMMA TailViews ==
    ASSUME TypeOK, NEW p \in Programs, conn[p].chain # <<>>,
           conn'[p].chain = Tail(conn[p].chain), NEW op, op = Head(conn[p].chain)
    PROVE /\ op \in Operations
          /\ Due(p) = IF op.op = "SetRemoteAnswer" THEN Due(p)' \cup {op.call} ELSE Due(p)'
          /\ HasToCall(p)' => HasToCall(p)
          /\ op.op # "CreateOffer" => HasToCall(p)' = HasToCall(p)
          /\ CallsOf(conn[p].chain, Remote) =
                IF op.op \in Remote THEN CallsOf(conn'[p].chain, Remote) \cup {op.call}
                ELSE CallsOf(conn'[p].chain, Remote)
PROOF
<1>1. conn[p].chain \in Seq(Operations)
  BY ChainType
<1>2. op \in Operations
  BY <1>1
<1>3. CallsOf(conn[p].chain, Remote) =
         IF op.op \in Remote THEN CallsOf(conn'[p].chain, Remote) \cup {op.call}
         ELSE CallsOf(conn'[p].chain, Remote)
  BY <1>1, CallsTail
<1>4. CallsOf(conn[p].chain, {"CreateOffer"}) =
         IF op.op = "CreateOffer" THEN CallsOf(conn'[p].chain, {"CreateOffer"}) \cup {op.call}
         ELSE CallsOf(conn'[p].chain, {"CreateOffer"})
  BY <1>1, CallsTail
<1>5. CallsOf(conn[p].chain, {"SetRemoteAnswer"}) =
         IF op.op = "SetRemoteAnswer"
           THEN CallsOf(conn'[p].chain, {"SetRemoteAnswer"}) \cup {op.call}
         ELSE CallsOf(conn'[p].chain, {"SetRemoteAnswer"})
  BY <1>1, CallsTail
<1> QED
  BY <1>2, <1>3, <1>4, <1>5 DEF Due, HasToCall

\* A description is set, or cannot be.
LEMMA SetEffect ==
    ASSUME TypeOK, NEW p \in Programs, SetDescription(p)
    PROVE LET c == conn[p]
              d == conn'[p]
              op == Head(c.chain)
              next == {s \in States : <<c.sdp, op.op, s>> \in Transitions} IN
          /\ c.chain # <<>>
          /\ d.chain = Tail(c.chain)
          /\ d.caller = c.caller
          /\ \/ /\ d.sdp \in next
                /\ d.local = (c.local \/ op.op \notin Remote)
                /\ d.remote = IF op.op \in Remote THEN op.call ELSE c.remote
             \/ /\ next = {}
                /\ d.sdp = c.sdp /\ d.local = c.local /\ d.remote = c.remote
PROOF
<1> DEFINE c == conn[p]
           next == {s \in States : <<c.sdp, Head(c.chain).op, s>> \in Transitions}
<1>1. conn \in [Programs -> Conns] /\ c \in Conns
  BY TypeRestated
<1>2. /\ c.chain # <<>>
      /\ \/ \E s \in next : conn' = [conn EXCEPT ![p] = Done(@, s)]
         \/ next = {} /\ conn' = [conn EXCEPT ![p].chain = Tail(@)]
  BY DEF SetDescription
<1>3. ASSUME NEW s \in next, conn' = [conn EXCEPT ![p] = Done(@, s)]
      PROVE /\ conn'[p].chain = Tail(c.chain) /\ conn'[p].caller = c.caller
            /\ conn'[p].sdp = s
            /\ conn'[p].local = (c.local \/ Head(c.chain).op \notin Remote)
            /\ conn'[p].remote = IF Head(c.chain).op \in Remote THEN Head(c.chain).call
                                 ELSE c.remote
  <2>1. conn'[p] = Done(c, s)
    BY <1>1, <1>3
  <2> QED
    BY <1>1, <2>1 DEF Done, Conns
<1>4. ASSUME conn' = [conn EXCEPT ![p].chain = Tail(@)]
      PROVE /\ conn'[p].chain = Tail(c.chain) /\ conn'[p].caller = c.caller
            /\ conn'[p].sdp = c.sdp /\ conn'[p].local = c.local /\ conn'[p].remote = c.remote
  BY <1>1, <1>4 DEF Conns
<1> QED
  BY <1>2, <1>3, <1>4

\* The stages go on.
LEMMA SetStage ==
    ASSUME TypeOK, NEW p \in Programs, Stage(conn[p]), SetDescription(p)
    PROVE /\ Stage(conn'[p]) /\ ~Sets(conn'[p])
          /\ ~HasToCall(p)
          /\ ~Owes(p)
          /\ Owes(p)' => conn[p].remote = 0
          /\ conn'[p].sdp = "have-local-offer" =>
                (conn[p].sdp = "have-local-offer" /\ Due(p)' = Due(p)) \/ Sets(conn[p])
          /\ conn'[p].remote = conn[p].remote \/ Owes(p)' \/ conn'[p].remote \in Due(p)
          /\ conn'[p].remote = 0 => conn[p].remote = 0
PROOF
<1> DEFINE c == conn[p]
           d == conn'[p]
           op == Head(c.chain)
           next == {s \in States : <<c.sdp, op.op, s>> \in Transitions}
<1>1. /\ c \in Conns /\ c.chain \in Seq(Operations) /\ c.chain # <<>>
      /\ \A i \in DOMAIN c.chain : c.chain[i] \in Operations
  BY ChainType DEF SetDescription
<1>2. /\ 1 \in DOMAIN c.chain /\ c.chain[1] = op
      /\ \A i \in DOMAIN c.chain :
            i = 1 \/ (i - 1 \in DOMAIN Tail(c.chain) /\ Tail(c.chain)[i - 1] = c.chain[i])
      /\ \A i \in DOMAIN Tail(c.chain) :
            i + 1 \in DOMAIN c.chain /\ c.chain[i + 1] = Tail(c.chain)[i] /\ 1 < i + 1
      /\ \A i, j \in DOMAIN Tail(c.chain) : i < j => i + 1 < j + 1
  BY <1>1, TailElements
<1>3. op \in Operations /\ op.op \in Settings
  BY <1>1, <1>2 DEF SetDescription
<1>4. /\ d.chain = Tail(c.chain)
      /\ d.caller = c.caller
      /\ \/ /\ d.sdp \in next
            /\ d.local = (c.local \/ op.op \notin Remote)
            /\ d.remote = IF op.op \in Remote THEN op.call ELSE c.remote
         \/ /\ next = {}
            /\ d.sdp = c.sdp /\ d.local = c.local /\ d.remote = c.remote
  BY SetEffect
<1>5. \A i \in DOMAIN d.chain : d.chain[i].op \in Remote => d.chain[i].call # 0
  BY <1>2, <1>4 DEF Stage
<1>6. op.op \in Remote => op.call # 0
  BY <1>2 DEF Stage
<1>7. op.op \in Remote => op.call \in Known(p)
  BY <1>2, <1>6 DEF Known, CallsOf
<1>8. HasToCall(p) => \E i \in DOMAIN c.chain : c.chain[i].op = "CreateOffer"
  BY DEF HasToCall, CallsOf
<1>9. Owes(p)' => d.sdp = "have-remote-offer" /\ d.chain # <<>> /\ Head(d.chain).op = "CreateAnswer"
  BY DEF Owes
<1>10. ~Owes(p)
  BY <1>3 DEF Owes, Settings
<1>11. CASE Offers(c)
  <2>1. PICK m : \/ c.chain = <<Operation("CreateOffer", 0)>>
                 \/ c.chain = <<Operation("CreateOffer", 0), Operation("SetRemoteOffer", m),
                                Operation("CreateAnswer", 0)>>
    BY <1>11 DEF Offers
  <2>2. op.op = "CreateOffer"
    BY <2>1, Tuples DEF Operation
  <2> QED
    BY <1>3, <2>2 DEF Settings
<1>12. CASE Sets(c)
  <2>1. op.op = "SetLocalOffer" /\ Tail(c.chain) = <<>>
    BY <1>12 DEF Sets, Operation
  <2>2. "have-local-offer" \in next /\ next \subseteq {"have-local-offer"}
    BY <1>12, <2>1 DEF Sets, Transitions, States
  <2>3. d.sdp = "have-local-offer" /\ d.remote = 0 /\ d.chain = <<>>
    BY <1>4, <1>12, <2>1, <2>2 DEF Remote, Sets
  <2>4. Waiting(d)
    BY <2>3 DEF Waiting, Only
  <2>5. ~HasToCall(p)
    BY <1>8, <1>12 DEF Sets, Operation
  <2> QED
    BY <1>5, <1>9, <1>10, <1>12, <2>3, <2>4, <2>5 DEF Stage, Sets
<1>13. CASE Accepts(c)
  <2>1. PICK m \in Nat :
           LET set == Operation("SetRemoteOffer", m) IN
           \/ c.chain = <<set, Operation("CreateAnswer", 0)>>
           \/ c.chain = <<set, Operation("CreateAnswer", 0), Operation("SetLocalOffer", 0)>>
    BY <1>1, <1>13 DEF Accepts, Operations
  <2>2. op = Operation("SetRemoteOffer", m) /\ op.op = "SetRemoteOffer" /\ op.call = m
    BY <2>1 DEF Operation
  <2>3. d.chain = <<Operation("CreateAnswer", 0)>>
          \/ d.chain = <<Operation("CreateAnswer", 0), Operation("SetLocalOffer", 0)>>
    <3> DEFINE set == Operation("SetRemoteOffer", m)
               create == Operation("CreateAnswer", 0)
               setLocal == Operation("SetLocalOffer", 0)
    <3>1. c.chain = <<set, create>> \/ c.chain = <<set, create, setLocal>>
      BY <2>1
    <3> HIDE DEF set, create, setLocal
    <3>2. /\ Tail(<<set, create>>) = <<create>>
          /\ Tail(<<set, create, setLocal>>) = <<create, setLocal>>
      BY Tuples
    <3>3. d.chain = <<create>> \/ d.chain = <<create, setLocal>>
      BY <1>4, <3>1, <3>2
    <3> QED
      BY <3>3 DEF create, setLocal
  <2>4. next = {"have-remote-offer"}
    BY <1>13, <2>2 DEF Accepts, Transitions, States
  <2>5. d.sdp = "have-remote-offer" /\ d.remote = m /\ m # 0 /\ ~d.local
    BY <1>4, <1>6, <1>13, <2>2, <2>4 DEF Remote, Accepts
  <2>6. Answers(d) /\ Owes(p)'
    <3>1. /\ d.chain # <<>> /\ d.chain[1].op = "CreateAnswer"
          /\ Head(d.chain).op = "CreateAnswer"
          /\ \A i \in DOMAIN d.chain \ {1} : d.chain[i].op = "SetLocalOffer"
      <4>1. d.chain # <<>> /\ Head(d.chain) = Operation("CreateAnswer", 0)
        <5> HIDE DEF d
        <5>1. CASE d.chain = <<Operation("CreateAnswer", 0)>>
          BY <5>1, Tuples
        <5>2. CASE d.chain = <<Operation("CreateAnswer", 0), Operation("SetLocalOffer", 0)>>
          BY <5>2, Tuples
        <5> QED
          BY <2>3, <5>1, <5>2
      <4>2. d.chain[1] = Operation("CreateAnswer", 0)
        BY <2>3
      <4>3. \A i \in DOMAIN d.chain \ {1} : d.chain[i].op = "SetLocalOffer"
        BY <2>3 DEF Operation
      <4> QED
        BY <4>1, <4>2, <4>3 DEF Operation
    <3> QED
      BY <2>5, <3>1 DEF Answers, Owes
  <2>7. ~HasToCall(p)
    BY <1>8, <2>1 DEF Operation
  <2> QED
    BY <1>5, <1>10, <1>13, <2>5, <2>6, <2>7 DEF Stage, Sets, Accepts
<1>14. CASE Waiting(c)
  <2>1. op.op \in {"SetRemoteOffer", "SetRemoteAnswer"}
    BY <1>2, <1>3, <1>14 DEF Waiting, Only, Settings
  <2>2. ~HasToCall(p)
    BY <1>8, <1>14 DEF Waiting, Only
  <2>3. CASE op.op = "SetRemoteOffer"
    <3>1. next = {}
      BY <1>14, <2>3 DEF Waiting, Transitions, States
    <3>2. d.sdp = "have-local-offer" /\ d.remote = 0
      BY <1>4, <1>14, <3>1 DEF Waiting
    <3>3. Waiting(d)
      BY <1>2, <1>4, <1>14, <3>2 DEF Waiting, Only
    <3>4. Due(p)' = Due(p)
      BY <1>1, <1>4, <2>3, TailViews
    <3> QED
      BY <1>5, <1>9, <1>10, <1>14, <2>2, <3>2, <3>3, <3>4 DEF Stage, Sets, Waiting
  <2>4. CASE op.op = "SetRemoteAnswer"
    <3>1. next = {"stable"}
      BY <1>14, <2>4 DEF Waiting, Transitions, States
    <3>2. d.sdp = "stable" /\ d.remote = op.call /\ d.remote # 0
      BY <1>4, <1>6, <2>4, <3>1 DEF Remote
    <3>3. d.remote \in Due(p)
      BY <1>2, <2>4, <3>2 DEF Due, CallsOf
    <3>4. \A i \in DOMAIN d.chain : d.chain[i].op \in {"CreateAnswer", "SetRemoteAnswer"}
      BY <1>2, <1>4, <1>14, <2>4 DEF Waiting, Only
    <3>5. Settled(d)
      BY <3>2, <3>4 DEF Settled, Only
    <3> QED
      BY <1>5, <1>9, <1>10, <1>14, <2>2, <3>2, <3>3, <3>5 DEF Stage, Sets, Waiting
  <2> QED
    BY <2>1, <2>3, <2>4
<1>15. CASE Answers(c)
  <2>1. /\ Len(c.chain) \in Nat /\ DOMAIN c.chain = 1..Len(c.chain)
        /\ DOMAIN d.chain = 1..(Len(c.chain) - 1)
        /\ Len(d.chain) = Len(c.chain) - 1
        /\ d.chain # <<>> => Head(d.chain) = d.chain[1] /\ 1 \in DOMAIN d.chain
    BY <1>1, <1>4
  <2>2. /\ c.chain[Len(c.chain)].op = "SetLocalAnswer"
        /\ \A i \in DOMAIN c.chain \ {Len(c.chain)} :
              c.chain[i].op \in {"SetLocalOffer", "SetRemoteAnswer"}
    BY <1>2, <1>3, <1>15 DEF Answers, Settings
  <2>3. ~HasToCall(p)
    BY <1>8, <2>2
  <2>4. ~Owes(p)'
    <3>1. \A i \in DOMAIN c.chain : c.chain[i].op # "CreateAnswer"
      BY <2>2
    <3>2. \A i \in DOMAIN d.chain : d.chain[i].op # "CreateAnswer"
      BY <1>2, <1>4, <3>1
    <3> QED
      BY <1>9, <2>1, <3>2
  <2>5. CASE Len(c.chain) = 1
    <3>1. op.op = "SetLocalAnswer"
      BY <1>2, <2>2, <2>5
    <3>2. next = {"stable"}
      BY <1>15, <3>1 DEF Answers, Transitions, States
    <3>3. d.sdp = "stable" /\ d.remote = c.remote /\ d.remote # 0
      BY <1>4, <1>15, <3>1, <3>2 DEF Remote, Answers
    <3>4. Settled(d)
      BY <2>1, <2>5, <3>3 DEF Settled, Only
    <3> QED
      BY <1>5, <1>10, <2>3, <2>4, <3>3, <3>4 DEF Stage, Sets
  <2>6. CASE Len(c.chain) # 1
    <3>1. op.op \in {"SetLocalOffer", "SetRemoteAnswer"}
      BY <1>2, <2>1, <2>2, <2>6
    <3>2. next = {}
      BY <1>15, <3>1 DEF Answers, Transitions, States
    <3>3. /\ d.sdp = "have-remote-offer" /\ d.remote = c.remote /\ d.remote # 0
          /\ ~d.local
      BY <1>4, <1>15, <3>2 DEF Answers
    <3>4. /\ d.chain # <<>>
          /\ d.chain[Len(d.chain)].op = "SetLocalAnswer"
          /\ \A i \in DOMAIN d.chain \ {Len(d.chain)} :
                d.chain[i].op \in {"SetLocalOffer", "SetRemoteAnswer"}
      <4>1. /\ Tail(c.chain) # <<>>
            /\ Tail(c.chain)[Len(Tail(c.chain))] = c.chain[Len(c.chain)]
            /\ \A i \in DOMAIN Tail(c.chain) \ {Len(Tail(c.chain))} :
                  /\ i + 1 \in DOMAIN c.chain \ {Len(c.chain)}
                  /\ Tail(c.chain)[i] = c.chain[i + 1]
        BY <1>1, <2>6, TailLast
      <4> HIDE DEF c, d
      <4> QED
        BY <1>4, <2>2, <4>1
    <3>5. Answers(d)
      BY <3>3, <3>4 DEF Answers
    <3> QED
      BY <1>5, <1>10, <2>3, <2>4, <3>3, <3>5 DEF Stage, Sets
  <2> QED
    BY <2>5, <2>6
<1>16. CASE Settled(c)
  <2>1. op.op = "SetRemoteAnswer"
    BY <1>2, <1>3, <1>16 DEF Settled, Only, Settings
  <2>2. ~HasToCall(p)
    BY <1>8, <1>16 DEF Settled, Only
  <2>3. next = {}
    BY <1>16, <2>1 DEF Settled, Transitions, States
  <2>4. d.sdp = "stable" /\ d.remote = c.remote /\ d.remote # 0
    BY <1>4, <1>16, <2>3 DEF Settled
  <2>5. Settled(d)
    BY <1>2, <1>4, <1>16, <2>4 DEF Settled, Only
  <2> QED
    BY <1>5, <1>9, <1>10, <2>2, <2>4, <2>5 DEF Stage, Sets
<1> QED
  BY <1>11, <1>12, <1>13, <1>14, <1>15, <1>16 DEF Stage

\* What setting a description leaves of what p shows: nothing is said, no answer is owed.
LEMMA SetViews ==
    ASSUME TypeOK, NEW p \in Programs, SetDescription(p),
           Presence(p), Staged(p), Speaks(p), OutboxInOrder(p)
    PROVE /\ peer[p] # None /\ peer'[p] = peer[p] /\ call'[p] = call[p]
          /\ conn'[p].caller = conn[p].caller
          /\ Known(p)' \subseteq Known(p) /\ Due(p)' \subseteq Due(p)
          /\ Said(p)' = Said(p)
          /\ ~HasToCall(p) /\ ~HasToCall(p)' /\ Unsaid(p)' = Unsaid(p)
          /\ ~Owes(p) /\ (Early(p)' => Early(p))
          /\ conn'[p].sdp = "have-local-offer" =>
                (conn[p].sdp = "have-local-offer" /\ Due(p)' = Due(p)) \/ Unsaid(p)
          /\ conn'[p].remote = conn[p].remote \/ Owes(p)' \/ conn'[p].remote \in Due(p)
          /\ conn'[p].remote = 0 => conn[p].remote = 0
          /\ Staged(p)' /\ Speaks(p)' /\ OutboxInOrder(p)'
PROOF
<1> DEFINE op == Head(conn[p].chain)
<1>1. peer[p] # None
  BY DEF SetDescription, Presence, New
<1>2. Stage(conn[p])
  BY <1>1 DEF Staged
<1>3. /\ Stage(conn'[p]) /\ ~Sets(conn'[p])
      /\ ~HasToCall(p)
      /\ ~Owes(p)
      /\ Owes(p)' => conn[p].remote = 0
      /\ conn'[p].sdp = "have-local-offer" =>
            (conn[p].sdp = "have-local-offer" /\ Due(p)' = Due(p)) \/ Sets(conn[p])
      /\ conn'[p].remote = conn[p].remote \/ Owes(p)' \/ conn'[p].remote \in Due(p)
      /\ conn'[p].remote = 0 => conn[p].remote = 0
  BY <1>2, SetStage
<1>4. /\ conn[p].chain # <<>>
      /\ conn'[p].chain = Tail(conn[p].chain)
      /\ conn'[p].caller = conn[p].caller
      /\ \/ conn'[p].remote = conn[p].remote
         \/ op.op \in Remote /\ conn'[p].remote = op.call
  BY SetEffect
<1>5. /\ peer'[p] = peer[p] /\ call'[p] = call[p] /\ outbox'[p] = outbox[p]
  BY DEF SetDescription
<1>6. /\ Due(p)' \subseteq Due(p)
      /\ HasToCall(p)' => HasToCall(p)
      /\ CallsOf(conn'[p].chain, Remote) \subseteq CallsOf(conn[p].chain, Remote)
      /\ op.op \in Remote => op.call \in CallsOf(conn[p].chain, Remote)
  BY <1>4, TailViews
<1>7. Known(p)' \subseteq Known(p)
  BY <1>4, <1>6 DEF Known
<1>8. Said(p)' = Said(p) /\ OutboxInOrder(p)'
  BY <1>5 DEF Said, OutboxInOrder
<1>9. Unsaid(p)' = Unsaid(p) /\ (Early(p)' => Early(p))
  BY <1>3, <1>5, <1>6, <1>8 DEF Unsaid, Early
<1>10. Sets(conn[p]) => Unsaid(p)
  BY <1>1 DEF Speaks, Unsaid
<1>11. Staged(p)' /\ Speaks(p)'
  BY <1>3, <1>4, <1>5, <1>6, <1>8, <1>9 DEF Staged, Speaks
<1> QED
  BY <1>1, <1>3, <1>4, <1>5, <1>6, <1>7, <1>8, <1>9, <1>10, <1>11

\* A connection that offers begins with it.
LEMMA OfferFirst ==
    ASSUME NEW c, Offers(c)
    PROVE c.chain # <<>> /\ Head(c.chain).op = "CreateOffer"
PROOF
<1>1. ASSUME NEW m, \/ c.chain = <<Operation("CreateOffer", 0)>>
                    \/ c.chain = <<Operation("CreateOffer", 0), Operation("SetRemoteOffer", m),
                                   Operation("CreateAnswer", 0)>>
      PROVE c.chain # <<>> /\ Head(c.chain) = Operation("CreateOffer", 0)
  BY <1>1, Tuples
<1>2. c.chain # <<>> /\ Head(c.chain) = Operation("CreateOffer", 0)
  BY <1>1 DEF Offers
<1> QED
  BY <1>2 DEF Operation

\* Only a connection that offers has an offer to create.
LEMMA OffersHasToCall ==
    ASSUME TypeOK, NEW p \in Programs, Stage(conn[p])
    PROVE /\ HasToCall(p) <=> Offers(conn[p])
          /\ conn[p].chain # <<>> /\ Head(conn[p].chain).op = "CreateOffer" => Offers(conn[p])
          /\ Owes(p) => Answers(conn[p])
PROOF
<1> DEFINE c == conn[p]
<1>1. HasToCall(p) <=> \E i \in DOMAIN c.chain : c.chain[i].op = "CreateOffer"
  BY DEF HasToCall, CallsOf
<1>2. ASSUME c.chain # <<>>
      PROVE 1 \in DOMAIN c.chain /\ Head(c.chain) = c.chain[1]
  BY <1>2, ChainType, TailElements
<1>3. ASSUME Offers(c) PROVE HasToCall(p)
  <2>1. PICK m : \/ c.chain = <<Operation("CreateOffer", 0)>>
                 \/ c.chain = <<Operation("CreateOffer", 0), Operation("SetRemoteOffer", m),
                                Operation("CreateAnswer", 0)>>
    BY <1>3 DEF Offers
  <2>2. 1 \in DOMAIN c.chain /\ c.chain[1].op = "CreateOffer"
    BY <2>1 DEF Operation
  <2> QED
    BY <1>1, <2>2
<1>4. ASSUME Sets(c) \/ Accepts(c) \/ Waiting(c) \/ Answers(c) \/ Settled(c)
      PROVE \A i \in DOMAIN c.chain : c.chain[i].op # "CreateOffer"
  <2>1. CASE Sets(c)
    BY <2>1 DEF Sets, Operation
  <2>2. CASE Accepts(c)
    <3>1. PICK m : LET set == Operation("SetRemoteOffer", m) IN
             \/ c.chain = <<set, Operation("CreateAnswer", 0)>>
             \/ c.chain = <<set, Operation("CreateAnswer", 0), Operation("SetLocalOffer", 0)>>
      BY <2>2 DEF Accepts
    <3> QED
      BY <3>1 DEF Operation
  <2>3. CASE Waiting(c) \/ Settled(c)
    BY <2>3 DEF Waiting, Settled, Only
  <2>4. CASE Answers(c)
    BY <2>4 DEF Answers
  <2> QED
    BY <1>4, <2>1, <2>2, <2>3, <2>4
<1>5. Owes(p) => c.sdp = "have-remote-offer"
  BY DEF Owes
<1>6. c.sdp = "have-remote-offer" => Answers(c)
  BY DEF Stage, Offers, Sets, Accepts, Waiting, Settled
<1>7. Offers(c) \/ Sets(c) \/ Accepts(c) \/ Waiting(c) \/ Answers(c) \/ Settled(c)
  BY DEF Stage
<1> HIDE DEF c
<1>8. HasToCall(p) <=> Offers(c)
  BY <1>1, <1>3, <1>4, <1>7
<1>9. c.chain # <<>> /\ Head(c.chain).op = "CreateOffer" => Offers(c)
  BY <1>1, <1>2, <1>8
<1> QED
  BY <1>5, <1>6, <1>8, <1>9 DEF c

\* A description that has been created is to be set, at the end of the chain.
LEMMA SuccessStage ==
    ASSUME TypeOK, NEW p \in Programs, Stage(conn[p]), OnSuccess(p)
    PROVE /\ Stage(conn'[p])
          /\ \/ Offers(conn[p]) /\ Head(conn[p].chain).op = "CreateOffer"
             \/ Owes(p) /\ Head(conn[p].chain).op # "CreateOffer"
                  /\ conn'[p].sdp = "have-remote-offer" /\ ~HasToCall(p)
          /\ conn'[p].sdp = conn[p].sdp /\ conn'[p].remote = conn[p].remote
          /\ conn'[p].caller = conn[p].caller
          /\ CallsOf(conn'[p].chain, Remote) = CallsOf(conn[p].chain, Remote)
          /\ Due(p)' = Due(p)
          /\ ~HasToCall(p)' /\ ~Owes(p)'
PROOF
<1> DEFINE c == conn[p]
           d == conn'[p]
           first == Head(c.chain)
           set == Operation(IF first.op = "CreateOffer" THEN "SetLocalOffer"
                            ELSE "SetLocalAnswer", 0)
<1>1. /\ c \in Conns /\ c.chain \in Seq(Operations) /\ c.chain # <<>>
      /\ \A i \in DOMAIN c.chain : c.chain[i] \in Operations
  BY ChainType DEF OnSuccess
<1>2. /\ 1 \in DOMAIN c.chain /\ c.chain[1] = first
      /\ \A i \in DOMAIN c.chain :
            i = 1 \/ (i - 1 \in DOMAIN Tail(c.chain) /\ Tail(c.chain)[i - 1] = c.chain[i])
      /\ \A i \in DOMAIN Tail(c.chain) :
            i + 1 \in DOMAIN c.chain /\ c.chain[i + 1] = Tail(c.chain)[i] /\ 1 < i + 1
  BY <1>1, TailElements
<1>3. /\ d.chain = Append(Tail(c.chain), set)
      /\ d.sdp = c.sdp /\ d.remote = c.remote /\ d.caller = c.caller /\ d.local = c.local
  <2>1. conn \in [Programs -> Conns]
    BY TypeRestated
  <2> QED
    BY <1>1, <2>1 DEF OnSuccess, Conns
<1>4. Tail(c.chain) \in Seq(Operations) /\ set \in Operations
  BY <1>1 DEF Operation, Operations, Settings
<1>5. set.op \notin Remote \cup {"CreateOffer", "SetRemoteAnswer"}
  BY DEF Operation, Remote
<1>6. first.op \in Creations /\ first.op \notin Remote \cup {"SetRemoteAnswer"}
  BY DEF OnSuccess, Creatable, Creations, Remote
<1>7. /\ CallsOf(d.chain, Remote) = CallsOf(c.chain, Remote)
      /\ CallsOf(d.chain, {"SetRemoteAnswer"}) = CallsOf(c.chain, {"SetRemoteAnswer"})
      /\ CallsOf(d.chain, {"CreateOffer"}) = CallsOf(Tail(c.chain), {"CreateOffer"})
  <2> HIDE DEF c, d, first, set
  <2>1. ASSUME NEW ops, set.op \notin ops
        PROVE CallsOf(d.chain, ops) = CallsOf(Tail(c.chain), ops)
    <3> DEFINE rest == Tail(c.chain)
    <3>1. rest \in Seq(Operations)
      BY <1>4
    <3> HIDE DEF rest
    <3>2. CallsOf(Append(rest, set), ops) = CallsOf(rest, ops)
      BY <1>4, <2>1, <3>1, CallsAppend
    <3> QED
      BY <1>3, <3>2 DEF rest
  <2>2. ASSUME NEW ops, first.op \notin ops
        PROVE CallsOf(c.chain, ops) = CallsOf(Tail(c.chain), ops)
    BY <1>1, <2>2, CallsTail DEF first
  <2>3. set.op \notin Remote /\ first.op \notin Remote
    BY <1>5, <1>6
  <2>4. set.op \notin {"SetRemoteAnswer"} /\ first.op \notin {"SetRemoteAnswer"}
    BY <1>5, <1>6
  <2>5. set.op \notin {"CreateOffer"}
    BY <1>5
  <2>6. CallsOf(d.chain, Remote) = CallsOf(c.chain, Remote)
    BY <2>1, <2>2, <2>3
  <2>7. CallsOf(d.chain, {"SetRemoteAnswer"}) = CallsOf(c.chain, {"SetRemoteAnswer"})
    BY <2>1, <2>2, <2>4
  <2>8. CallsOf(d.chain, {"CreateOffer"}) = CallsOf(Tail(c.chain), {"CreateOffer"})
    BY <2>1, <2>5
  <2> QED
    BY <2>6, <2>7, <2>8
<1>8. Due(p)' = Due(p)
  BY <1>7 DEF Due
<1>9. CASE first.op = "CreateOffer"
  <2>1. Offers(c)
    BY <1>1, <1>9, OffersHasToCall
  <2>2. PICK m : \/ c.chain = <<Operation("CreateOffer", 0)>>
                 \/ c.chain = <<Operation("CreateOffer", 0), Operation("SetRemoteOffer", m),
                                Operation("CreateAnswer", 0)>>
    BY <2>1 DEF Offers
  <2>3. set = Operation("SetLocalOffer", 0)
    BY <1>9
  <2>4. CASE c.chain = <<Operation("CreateOffer", 0)>>
    <3>1. d.chain = <<Operation("SetLocalOffer", 0)>>
      BY <1>3, <2>3, <2>4
    <3>2. Sets(d)
      BY <1>3, <2>1, <3>1 DEF Sets, Offers
    <3>3. \A i \in DOMAIN d.chain : d.chain[i].op = "SetLocalOffer"
      BY <3>1 DEF Operation
    <3>4. ~HasToCall(p)' /\ ~Owes(p)'
      BY <3>2, <3>3 DEF HasToCall, CallsOf, Owes, Sets
    <3> QED
      BY <1>3, <1>7, <1>8, <1>9, <2>1, <3>2, <3>3, <3>4 DEF Stage, Remote
  <2>5. CASE c.chain = <<Operation("CreateOffer", 0), Operation("SetRemoteOffer", m),
                         Operation("CreateAnswer", 0)>>
    <3>1. d.chain = <<Operation("SetRemoteOffer", m), Operation("CreateAnswer", 0),
                      Operation("SetLocalOffer", 0)>>
      <4> DEFINE offer == Operation("CreateOffer", 0)
                 remote == Operation("SetRemoteOffer", m)
                 answer == Operation("CreateAnswer", 0)
                 rest == <<remote, answer>>
                 all == <<remote, answer, set>>
      <4> HIDE DEF c, d, set, offer, remote, answer
      <4>1. Tail(c.chain) = rest
        BY <2>5, Tuples DEF offer, remote, answer
      <4>2. Append(rest, set) = all
        BY AppendTwo
      <4> HIDE DEF rest, all
      <4>3. d.chain = all
        BY <1>3, <4>1, <4>2
      <4> QED
        BY <2>3, <4>3 DEF all, remote, answer
    <3>2. 1 \in DOMAIN d.chain /\ d.chain[1].call = m
      BY <3>1 DEF Operation
    <3>3. Accepts(d)
      BY <1>3, <2>1, <3>1, <3>2 DEF Accepts, Offers
    <3>4. \A i \in DOMAIN d.chain :
             /\ d.chain[i].op # "CreateOffer"
             /\ d.chain[i].op \in Remote => d.chain[i].call = m
      BY <3>1 DEF Operation, Remote
    <3>5. ~HasToCall(p)' /\ ~Owes(p)'
      BY <3>3, <3>4 DEF HasToCall, CallsOf, Owes, Accepts
    <3>6. m # 0
      <4>1. 2 \in DOMAIN c.chain /\ c.chain[2].op \in Remote /\ c.chain[2].call = m
        BY <2>5 DEF Operation, Remote
      <4> QED
        BY <4>1 DEF Stage
    <3> QED
      BY <1>3, <1>7, <1>8, <1>9, <2>1, <3>3, <3>4, <3>5, <3>6 DEF Stage
  <2> QED
    BY <2>2, <2>4, <2>5
<1>10. CASE first.op # "CreateOffer"
  <2>1. Owes(p) /\ first.op = "CreateAnswer"
    BY <1>1, <1>10 DEF OnSuccess, Creatable, Owes
  <2>2. Answers(c)
    BY <2>1, OffersHasToCall
  <2>3. set = Operation("SetLocalAnswer", 0) /\ set.op = "SetLocalAnswer"
    BY <1>10 DEF Operation
  <2>4. \A i \in DOMAIN Tail(c.chain) : Tail(c.chain)[i].op \in {"SetLocalOffer", "SetRemoteAnswer"}
    <3>1. Len(c.chain) \in DOMAIN c.chain
      BY <1>1
    <3>2. \A i \in DOMAIN c.chain \ {1} : c.chain[i].op \in {"SetLocalOffer", "SetRemoteAnswer"}
      BY <1>2, <2>1, <2>2, <3>1 DEF Answers
    <3>3. \A i \in DOMAIN Tail(c.chain) : i + 1 \in DOMAIN c.chain \ {1}
      BY <1>2
    <3> QED
      BY <1>2, <3>2, <3>3
  <2>5. /\ Len(d.chain) = Len(Tail(c.chain)) + 1
        /\ Len(d.chain) \in DOMAIN d.chain /\ d.chain[Len(d.chain)] = set
        /\ \A i \in DOMAIN d.chain \ {Len(d.chain)} :
              i \in DOMAIN Tail(c.chain) /\ d.chain[i] = Tail(c.chain)[i]
        /\ d.chain # <<>>
    <3>1. Len(d.chain) = Len(Tail(c.chain)) + 1
      BY <1>3, <1>4
    <3>2. d.chain # <<>>
      BY <1>3, <1>4
    <3> QED
      BY <1>3, <1>4, <3>1, <3>2, AppendElements
  <2>6. Answers(d)
    <3>1. /\ d.chain[Len(d.chain)].op = "SetLocalAnswer"
          /\ \A i \in DOMAIN d.chain \ {Len(d.chain)} :
                d.chain[i].op \in {"SetLocalOffer", "SetRemoteAnswer"}
      BY <2>3, <2>4, <2>5
    <3> QED
      BY <1>3, <2>2, <2>5, <3>1 DEF Answers
  <2>7. \A i \in DOMAIN d.chain : d.chain[i].op \notin {"CreateAnswer", "CreateOffer"}
    BY <2>3, <2>4, <2>5
  <2>8. ~HasToCall(p)' /\ ~Owes(p)'
    <3>1. d.chain # <<>> => Head(d.chain) = d.chain[1] /\ 1 \in DOMAIN d.chain
      <4>1. d.chain \in Seq(Operations)
        BY <1>3, <1>4
      <4> HIDE DEF d
      <4> QED
        BY <4>1, TailElements
    <3> QED
      BY <2>7, <3>1 DEF HasToCall, CallsOf, Owes
  <2>9. \A i \in DOMAIN d.chain : d.chain[i].op \in Remote => d.chain[i].call # 0
    <3>1. \A i \in DOMAIN c.chain : c.chain[i].op \in Remote => c.chain[i].call # 0
      BY DEF Stage
    <3>2. \A i \in DOMAIN Tail(c.chain) :
             Tail(c.chain)[i].op \in Remote => Tail(c.chain)[i].call # 0
      BY <1>2, <3>1
    <3> HIDE DEF c, d, set
    <3> QED
      BY <2>3, <2>5, <3>2 DEF Remote
  <2>10. ~HasToCall(p)
    BY <2>2, OffersHasToCall DEF Offers, Answers
  <2> QED
    BY <1>3, <1>7, <1>8, <1>10, <2>1, <2>2, <2>6, <2>8, <2>9, <2>10 DEF Stage, Answers
<1> QED
  BY <1>9, <1>10

\* A description that has been created is signalled.
LEMMA SuccessViews ==
    ASSUME TypeOK, NEW p \in Programs, OnSuccess(p),
           Presence(p), Staged(p), Speaks(p), OutboxInOrder(p)
    PROVE \E x \in SignalRecords :
          /\ x.call = call[p] /\ x.to = conn[p].remote
          /\ \/ x.kind = "offer" /\ HasToCall(p) /\ conn[p].remote = 0 /\ conn[p].sdp = "stable"
             \/ x.kind = "answer" /\ Owes(p) /\ conn[p].remote # 0
                  /\ conn[p].sdp = "have-remote-offer"
          /\ Said(p)' = Said(p) \cup {x}
          /\ peer[p] # None /\ peer'[p] = peer[p] /\ call'[p] = call[p]
          /\ conn'[p].sdp = conn[p].sdp /\ conn'[p].remote = conn[p].remote
          /\ conn'[p].caller = conn[p].caller
          /\ Known(p)' = Known(p) /\ Due(p)' = Due(p) /\ Unsaid(p)' = Unsaid(p)
          /\ ~HasToCall(p)' /\ ~Owes(p)'
          /\ Staged(p)' /\ Speaks(p)' /\ OutboxInOrder(p)'
PROOF
<1> DEFINE offer == Head(conn[p].chain).op = "CreateOffer"
           x == Signal(IF offer THEN "offer" ELSE "answer", call[p], conn[p].remote)
<1>1. peer[p] # None
  BY DEF OnSuccess, Presence, New
<1>2. Stage(conn[p])
  BY <1>1 DEF Staged
<1>3. /\ Stage(conn'[p])
      /\ \/ Offers(conn[p]) /\ offer
         \/ Owes(p) /\ ~offer /\ conn'[p].sdp = "have-remote-offer" /\ ~HasToCall(p)
      /\ conn'[p].sdp = conn[p].sdp /\ conn'[p].remote = conn[p].remote
      /\ conn'[p].caller = conn[p].caller
      /\ CallsOf(conn'[p].chain, Remote) = CallsOf(conn[p].chain, Remote)
      /\ Due(p)' = Due(p)
      /\ ~HasToCall(p)' /\ ~Owes(p)'
  BY <1>2, SuccessStage
<1>4. /\ call[p] \in Nat /\ conn[p].remote \in Nat
      /\ outbox \in [Programs -> Seq(SignalRecords)]
  BY TypeRestated DEF Conns
<1>5. /\ peer'[p] = peer[p] /\ call'[p] = call[p]
      /\ outbox'[p] = Append(outbox[p], x)
  BY <1>4 DEF OnSuccess
<1>6. /\ x \in SignalRecords /\ x.call = call[p] /\ x.to = conn[p].remote
      /\ x.kind = IF offer THEN "offer" ELSE "answer"
  BY <1>4 DEF Signal, SignalRecords, Signals
<1>7. ASSUME offer
      PROVE HasToCall(p) /\ conn[p].remote = 0 /\ conn[p].sdp = "stable" /\ conn[p].caller
  BY <1>2, <1>3, <1>7, OffersHasToCall DEF Offers
<1>8. ASSUME ~offer
      PROVE Owes(p) /\ conn[p].remote # 0 /\ conn[p].sdp = "have-remote-offer" /\ ~HasToCall(p)
  BY <1>2, <1>3, <1>8, OffersHasToCall DEF Answers
<1>9. \A y \in Said(p) : Precedes(y, x)
  <2> SUFFICES ASSUME NEW y \in Said(p) PROVE Precedes(y, x)
    OBVIOUS
  <2>1. ~offer
    BY <1>7 DEF Speaks
  <2>2. y.to = 0
    BY <1>1, <1>8, <2>1 DEF Speaks, Early
  <2>3. y.call = call[p] /\ y.kind \in Signals
    BY MailType DEF Said, SignalRecords
  <2> QED
    BY <1>6, <2>1, <2>2, <2>3 DEF Precedes, Signals
<1> HIDE DEF x, offer
<1>10. Said(p)' = Said(p) \cup {x} /\ OutboxInOrder(p)'
  BY <1>5, <1>6, <1>9, SayMore
<1>11. Known(p)' = Known(p)
  BY <1>3 DEF Known
<1>12. Unsaid(p)' = Unsaid(p)
  BY <1>1, <1>3, <1>5, <1>6, <1>7, <1>8, <1>10 DEF Unsaid
<1>13. Staged(p)'
  BY <1>3 DEF Staged
<1>14. Speaks(p)'
  <2>1. \A s \in Said(p)' :
           /\ s.kind = "answer" => s.to # 0
           /\ s.kind = "offer" => conn[p].caller
           /\ conn[p].remote = 0 => s.to = 0
    BY <1>1, <1>6, <1>7, <1>8, <1>10 DEF Speaks, Early
  <2>2. Sets(conn'[p]) => offer
    BY <1>3 DEF Sets
  <2> QED
    BY <1>3, <1>5, <1>6, <1>10, <2>1, <2>2 DEF Speaks, Early
<1> QED
  BY <1>1, <1>3, <1>5, <1>6, <1>7, <1>8, <1>10, <1>11, <1>12, <1>13, <1>14

\* An answer that there is no offer for: only the head of the chain goes.
LEMMA FailureViews ==
    ASSUME TypeOK, NEW p \in Programs, OnFailure(p), ~Creatable(p),
           Presence(p), Staged(p), Speaks(p), OutboxInOrder(p)
    PROVE /\ peer[p] # None /\ peer'[p] = peer[p] /\ call'[p] = call[p]
          /\ conn'[p].sdp = conn[p].sdp /\ conn'[p].remote = conn[p].remote
          /\ conn'[p].caller = conn[p].caller
          /\ Said(p)' = Said(p)
          /\ Known(p)' = Known(p) /\ Due(p)' = Due(p) /\ Unsaid(p)' = Unsaid(p)
          /\ ~Owes(p) /\ ~Owes(p)'
          /\ Staged(p)' /\ Speaks(p)' /\ OutboxInOrder(p)'
PROOF
<1> DEFINE c == conn[p]
           d == conn'[p]
           first == Head(c.chain)
<1>1. peer[p] # None
  BY DEF OnFailure, Presence, New
<1>2. Stage(c)
  BY <1>1 DEF Staged
<1>3. /\ c \in Conns /\ c.chain \in Seq(Operations) /\ c.chain # <<>>
  BY ChainType DEF OnFailure
<1>4. /\ 1 \in DOMAIN c.chain /\ c.chain[1] = first
      /\ \A i \in DOMAIN Tail(c.chain) :
            i + 1 \in DOMAIN c.chain /\ c.chain[i + 1] = Tail(c.chain)[i] /\ 1 < i + 1
      /\ \A i, j \in DOMAIN Tail(c.chain) : i < j => i + 1 < j + 1
  BY <1>3, TailElements
<1>5. first.op = "CreateAnswer" /\ c.sdp # "have-remote-offer"
  BY DEF OnFailure, Creatable, Creations
<1>6. Waiting(c) \/ Settled(c)
  <2>1. ~Offers(c)
    <3>1. ASSUME NEW m,
                 \/ c.chain = <<Operation("CreateOffer", 0)>>
                 \/ c.chain = <<Operation("CreateOffer", 0), Operation("SetRemoteOffer", m),
                                Operation("CreateAnswer", 0)>>
          PROVE FALSE
      <4>1. c.chain[1] = Operation("CreateOffer", 0)
        BY <3>1
      <4> QED
        BY <1>4, <1>5, <4>1 DEF Operation
    <3> QED
      BY <3>1 DEF Offers
  <2>2. ~Sets(c)
    BY <1>5 DEF Sets, Operation
  <2>3. ~Accepts(c)
    <3>1. ASSUME NEW m,
                 LET set == Operation("SetRemoteOffer", m) IN
                 \/ c.chain = <<set, Operation("CreateAnswer", 0)>>
                 \/ c.chain = <<set, Operation("CreateAnswer", 0), Operation("SetLocalOffer", 0)>>
          PROVE FALSE
      BY <1>5, <3>1 DEF Operation
    <3> QED
      BY <3>1 DEF Accepts
  <2>4. ~Answers(c)
    BY <1>5 DEF Answers
  <2> QED
    BY <1>2, <2>1, <2>2, <2>3, <2>4 DEF Stage
<1>7. /\ d.chain = Tail(c.chain)
      /\ d.sdp = c.sdp /\ d.remote = c.remote /\ d.caller = c.caller /\ d.local = c.local
  <2>1. conn \in [Programs -> Conns]
    BY TypeRestated
  <2> QED
    BY <1>3, <2>1 DEF OnFailure, Conns
<1>8. /\ Due(p)' = Due(p)
      /\ HasToCall(p)' = HasToCall(p)
      /\ CallsOf(d.chain, Remote) = CallsOf(c.chain, Remote)
  <2>1. first.op \notin Remote \cup {"CreateOffer", "SetRemoteAnswer"}
    BY <1>5 DEF Remote
  <2> QED
    BY <1>3, <1>7, <2>1, TailViews
<1>9. Waiting(d) \/ Settled(d)
  BY <1>4, <1>6, <1>7 DEF Waiting, Settled, Only
<1>10. Stage(d) /\ ~Sets(d)
  BY <1>2, <1>4, <1>7, <1>9 DEF Stage, Waiting, Settled, Sets
<1>11. /\ peer'[p] = peer[p] /\ call'[p] = call[p] /\ outbox'[p] = outbox[p]
  BY DEF OnFailure
<1>12. Said(p)' = Said(p) /\ OutboxInOrder(p)'
  BY <1>11 DEF Said, OutboxInOrder
<1>13. ~Owes(p) /\ ~Owes(p)'
  BY <1>5, <1>7 DEF Owes
<1>14. Known(p)' = Known(p) /\ Unsaid(p)' = Unsaid(p) /\ Early(p)' = Early(p)
  BY <1>7, <1>8, <1>11, <1>12, <1>13 DEF Known, Unsaid, Early
<1>15. Staged(p)' /\ Speaks(p)'
  BY <1>7, <1>8, <1>10, <1>11, <1>12, <1>14 DEF Staged, Speaks
<1> QED
  BY <1>1, <1>7, <1>8, <1>11, <1>12, <1>13, <1>14, <1>15

\* A candidate is signalled.
LEMMA CandidateViews ==
    ASSUME TypeOK, NEW p \in Programs, OnIceCandidate(p),
           Presence(p), Staged(p), Speaks(p), OutboxInOrder(p)
    PROVE \E x \in SignalRecords :
          /\ x.call = call[p] /\ x.to = conn[p].remote /\ x.kind = "candidate"
          /\ Said(p)' = Said(p) \cup {x}
          /\ peer[p] # None /\ peer'[p] = peer[p] /\ call'[p] = call[p]
          /\ conn'[p].sdp = conn[p].sdp /\ conn'[p].remote = conn[p].remote
          /\ conn'[p].caller = conn[p].caller
          /\ Known(p)' = Known(p) /\ Due(p)' = Due(p) /\ Unsaid(p)' = Unsaid(p)
          /\ ~HasToCall(p) /\ ~HasToCall(p)' /\ ~Owes(p) /\ ~Owes(p)'
          /\ Staged(p)' /\ Speaks(p)' /\ OutboxInOrder(p)'
PROOF
<1> DEFINE c == conn[p]
           d == conn'[p]
           x == Signal("candidate", call[p], conn[p].remote)
<1>1. peer[p] # None
  BY DEF OnIceCandidate, Presence, New
<1>2. Stage(c)
  BY <1>1 DEF Staged
<1>3. c.local
  BY DEF OnIceCandidate
<1>4. Waiting(c) \/ Settled(c)
  BY <1>2, <1>3 DEF Stage, Offers, Sets, Accepts, Answers
<1>5. /\ d.chain = c.chain
      /\ d.sdp = c.sdp /\ d.remote = c.remote /\ d.caller = c.caller /\ d.local = c.local
  BY TypeRestated DEF OnIceCandidate, Conns
<1>6. Stage(d) /\ ~Sets(d)
  BY <1>2, <1>3, <1>4, <1>5 DEF Stage, Waiting, Settled, Sets
<1>7. /\ call[p] \in Nat /\ conn[p].remote \in Nat
      /\ outbox \in [Programs -> Seq(SignalRecords)]
  BY TypeRestated DEF Conns
<1>8. /\ x \in SignalRecords /\ x.call = call[p] /\ x.to = conn[p].remote
      /\ x.kind = "candidate"
  BY <1>7 DEF Signal, SignalRecords, Signals
<1>9. /\ peer'[p] = peer[p] /\ call'[p] = call[p]
      /\ outbox'[p] = Append(outbox[p], x)
  BY <1>7 DEF OnIceCandidate
<1>10. /\ Due(p)' = Due(p) /\ Known(p)' = Known(p)
       /\ HasToCall(p)' = HasToCall(p)
  BY <1>5 DEF Due, Known, HasToCall
<1>11. ~HasToCall(p) /\ ~Owes(p) /\ ~Owes(p)'
  <2>1. ~HasToCall(p)
    BY <1>4 DEF HasToCall, CallsOf, Waiting, Settled, Only
  <2> QED
    BY <1>4, <1>5, <2>1 DEF Owes, Waiting, Settled
<1>12. \A y \in Said(p) : Precedes(y, x)
  <2>1. \A y \in Said(p) : y.call = call[p] /\ y.kind \in Signals
    BY MailType DEF Said, SignalRecords
  <2> QED
    BY <1>8, <2>1 DEF Precedes, Signals
<1> HIDE DEF x
<1>13. Said(p)' = Said(p) \cup {x} /\ OutboxInOrder(p)'
  BY <1>8, <1>9, <1>12, SayMore
<1>14. Unsaid(p)' = Unsaid(p)
  BY <1>8, <1>9, <1>10, <1>13 DEF Unsaid
<1>15. Staged(p)' /\ Speaks(p)'
  BY <1>1, <1>5, <1>6, <1>8, <1>9, <1>10, <1>11, <1>13 DEF Staged, Speaks, Early
<1> QED
  BY <1>1, <1>5, <1>8, <1>9, <1>10, <1>11, <1>13, <1>14, <1>15

\* What a message asks for comes behind what waits in the chain.
LEMMA HearEffect ==
    ASSUME TypeOK, NEW p \in Programs, HearPeer(p)
    PROVE /\ conn'[p].chain = conn[p].chain \o Asked(First(p))
          /\ conn'[p].sdp = conn[p].sdp /\ conn'[p].remote = conn[p].remote
          /\ conn'[p].caller = conn[p].caller /\ conn'[p].local = conn[p].local
          /\ \A q \in Programs \ {p} : conn'[q] = conn[q]
PROOF
<1>1. conn \in [Programs -> Conns]
  BY TypeRestated
<1> QED
  BY <1>1 DEF HearPeer, Conns

\* A connection that hears a message is not about to set a description.
LEMMA SettingWaits ==
    ASSUME NEW p \in Programs, Waits(p)
    PROVE ~Sets(conn[p]) /\ ~Accepts(conn[p])
PROOF
<1> DEFINE c == conn[p]
<1>1. ASSUME NEW op, NEW m, c.chain # <<>>, Head(c.chain) = Operation(op, m),
             op \in {"SetLocalOffer", "SetRemoteOffer"}
      PROVE FALSE
  BY <1>1 DEF Waits, Operation, Creations
<1>2. ~Sets(c)
  <2>1. ASSUME c.chain = <<Operation("SetLocalOffer", 0)>> PROVE FALSE
    <3>1. c.chain # <<>> /\ Head(c.chain) = Operation("SetLocalOffer", 0)
      BY <2>1, Tuples
    <3> QED
      BY <1>1, <3>1
  <2> QED
    BY <2>1 DEF Sets
<1>3. ~Accepts(c)
  <2>1. ASSUME NEW m,
               LET set == Operation("SetRemoteOffer", m) IN
               \/ c.chain = <<set, Operation("CreateAnswer", 0)>>
               \/ c.chain = <<set, Operation("CreateAnswer", 0), Operation("SetLocalOffer", 0)>>
        PROVE FALSE
    <3>1. c.chain # <<>> /\ Head(c.chain) = Operation("SetRemoteOffer", m)
      BY <2>1, Tuples
    <3> QED
      BY <1>1, <3>1
  <2> QED
    BY <2>1 DEF Accepts
<1> QED
  BY <1>2, <1>3

\* A connection that has no description takes an offer, x, while it makes its own, or
\* when it waits for an answer.
LEMMA HearOfferViews ==
    ASSUME TypeOK, NEW p \in Programs, HearPeer(p), Waits(p), Stage(conn[p]),
           NEW x, x = First(p), x.kind = "offer", x.call \in Nat \ {0}, Known(p) = {}
    PROVE /\ Stage(conn'[p]) /\ ~Sets(conn'[p])
          /\ conn[p].remote = 0 /\ conn[p].sdp # "have-remote-offer"
          /\ Known(p)' = {x.call} /\ Due(p)' = Due(p) /\ Due(p) = {}
          /\ HasToCall(p)' = HasToCall(p)
          /\ conn[p].sdp = "have-local-offer" \/ HasToCall(p)
PROOF
<1> DEFINE c == conn[p]
           d == conn'[p]
           set == Operation("SetRemoteOffer", x.call)
           create == Operation("CreateAnswer", 0)
           more == Append(c.chain, set)
<1>1. /\ c \in Conns /\ c.chain \in Seq(Operations)
      /\ \A i \in DOMAIN c.chain : c.chain[i] \in Operations
  BY ChainType
<1>2. set \in Operations /\ create \in Operations
  BY DEF Operation, Operations, Settings, Creations
<1>3. more \in Seq(Operations)
  BY <1>1, <1>2
<1>4. /\ d.sdp = c.sdp /\ d.remote = c.remote /\ d.caller = c.caller /\ d.local = c.local
      /\ d.chain = Append(more, create)
  <2>1. d.chain = c.chain \o <<set, create>>
    BY HearEffect DEF Asked
  <2>2. c.chain \o <<set, create>> = Append(more, create)
    <3>1. c.chain \in Seq(Operations)
      BY <1>1
    <3> DEFINE chain == c.chain
    <3> HIDE DEF c, set, create, chain
    <3>2. chain \in Seq(Operations)
      BY <3>1 DEF chain
    <3>3. chain \o <<set, create>> = Append(Append(chain, set), create)
      BY <1>2, <3>2, ConcatAppend
    <3> QED
      BY <3>3 DEF chain
  <2> QED
    BY <2>1, <2>2, HearEffect
<1>5. /\ set.op = "SetRemoteOffer" /\ set.call = x.call
      /\ create.op = "CreateAnswer"
  BY DEF Operation
<1>6. c.remote = 0 /\ \A i \in DOMAIN c.chain : c.chain[i].op \notin Remote
  <2>1. c.remote = 0 /\ \A n \in CallsOf(c.chain, Remote) : n = 0
    BY DEF Known
  <2>2. \A i \in DOMAIN c.chain : c.chain[i].op \in Remote => c.chain[i].call # 0
    BY DEF Stage
  <2>3. \A i \in DOMAIN c.chain :
           c.chain[i].op \in Remote => c.chain[i].call \in CallsOf(c.chain, Remote)
    BY DEF CallsOf
  <2> QED
    BY <2>1, <2>2, <2>3
<1>7. /\ CallsOf(d.chain, Remote) = CallsOf(c.chain, Remote) \cup {x.call}
      /\ CallsOf(d.chain, {"SetRemoteAnswer"}) = CallsOf(c.chain, {"SetRemoteAnswer"})
      /\ CallsOf(d.chain, {"CreateOffer"}) = CallsOf(c.chain, {"CreateOffer"})
  <2> HIDE DEF c, d, set, create
  <2>1. ASSUME NEW ops
        PROVE CallsOf(more, ops) =
                 IF set.op \in ops THEN CallsOf(c.chain, ops) \cup {set.call}
                 ELSE CallsOf(c.chain, ops)
    BY <1>1, <1>2, CallsAppend
  <2> HIDE DEF more
  <2>2. ASSUME NEW ops
        PROVE CallsOf(d.chain, ops) =
                 IF create.op \in ops THEN CallsOf(more, ops) \cup {create.call}
                 ELSE CallsOf(more, ops)
    BY <1>2, <1>3, <1>4, CallsAppend
  <2>3. /\ set.op \in Remote /\ set.op \notin {"SetRemoteAnswer"} /\ set.op \notin {"CreateOffer"}
        /\ create.op \notin Remote /\ create.op \notin {"SetRemoteAnswer"}
        /\ create.op \notin {"CreateOffer"}
    BY <1>5 DEF Remote
  <2>4. CallsOf(d.chain, Remote) = CallsOf(c.chain, Remote) \cup {x.call}
    BY <1>5, <2>1, <2>2, <2>3
  <2>5. CallsOf(d.chain, {"SetRemoteAnswer"}) = CallsOf(c.chain, {"SetRemoteAnswer"})
    BY <2>1, <2>2, <2>3
  <2>6. CallsOf(d.chain, {"CreateOffer"}) = CallsOf(c.chain, {"CreateOffer"})
    BY <2>1, <2>2, <2>3
  <2> QED
    BY <2>4, <2>5, <2>6
<1>8. Known(p)' = {x.call} /\ Due(p)' = Due(p) /\ HasToCall(p)' = HasToCall(p)
  BY <1>4, <1>6, <1>7 DEF Known, Due, HasToCall
<1>9. Due(p) = {}
  BY <1>6 DEF Due, CallsOf, Remote
<1>10. \A i \in DOMAIN d.chain : d.chain[i].op \in Remote => d.chain[i].call # 0
  <2>1. \A i \in DOMAIN d.chain :
           \/ d.chain[i] \in {set, create}
           \/ i \in DOMAIN c.chain /\ d.chain[i] = c.chain[i]
    <3> HIDE DEF set, create
    <3>1. \A i \in DOMAIN d.chain : d.chain[i] = create \/ (i \in DOMAIN more /\ d.chain[i] = more[i])
      BY <1>2, <1>3, <1>4, AppendElements
    <3>2. \A i \in DOMAIN more : more[i] = set \/ (i \in DOMAIN c.chain /\ more[i] = c.chain[i])
      BY <1>1, <1>2, AppendElements
    <3> QED
      BY <3>1, <3>2
  <2> QED
    BY <1>5, <1>6, <2>1 DEF Remote
<1>11. CASE Offers(c)
  <2>1. c.chain = <<Operation("CreateOffer", 0)>>
    <3>1. ASSUME NEW m, c.chain = <<Operation("CreateOffer", 0), Operation("SetRemoteOffer", m),
                                    Operation("CreateAnswer", 0)>>
          PROVE FALSE
      <4>1. 2 \in DOMAIN c.chain /\ c.chain[2].op \in Remote
        BY <3>1 DEF Operation, Remote
      <4> QED
        BY <1>6, <4>1
    <3> QED
      BY <1>11, <3>1 DEF Offers
  <2>2. d.chain = <<Operation("CreateOffer", 0), set, create>>
    <3> DEFINE first == Operation("CreateOffer", 0)
               one == <<first>>
               two == <<first, set>>
               three == <<first, set, create>>
    <3> HIDE DEF c, d, set, create, first
    <3>1. Append(one, set) = two
      BY AppendOne
    <3>2. Append(two, create) = three
      BY AppendTwo
    <3>3. c.chain = one
      BY <2>1 DEF first
    <3> HIDE DEF one, two, three
    <3>4. d.chain = three
      BY <1>4, <3>1, <3>2, <3>3
    <3> QED
      BY <3>4 DEF three, first
  <2>3. 2 \in DOMAIN d.chain /\ d.chain[2].call = x.call
    BY <2>2 DEF Operation
  <2>4. Offers(d)
    <3>1. d.chain = <<Operation("CreateOffer", 0), Operation("SetRemoteOffer", d.chain[2].call),
                      Operation("CreateAnswer", 0)>>
      BY <2>2, <2>3
    <3>2. c.sdp = "stable" /\ c.remote = 0 /\ ~c.local /\ c.caller
      BY <1>11 DEF Offers
    <3> HIDE DEF c, d
    <3>3. \E i \in DOMAIN d.chain :
             d.chain = <<Operation("CreateOffer", 0), Operation("SetRemoteOffer", d.chain[i].call),
                         Operation("CreateAnswer", 0)>>
      BY <2>3, <3>1, Zenon
    <3> QED
      BY <1>4, <3>2, <3>3, Zenon DEF Offers
  <2>5. HasToCall(p)
    BY <1>11, OffersHasToCall
  <2>6. c.sdp = "stable"
    BY <1>11 DEF Offers
  <2>7. ~Sets(d)
    <3>1. d.chain[1].op = "CreateOffer"
      BY <2>2 DEF Operation
    <3>2. Sets(d) => d.chain[1].op = "SetLocalOffer"
      BY DEF Sets, Operation
    <3> QED
      BY <3>1, <3>2
  <2> QED
    BY <1>4, <1>6, <1>8, <1>9, <1>10, <2>4, <2>5, <2>6, <2>7 DEF Stage
<1>12. CASE Waiting(c)
  <2>1. \A i \in DOMAIN d.chain :
           \/ d.chain[i] \in {set, create}
           \/ i \in DOMAIN c.chain /\ d.chain[i] = c.chain[i]
    <3> HIDE DEF set, create
    <3>1. \A i \in DOMAIN d.chain : d.chain[i] = create \/ (i \in DOMAIN more /\ d.chain[i] = more[i])
      BY <1>2, <1>3, <1>4, AppendElements
    <3>2. \A i \in DOMAIN more : more[i] = set \/ (i \in DOMAIN c.chain /\ more[i] = c.chain[i])
      BY <1>1, <1>2, AppendElements
    <3> QED
      BY <3>1, <3>2
  <2>2. \A i \in DOMAIN d.chain : d.chain[i].op \in {"SetRemoteOffer", "CreateAnswer"}
    BY <1>5, <1>6, <1>12, <2>1 DEF Waiting, Only, Remote
  <2>3. Waiting(d)
    BY <1>4, <1>12, <2>2 DEF Waiting, Only
  <2> QED
    BY <1>4, <1>6, <1>8, <1>9, <1>10, <1>12, <2>3 DEF Stage, Waiting, Sets
<1>13. ~Sets(c) /\ ~Accepts(c)
  BY SettingWaits
<1> QED
  BY <1>6, <1>11, <1>12, <1>13 DEF Stage, Answers, Settled

\* A connection that has no offer to make takes an answer.
LEMMA HearAnswerViews ==
    ASSUME TypeOK, NEW p \in Programs, HearPeer(p), Waits(p), Stage(conn[p]),
           NEW x, x = First(p), x.kind = "answer", x.call \in Nat \ {0}, ~HasToCall(p)
    PROVE /\ Stage(conn'[p]) /\ ~Sets(conn'[p])
          /\ Known(p)' = Known(p) \cup {x.call} /\ Due(p)' = Due(p) \cup {x.call}
          /\ HasToCall(p)' = HasToCall(p)
          /\ Owes(p)' = Owes(p)
PROOF
<1> DEFINE c == conn[p]
           d == conn'[p]
           set == Operation("SetRemoteAnswer", x.call)
<1>1. /\ c \in Conns /\ c.chain \in Seq(Operations)
      /\ \A i \in DOMAIN c.chain : c.chain[i] \in Operations
  BY ChainType
<1>2. set \in Operations
  BY DEF Operation, Operations, Settings
<1>3. /\ d.sdp = c.sdp /\ d.remote = c.remote /\ d.caller = c.caller /\ d.local = c.local
      /\ d.chain = Append(c.chain, set)
  <2>1. d.chain = c.chain \o <<set>>
    BY HearEffect DEF Asked
  <2>2. c.chain \o <<set>> = Append(c.chain, set)
    <3> HIDE DEF set
    <3> QED
      BY <1>1, <1>2
  <2> QED
    BY <2>1, <2>2, HearEffect
<1>4. set.op = "SetRemoteAnswer" /\ set.call = x.call
  BY DEF Operation
<1>5. /\ CallsOf(d.chain, Remote) = CallsOf(c.chain, Remote) \cup {x.call}
      /\ CallsOf(d.chain, {"SetRemoteAnswer"}) = CallsOf(c.chain, {"SetRemoteAnswer"}) \cup {x.call}
      /\ CallsOf(d.chain, {"CreateOffer"}) = CallsOf(c.chain, {"CreateOffer"})
  <2> HIDE DEF c, d, set
  <2>1. ASSUME NEW ops
        PROVE CallsOf(d.chain, ops) =
                 IF set.op \in ops THEN CallsOf(c.chain, ops) \cup {set.call}
                 ELSE CallsOf(c.chain, ops)
    <3>1. c.chain \in Seq(Operations)
      BY <1>1
    <3>2. CallsOf(Append(c.chain, set), ops) =
             IF set.op \in ops THEN CallsOf(c.chain, ops) \cup {set.call}
             ELSE CallsOf(c.chain, ops)
      BY <1>2, <3>1, CallsAppend
    <3>3. d.chain = Append(c.chain, set)
      BY <1>3
    <3> QED
      BY <3>2, <3>3
  <2>2. /\ set.op \in Remote /\ set.op \in {"SetRemoteAnswer"}
        /\ set.op \notin {"CreateOffer"}
    BY <1>4 DEF Remote
  <2>3. CallsOf(d.chain, Remote) = CallsOf(c.chain, Remote) \cup {x.call}
    BY <1>4, <2>1, <2>2
  <2>4. CallsOf(d.chain, {"SetRemoteAnswer"}) = CallsOf(c.chain, {"SetRemoteAnswer"}) \cup {x.call}
    BY <1>4, <2>1, <2>2
  <2>5. CallsOf(d.chain, {"CreateOffer"}) = CallsOf(c.chain, {"CreateOffer"})
    BY <2>1, <2>2
  <2> QED
    BY <2>3, <2>4, <2>5
<1>6. /\ Known(p)' = Known(p) \cup {x.call} /\ Due(p)' = Due(p) \cup {x.call}
      /\ HasToCall(p)' = HasToCall(p)
  BY <1>3, <1>5 DEF Known, Due, HasToCall
<1> HIDE DEF set
<1>7. /\ Len(c.chain) \in Nat
      /\ DOMAIN c.chain = 1..Len(c.chain) /\ DOMAIN d.chain = 1..(Len(c.chain) + 1)
      /\ d.chain[Len(c.chain) + 1] = set
      /\ \A i \in 1..Len(c.chain) : d.chain[i] = c.chain[i]
      /\ d.chain # <<>>
      /\ c.chain # <<>> => Head(d.chain) = Head(c.chain) /\ Head(c.chain) = c.chain[1]
                             /\ 1 \in DOMAIN c.chain
  BY <1>1, <1>2, <1>3
<1>8. \A i \in DOMAIN d.chain : d.chain[i].op \in Remote => d.chain[i].call # 0
  <2>1. \A i \in 1..(Len(c.chain) + 1) : i \in 1..Len(c.chain) \/ i = Len(c.chain) + 1
    BY <1>7
  <2>2. \A i \in 1..Len(c.chain) : c.chain[i].op \in Remote => c.chain[i].call # 0
    BY <1>7 DEF Stage
  <2> HIDE DEF c, d
  <2>3. \A i \in 1..(Len(c.chain) + 1) : d.chain[i].op \in Remote => d.chain[i].call # 0
    BY <1>4, <1>7, <2>1, <2>2
  <2> QED
    BY <1>7, <2>3
<1>9. CASE Waiting(c)
  <2>1. Only(d.chain, {"SetRemoteOffer", "CreateAnswer", "SetRemoteAnswer"})
    <3>1. \A i \in 1..Len(c.chain) :
             c.chain[i].op \in {"SetRemoteOffer", "CreateAnswer", "SetRemoteAnswer"}
      BY <1>7, <1>9 DEF Waiting, Only
    <3>2. \A i \in 1..(Len(c.chain) + 1) : i \in 1..Len(c.chain) \/ i = Len(c.chain) + 1
      BY <1>7
    <3> HIDE DEF c, d
    <3> QED
      BY <1>4, <1>7, <3>1, <3>2 DEF Only
  <2>2. ASSUME NEW i \in DOMAIN d.chain, NEW j \in DOMAIN d.chain, i < j,
               d.chain[i].op = "SetRemoteAnswer"
        PROVE d.chain[j].op # "SetRemoteOffer"
    <3>1. CASE j = Len(c.chain) + 1
      BY <1>4, <1>7, <3>1
    <3>2. CASE j # Len(c.chain) + 1
      <4>1. i \in 1..Len(c.chain) /\ j \in 1..Len(c.chain)
        BY <1>7, <2>2, <3>2
      <4>2. c.chain[i].op = "SetRemoteAnswer" => c.chain[j].op # "SetRemoteOffer"
        BY <1>7, <1>9, <2>2, <4>1 DEF Waiting
      <4> QED
        BY <1>7, <2>2, <4>1, <4>2
    <3> QED
      BY <3>1, <3>2
  <2>3. Waiting(d)
    BY <1>3, <1>9, <2>1, <2>2 DEF Waiting
  <2>4. Owes(p)' = Owes(p)
    BY <1>3, <1>9 DEF Owes, Waiting
  <2> QED
    BY <1>6, <1>8, <2>3, <2>4 DEF Stage, Waiting, Sets
<1>10. CASE Answers(c)
  <2>1. /\ c.chain # <<>> /\ c.chain[1].op = "CreateAnswer"
        /\ \A i \in DOMAIN c.chain \ {1} : c.chain[i].op \in {"SetLocalOffer", "SetRemoteAnswer"}
    <3>1. c.chain # <<>> /\ c.chain[1].op \in Creations
      BY <1>7, <1>10 DEF Waits, Answers
    <3>2. ASSUME c.chain[1].op # "CreateAnswer" PROVE FALSE
      <4>1. /\ c.chain[Len(c.chain)].op = "SetLocalAnswer"
            /\ \A i \in DOMAIN c.chain \ {Len(c.chain)} :
                  c.chain[i].op \in {"SetLocalOffer", "SetRemoteAnswer"}
        BY <1>10, <3>2 DEF Answers
      <4> QED
        BY <1>7, <3>1, <4>1 DEF Creations
    <3> QED
      BY <1>10, <3>1, <3>2, <1>7 DEF Answers, Creations
  <2>2. /\ d.chain # <<>> /\ d.chain[1].op = "CreateAnswer"
        /\ \A i \in DOMAIN d.chain \ {1} : d.chain[i].op \in {"SetLocalOffer", "SetRemoteAnswer"}
    <3> HIDE DEF c, d
    <3>1. 1 \in DOMAIN c.chain /\ 1 \in 1..Len(c.chain)
      BY <1>7, <2>1
    <3>2. d.chain # <<>> /\ d.chain[1].op = "CreateAnswer"
      BY <1>7, <2>1, <3>1
    <3>3. ASSUME NEW i \in DOMAIN d.chain \ {1}
          PROVE d.chain[i].op \in {"SetLocalOffer", "SetRemoteAnswer"}
      <4>1. i = Len(c.chain) + 1 \/ i \in 1..Len(c.chain)
        BY <1>7
      <4> QED
        BY <1>4, <1>7, <2>1, <4>1
    <3> QED
      BY <3>2, <3>3
  <2>3. Answers(d)
    BY <1>3, <1>10, <2>2 DEF Answers
  <2>4. Owes(p)' = Owes(p)
    BY <1>3, <1>7, <2>1 DEF Owes
  <2> QED
    BY <1>6, <1>8, <2>3, <2>4 DEF Stage, Answers, Sets
<1>11. CASE Settled(c)
  <2>1. Settled(d)
    BY <1>3, <1>4, <1>7, <1>11 DEF Settled, Only
  <2>2. Owes(p)' = Owes(p)
    BY <1>3, <1>11 DEF Owes, Settled
  <2> QED
    BY <1>6, <1>8, <2>1, <2>2 DEF Stage, Settled, Sets
<1>12. ~Sets(c) /\ ~Accepts(c) /\ ~Offers(c)
  BY SettingWaits, OffersHasToCall
<1> QED
  BY <1>9, <1>10, <1>11, <1>12 DEF Stage

-----------------------------------------------------------------------------
(* Two programs.                                                           *)

\* A number that a program has of its peer is one it has learnt.
LEMMA Learning ==
    ASSUME NEW p \in Programs, NEW q \in Programs
    PROVE /\ conn[p].remote # 0 => conn[p].remote \in Known(p)
          /\ \A t \in Due(p) : t # 0 => t \in Known(p)
          /\ peer[p] = q => \A t \in Known(p) : t \in Learnt(p, q)
          /\ peer[p] = q => \A s \in Said(p) : s.to # 0 => s.to \in Learnt(p, q)
          /\ \A s \in Mail(p, q) : s.to # 0 => s.to \in Learnt(p, q)
PROOF
<1>1. \A t \in Due(p) : t # 0 => t \in Known(p)
  BY DEF Due, Known, CallsOf, Remote
<1>2. 0 \notin Known(p)
  BY DEF Known
<1> QED
  BY <1>1, <1>2 DEF Known, Learnt

\* Connections have numbers.
LEMMA LearntType ==
    ASSUME TypeOK, NEW p \in Programs, NEW q \in Programs
    PROVE Learnt(q, p) \subseteq Nat
PROOF
<1>1. Known(q) \subseteq Nat
  <2>1. \A i \in DOMAIN conn[q].chain : conn[q].chain[i].call \in Nat
    BY ChainType DEF Operations
  <2>2. conn[q].remote \in Nat
    BY ChainType DEF Conns
  <2> QED
    BY <2>1, <2>2 DEF Known, CallsOf
<1>2. \A s \in Mail(q, p) : s.to \in Nat
  BY MailType DEF MailSignals
<1>3. \A s \in Said(q) : s.to \in Nat
  BY MailType DEF SignalRecords
<1> QED
  BY <1>1, <1>2, <1>3 DEF Learnt

\* Types, and what is known of a program that waits or has a peer.
LEMMA PairType ==
    ASSUME TypeOK, NEW p \in Programs, NEW q \in Programs, Each(p)
    PROVE /\ call[p] \in Nat /\ conn[p].remote \in Nat
          /\ \A s \in Mail(p, q) : /\ s.call \in Nat /\ s.to \in Nat
                                   /\ s.kind \in Signals \cup News
          /\ \A s \in Said(p) : /\ s.call \in Nat /\ s.to \in Nat /\ s.kind \in Signals
                                /\ s.call = call[p]
          /\ peer[p] # None => online[p] /\ call[p] # 0
          /\ peer[p] = None => conn[p] = New /\ conn[p].sdp = "stable"
          /\ conn[p].sdp = "have-local-offer" => conn[p].remote = 0
          /\ peer[p] # p /\ q # None
PROOF
<1>1. Mail(p, q) \subseteq MailSignals /\ Said(p) \subseteq SignalRecords
  BY MailType
<1>2. \A s \in Said(p) : s.call = call[p]
  BY DEF Said
<1>3. call[p] \in Nat /\ conn[p] \in Conns
  BY TypeRestated
<1>4. Presence(p) /\ Staged(p)
  BY DEF Each
<1>5. conn[p].sdp = "have-local-offer" => conn[p].remote = 0
  BY <1>4 DEF Presence, New, Staged, Stage, Offers, Sets, Accepts, Waiting, Answers, Settled
<1> QED
  BY <1>1, <1>2, <1>3, <1>4, <1>5, NoneAssumption DEF Presence, New, Conns, MailSignals,
     SignalRecords

\* Nobody has anything to do with itself.
LEMMA SelfPair ==
    ASSUME NEW p \in Programs, Presence(p)', Mail(p, p)' = {}
    PROVE Pair(p, p)'
PROOF
<1>1. peer'[p] # p
  BY DEF Presence
<1>2. Learnt(p, p)' = {}
  BY <1>1 DEF Learnt
<1>3. /\ Posted(p, p)' /\ HeardFirst(p, p)' /\ KnownIsLive(p, p)'
      /\ OfferIsLive(p, p)' /\ AnswerIsLive(p, p)' /\ ByeIsPast(p, p)' /\ CalleeHeard(p, p)'
  BY <1>1, <1>2 DEF Posted, HeardFirst, KnownIsLive, OfferIsLive, AnswerIsLive, ByeIsPast,
     CalleeHeard
<1>4. /\ OfferIsHeard(p, p)' /\ AnswerIsDue(p, p)' /\ AnswererKnows(p, p)'
      /\ CandidateFollows(p, p)'
  BY <1>1 DEF OfferIsHeard, AnswerIsDue, AnswererKnows, CandidateFollows
<1> QED
  BY <1>3, <1>4 DEF Pair

\* Two programs that a step leaves alone.
LEMMA SamePair ==
    ASSUME NEW p \in Programs, NEW q \in Programs, Pair(p, q),
           peer'[p] = peer[p], call'[p] = call[p], conn'[p] = conn[p], outbox'[p] = outbox[p],
           peer'[q] = peer[q], call'[q] = call[q], conn'[q] = conn[q], outbox'[q] = outbox[q],
           online'[p] = online[p], Mail(p, q)' = Mail(p, q), Mail(q, p)' = Mail(q, p)
    PROVE Pair(p, q)'
PROOF
<1>1. /\ Said(p)' = Said(p) /\ Known(p)' = Known(p) /\ Due(p)' = Due(p)
      /\ Unsaid(p)' = Unsaid(p) /\ Owes(p)' = Owes(p) /\ Early(p)' = Early(p)
  BY SameProgram
<1>2. /\ Said(q)' = Said(q) /\ Known(q)' = Known(q) /\ Due(q)' = Due(q)
      /\ Unsaid(q)' = Unsaid(q) /\ Owes(q)' = Owes(q) /\ Early(q)' = Early(q)
  BY SameProgram
<1>3. /\ Learnt(p, q)' = Learnt(p, q)
      /\ Gone(p, q)' = Gone(p, q) /\ Gone(q, p)' = Gone(q, p)
  BY <1>1 DEF Learnt, Gone
<1>4. \A m : Live(q, p, m)' <=> Live(q, p, m)
  BY <1>3 DEF Live
<1>5. Posted(p, q)'
  BY <1>1, <1>3 DEF Pair, Posted
<1>6. HeardFirst(p, q)'
  BY <1>2, <1>3 DEF Pair, HeardFirst
<1>7. KnownIsLive(p, q)'
  BY <1>1, <1>4 DEF Pair, KnownIsLive
<1>8. OfferIsLive(p, q)' /\ AnswerIsLive(p, q)'
  BY <1>4 DEF Pair, OfferIsLive, AnswerIsLive
<1>9. ByeIsPast(p, q)' /\ CalleeHeard(p, q)'
  BY <1>1 DEF Pair, ByeIsPast, CalleeHeard
<1>10. OfferIsHeard(p, q)'
  BY <1>1 DEF Pair, OfferIsHeard
<1>11. AnswerIsDue(p, q)'
  BY <1>1, <1>2 DEF Pair, AnswerIsDue
<1>12. AnswererKnows(p, q)'
  BY <1>1, <1>2 DEF Pair, AnswererKnows
<1>13. CandidateFollows(p, q)'
  BY <1>1, <1>2 DEF Pair, CandidateFollows
<1> QED
  BY <1>5, <1>6, <1>7, <1>8, <1>9, <1>10, <1>11, <1>12, <1>13 DEF Pair

\* What p does with its own connection, when X is what it signals: a description comes
\* to be applied, or to be sent, and nobody else has anything to do with it yet.
OwnMove(p, X) ==
    /\ online' = online /\ inbox' = inbox
    /\ \A q \in Programs \ {p} : /\ peer'[q] = peer[q] /\ call'[q] = call[q]
                                 /\ conn'[q] = conn[q] /\ outbox'[q] = outbox[q]
    /\ peer[p] # None /\ peer'[p] = peer[p] /\ call'[p] = call[p]
    /\ conn'[p].caller = conn[p].caller
    /\ Unsaid(p)' = Unsaid(p) /\ (Early(p)' => Early(p))
    /\ Known(p)' \subseteq Known(p) /\ Due(p)' \subseteq Due(p)
    /\ conn'[p].sdp = "have-local-offer" =>
          (conn[p].sdp = "have-local-offer" /\ Due(p)' = Due(p)) \/ Unsaid(p)
    /\ conn'[p].remote = conn[p].remote \/ Owes(p)' \/ conn'[p].remote \in Due(p)
    /\ conn'[p].remote = 0 => conn[p].remote = 0
    /\ Said(p)' = Said(p) \cup X
    /\ \A x \in X : /\ x.call = call[p] /\ x.to = conn[p].remote
                    /\ x.kind = "answer" => Owes(p) /\ conn[p].remote # 0
                    /\ x.kind = "candidate" => ~Owes(p)
    /\ Owes(p) => Owes(p)' \/ \E x \in X : x.kind = "answer"
    /\ Staged(p)' /\ Speaks(p)' /\ OutboxInOrder(p)'

\* Any other program, q, still agrees with p.
LEMMA OwnStep ==
    ASSUME TypeOK, NEW p \in Programs, NEW q \in Programs \ {p},
           Each(p), Each(q), Pair(p, q), Pair(q, p), NEW X, OwnMove(p, X)
    PROVE Pair(p, q)' /\ Pair(q, p)'
PROOF
<1> SUFFICES
      ASSUME online' = online, inbox' = inbox,
             peer'[q] = peer[q], call'[q] = call[q], conn'[q] = conn[q], outbox'[q] = outbox[q],
             peer[p] # None, peer'[p] = peer[p], call'[p] = call[p],
             conn'[p].caller = conn[p].caller,
             Unsaid(p)' = Unsaid(p), Early(p)' => Early(p),
             Known(p)' \subseteq Known(p), Due(p)' \subseteq Due(p),
             conn'[p].sdp = "have-local-offer" =>
                (conn[p].sdp = "have-local-offer" /\ Due(p)' = Due(p)) \/ Unsaid(p),
             conn'[p].remote = conn[p].remote \/ Owes(p)' \/ conn'[p].remote \in Due(p),
             conn'[p].remote = 0 => conn[p].remote = 0,
             Said(p)' = Said(p) \cup X,
             \A x \in X : /\ x.call = call[p] /\ x.to = conn[p].remote
                          /\ x.kind = "answer" => Owes(p) /\ conn[p].remote # 0
                          /\ x.kind = "candidate" => ~Owes(p),
             Owes(p) => Owes(p)' \/ \E x \in X : x.kind = "answer"
      PROVE Pair(p, q)' /\ Pair(q, p)'
  BY DEF OwnMove
<1>1. /\ call[p] \in Nat /\ call[p] # 0 /\ call[q] \in Nat
      /\ conn[p].remote \in Nat /\ conn[q].remote \in Nat
      /\ peer[q] # None => call[q] # 0
      /\ conn[q].sdp = "have-local-offer" => conn[q].remote = 0
      /\ p # None /\ q # None
  BY PairType
<1>2. /\ conn[p].remote # 0 => conn[p].remote \in Known(p)
      /\ conn[q].remote # 0 => conn[q].remote \in Known(q)
      /\ peer[p] = q => \A t \in Known(p) : t \in Learnt(p, q)
      /\ peer[q] = p => \A t \in Known(q) : t \in Learnt(q, p)
      /\ peer[q] = p => \A s \in Said(q) : s.to # 0 => s.to \in Learnt(q, p)
      /\ \A s \in Mail(q, p) : s.to # 0 => s.to \in Learnt(q, p)
  BY Learning
<1>3. /\ Said(q)' = Said(q) /\ Known(q)' = Known(q) /\ Due(q)' = Due(q)
      /\ Unsaid(q)' = Unsaid(q) /\ Owes(q)' = Owes(q) /\ Early(q)' = Early(q)
  BY SameProgram
<1>4. /\ Mail(p, q)' = Mail(p, q) /\ Mail(q, p)' = Mail(q, p)
      /\ Gone(p, q)' = Gone(p, q) /\ Gone(q, p)' = Gone(q, p)
  BY DEF Mail, Gone
<1>5. Learnt(q, p)' = Learnt(q, p)
  BY <1>3, <1>4 DEF Learnt
<1>6. Learnt(p, q)' \subseteq Learnt(p, q)
  BY <1>2, <1>4 DEF Learnt
<1>7. \A m : (Live(p, q, m)' <=> Live(p, q, m)) /\ (Live(q, p, m)' <=> Live(q, p, m))
  BY <1>4 DEF Live
<1>8. call[p] \in Learnt(q, p) => ~Unsaid(p)
  BY DEF Pair, HeardFirst
<1>9. Posted(p, q)'
  <2>1. (\E a \in Said(p)' : a.kind = "answer") => Early(p) \/ \E a \in Said(p) : a.kind = "answer"
    BY DEF Early
  <2> QED
    BY <1>4, <2>1 DEF Pair, Posted
<1>10. Posted(q, p)'
  BY <1>3, <1>4 DEF Pair, Posted
<1>11. HeardFirst(p, q)' /\ HeardFirst(q, p)'
  BY <1>3, <1>4, <1>5, <1>6 DEF Pair, HeardFirst
<1>12. KnownIsLive(p, q)' /\ KnownIsLive(q, p)'
  BY <1>3, <1>7 DEF Pair, KnownIsLive
<1>13. /\ OfferIsLive(p, q)' /\ OfferIsLive(q, p)'
       /\ AnswerIsLive(p, q)' /\ AnswerIsLive(q, p)'
  BY <1>4, <1>7 DEF Pair, OfferIsLive, AnswerIsLive
<1>14. /\ ByeIsPast(p, q)' /\ ByeIsPast(q, p)'
       /\ CalleeHeard(p, q)' /\ CalleeHeard(q, p)'
  BY <1>3, <1>4 DEF Pair, ByeIsPast, CalleeHeard
<1>15. OfferIsHeard(p, q)' /\ OfferIsHeard(q, p)'
  BY <1>3, <1>4 DEF Pair, OfferIsHeard
<1>16. AnswerIsDue(p, q)'
  <2> SUFFICES ASSUME peer[p] = q, peer[q] = p, conn'[p].sdp = "have-local-offer",
                      conn[q].remote = call[p]
               PROVE \/ Owes(q)
                     \/ \E s \in Said(q) \cup Mail(q, p) :
                           s.kind = "answer" /\ s.to = call[p] /\ s.call = call[q]
                     \/ Due(p)' # {}
    BY <1>3, <1>4 DEF AnswerIsDue
  <2>1. ~Unsaid(p)
    BY <1>1, <1>2, <1>8
  <2> QED
    BY <2>1 DEF Pair, AnswerIsDue
<1>17. AnswerIsDue(q, p)'
  <2> SUFFICES ASSUME peer[q] = p, peer[p] = q, conn[q].sdp = "have-local-offer",
                      conn'[p].remote = call[q]
               PROVE \/ Owes(p)'
                     \/ \E s \in Said(p)' \cup Mail(p, q) :
                           s.kind = "answer" /\ s.to = call[q] /\ s.call = call[p]
                     \/ Due(q) # {}
    BY <1>3, <1>4 DEF AnswerIsDue
  <2>1. CASE conn'[p].remote \in Due(p)
    BY <1>1, <2>1 DEF Pair, AnswererKnows
  <2>2. CASE conn'[p].remote = conn[p].remote
    BY <2>2 DEF Pair, AnswerIsDue
  <2> QED
    BY <2>1, <2>2
<1>18. AnswererKnows(p, q)' /\ AnswererKnows(q, p)'
  BY <1>3, <1>4 DEF Pair, AnswererKnows
<1>19. CandidateFollows(p, q)'
  <2> SUFFICES ASSUME peer[p] = q, conn'[p].sdp = "have-local-offer", Due(p)' = {}
               PROVE /\ \A s \in Mail(q, p) :
                           s.kind = "candidate" /\ s.to = call[p] =>
                              \E a \in Mail(q, p) :
                                 a.kind = "answer" /\ a.to = call[p] /\ a.call = s.call
                     /\ peer[q] = p =>
                           \A s \in Said(q) :
                              s.kind = "candidate" /\ s.to = call[p] =>
                                 \E a \in Said(q) \cup Mail(q, p) :
                                    a.kind = "answer" /\ a.to = call[p] /\ a.call = call[q]
    BY <1>3, <1>4 DEF CandidateFollows
  <2>1. CASE Unsaid(p)
    BY <1>1, <1>2, <1>8, <2>1
  <2>2. CASE conn[p].sdp = "have-local-offer" /\ Due(p) = {}
    BY <2>2 DEF Pair, CandidateFollows
  <2> QED
    BY <2>1, <2>2
<1>20. CandidateFollows(q, p)'
  <2> SUFFICES ASSUME peer[q] = p, conn[q].sdp = "have-local-offer", Due(q) = {}, peer[p] = q,
                      NEW s \in X, s.kind = "candidate", s.to = call[q]
               PROVE \E a \in Said(p)' \cup Mail(p, q) :
                        a.kind = "answer" /\ a.to = call[q] /\ a.call = call[p]
    BY <1>3, <1>4 DEF Pair, CandidateFollows
  <2> QED
    BY DEF Pair, AnswerIsDue
<1> QED
  BY <1>9, <1>10, <1>11, <1>12, <1>13, <1>14, <1>15, <1>16, <1>17, <1>18, <1>19, <1>20 DEF Pair

\* p ends a conversation that is not with q, or q has no session.
LEMMA EndAway ==
    ASSUME TypeOK, NEW p \in Programs, NEW q \in Programs \ {p},
           Each(p), Each(q), Pair(p, q), Pair(q, p),
           peer[p] # q \/ ~online[q], online' = online,
           Mail(p, q)' = Mail(p, q), Mail(q, p)' = Mail(q, p),
           peer'[q] = peer[q], call'[q] = call[q], conn'[q] = conn[q], outbox'[q] = outbox[q],
           peer'[p] = None, call'[p] = call[p],
           Known(p)' = {}, Due(p)' = {}, ~Unsaid(p)', Said(p)' \subseteq Said(p)
    PROVE Pair(p, q)' /\ Pair(q, p)'
PROOF
<1>1. p # None /\ q # None
  BY PairType
<1>2. /\ Said(q)' = Said(q) /\ Known(q)' = Known(q) /\ Due(q)' = Due(q)
      /\ Unsaid(q)' = Unsaid(q) /\ Owes(q)' = Owes(q) /\ Early(q)' = Early(q)
  BY SameProgram
<1>3. Gone(p, q)' = Gone(p, q) /\ Gone(q, p)' = Gone(q, p)
  BY DEF Gone
<1>4. Learnt(q, p)' = Learnt(q, p) /\ Learnt(p, q)' \subseteq Learnt(p, q)
  BY <1>1, <1>2 DEF Learnt
<1>5. ~online[q] => peer[q] = None /\ Mail(p, q) = {}
  BY DEF Each, Presence, Mail
<1>6. \A m : (Live(q, p, m)' <=> Live(q, p, m))
  BY <1>3 DEF Live
<1>7. peer[p] # q => \A m : (Live(p, q, m)' <=> Live(p, q, m))
  BY <1>1, <1>3 DEF Live
<1>8. Posted(p, q)' /\ Posted(q, p)'
  BY <1>1, <1>2, <1>3 DEF Pair, Posted
<1>9. HeardFirst(p, q)' /\ HeardFirst(q, p)'
  BY <1>2, <1>4 DEF Pair, HeardFirst
<1>10. /\ KnownIsLive(p, q)' /\ AnswerIsLive(p, q)' /\ ByeIsPast(p, q)' /\ CalleeHeard(p, q)'
       /\ OfferIsHeard(p, q)' /\ AnswerIsDue(p, q)' /\ AnswererKnows(p, q)'
       /\ CandidateFollows(p, q)'
  BY <1>1 DEF KnownIsLive, AnswerIsLive, ByeIsPast, CalleeHeard, OfferIsHeard, AnswerIsDue,
     AnswererKnows, CandidateFollows
<1>11. OfferIsLive(p, q)'
  BY <1>6 DEF Pair, OfferIsLive
<1>12. KnownIsLive(q, p)' /\ AnswerIsLive(q, p)' /\ OfferIsLive(q, p)'
  BY <1>1, <1>2, <1>5, <1>7 DEF Pair, KnownIsLive, AnswerIsLive, OfferIsLive
<1>13. ByeIsPast(q, p)' /\ CalleeHeard(q, p)' /\ AnswerIsDue(q, p)' /\ AnswererKnows(q, p)'
  BY <1>1, <1>2 DEF Pair, ByeIsPast, CalleeHeard, AnswerIsDue, AnswererKnows
<1>14. OfferIsHeard(q, p)' /\ CandidateFollows(q, p)'
  BY <1>1, <1>2, <1>5 DEF Pair, OfferIsHeard, CandidateFollows
<1> QED
  BY <1>8, <1>9, <1>10, <1>11, <1>12, <1>13, <1>14 DEF Pair

\* p ends its conversation with q, and sends it a BYE, b.
LEMMA ByeStep ==
    ASSUME TypeOK, NEW p \in Programs, NEW q \in Programs \ {p},
           Each(p), Each(q), Pair(p, q), Pair(q, p),
           peer[p] = q, online[q], online' = online,
           NEW b, b.kind = "bye", b.call = call[p], b.to = conn[p].remote,
           Mail(p, q)' = Mail(p, q) \cup {b}, Mail(q, p)' = Mail(q, p),
           peer'[q] = peer[q], call'[q] = call[q], conn'[q] = conn[q], outbox'[q] = outbox[q],
           peer'[p] = None, call'[p] = call[p],
           Known(p)' = {}, Due(p)' = {}, ~Unsaid(p)', Said(p)' \subseteq Said(p)
    PROVE Pair(p, q)' /\ Pair(q, p)'
PROOF
<1>1. /\ p # None /\ q # None
      /\ call[p] \in Nat /\ call[p] # 0 /\ conn[p].remote \in Nat /\ online[p]
  BY PairType
<1>2. /\ Said(q)' = Said(q) /\ Known(q)' = Known(q) /\ Due(q)' = Due(q)
      /\ Unsaid(q)' = Unsaid(q) /\ Owes(q)' = Owes(q) /\ Early(q)' = Early(q)
  BY SameProgram
<1>3. Gone(q, p)' = Gone(q, p) /\ (Gone(p, q) => Gone(p, q)')
  BY DEF Gone
<1>4. conn[p].remote # 0 => conn[p].remote \in Learnt(p, q)
  BY Learning
<1>5. Learnt(q, p)' = Learnt(q, p) /\ Learnt(p, q)' \subseteq Learnt(p, q)
  BY <1>1, <1>2, <1>4 DEF Learnt
<1>6. \A m : (Live(q, p, m)' <=> Live(q, p, m)) /\ (Live(p, q, m) => Live(p, q, m)')
  BY <1>3 DEF Live
<1>7. Posted(p, q)' /\ Posted(q, p)'
  BY <1>1, <1>2, <1>3 DEF Pair, Posted
<1>8. HeardFirst(p, q)' /\ HeardFirst(q, p)'
  BY <1>2, <1>5 DEF Pair, HeardFirst
<1>9. /\ KnownIsLive(p, q)' /\ AnswerIsLive(p, q)' /\ ByeIsPast(p, q)' /\ CalleeHeard(p, q)'
      /\ OfferIsHeard(p, q)' /\ AnswerIsDue(p, q)' /\ AnswererKnows(p, q)'
      /\ CandidateFollows(p, q)'
  BY <1>1 DEF KnownIsLive, AnswerIsLive, ByeIsPast, CalleeHeard, OfferIsHeard, AnswerIsDue,
     AnswererKnows, CandidateFollows
<1>10. OfferIsLive(p, q)'
  BY <1>6 DEF Pair, OfferIsLive
<1>11. KnownIsLive(q, p)' /\ AnswerIsLive(q, p)' /\ OfferIsLive(q, p)'
  BY <1>2, <1>6 DEF Pair, KnownIsLive, AnswerIsLive, OfferIsLive
<1>12. ByeIsPast(q, p)' /\ CalleeHeard(q, p)' /\ AnswerIsDue(q, p)' /\ AnswererKnows(q, p)'
  BY <1>1, <1>2 DEF Pair, ByeIsPast, CalleeHeard, AnswerIsDue, AnswererKnows
<1>13. OfferIsHeard(q, p)'
  BY <1>2 DEF Pair, OfferIsHeard, News
<1>14. CandidateFollows(q, p)'
  BY <1>1, <1>2 DEF Pair, CandidateFollows
<1> QED
  BY <1>7, <1>8, <1>9, <1>10, <1>11, <1>12, <1>13, <1>14 DEF Pair

\* p leaves, which q, if it has a session, is to hear.
LEMMA LeaveStep ==
    ASSUME TypeOK, NEW p \in Programs, NEW q \in Programs \ {p},
           Each(p), Each(q), Pair(p, q), Pair(q, p),
           online[p], ~online'[p], online'[q] = online[q],
           Mail(p, q)' = IF online[q] THEN Mail(p, q) \cup {Left} ELSE Mail(p, q),
           Mail(q, p)' = {},
           peer'[q] = peer[q], call'[q] = call[q], conn'[q] = conn[q], outbox'[q] = outbox[q],
           peer'[p] = None, call'[p] = call[p],
           Known(p)' = {}, Due(p)' = {}, ~Unsaid(p)', Said(p)' \subseteq Said(p)
    PROVE Pair(p, q)' /\ Pair(q, p)'
PROOF
<1>1. p # None /\ q # None
  BY PairType
<1>2. /\ Said(q)' = Said(q) /\ Known(q)' = Known(q) /\ Due(q)' = Due(q)
      /\ Unsaid(q)' = Unsaid(q) /\ Owes(q)' = Owes(q) /\ Early(q)' = Early(q)
  BY SameProgram
<1>3. Left.kind = "left" /\ Left.to = 0
  BY DEF Left, Signal
<1>4. ~online[q] => peer[q] = None /\ Mail(p, q) = {}
  BY DEF Each, Presence, Mail
<1>5. online[q] => Gone(p, q)'
  BY <1>3 DEF Gone
<1>6. \A s \in Mail(p, q)' : s.kind = "left" \/ s \in Mail(p, q)
  BY <1>3
<1>7. Learnt(q, p)' \subseteq Learnt(q, p) /\ Learnt(p, q)' \subseteq Learnt(p, q)
  BY <1>1, <1>2, <1>3 DEF Learnt
<1>8. online[q] => \A m : Live(p, q, m) => Live(p, q, m)'
  BY <1>5 DEF Live
<1>9. Posted(p, q)'
  BY <1>1, <1>4, <1>5, <1>6 DEF Pair, Posted
<1>10. Posted(q, p)'
  BY <1>1 DEF Posted
<1>11. HeardFirst(p, q)' /\ HeardFirst(q, p)'
  BY <1>2, <1>6, <1>7 DEF Pair, HeardFirst
<1>12. /\ KnownIsLive(p, q)' /\ AnswerIsLive(p, q)' /\ ByeIsPast(p, q)' /\ CalleeHeard(p, q)'
       /\ OfferIsHeard(p, q)' /\ AnswerIsDue(p, q)' /\ AnswererKnows(p, q)'
       /\ CandidateFollows(p, q)'
  BY <1>1 DEF KnownIsLive, AnswerIsLive, ByeIsPast, CalleeHeard, OfferIsHeard, AnswerIsDue,
     AnswererKnows, CandidateFollows
<1>13. OfferIsLive(p, q)' /\ ByeIsPast(q, p)'
  BY DEF OfferIsLive, ByeIsPast
<1>14. KnownIsLive(q, p)' /\ AnswerIsLive(q, p)' /\ OfferIsLive(q, p)'
  BY <1>1, <1>2, <1>3, <1>4, <1>8 DEF Pair, KnownIsLive, AnswerIsLive, OfferIsLive
<1>15. CalleeHeard(q, p)' /\ AnswerIsDue(q, p)' /\ AnswererKnows(q, p)'
  BY <1>1, <1>2 DEF Pair, CalleeHeard, AnswerIsDue, AnswererKnows
<1>16. OfferIsHeard(q, p)'
  BY <1>1, <1>2, <1>4, <1>5 DEF OfferIsHeard, News, Gone
<1>17. CandidateFollows(q, p)'
  BY <1>1, <1>2, <1>3 DEF Pair, CandidateFollows
<1> QED
  BY <1>9, <1>10, <1>11, <1>12, <1>13, <1>14, <1>15, <1>16, <1>17 DEF Pair

\* p hears that its peer q has ended the conversation, or left: x.
LEMMA NewsStep ==
    ASSUME TypeOK, NEW p \in Programs, NEW q \in Programs \ {p},
           Each(p), Each(q), Pair(p, q), Pair(q, p),
           peer[p] = q, online' = online,
           NEW x, x.kind \in News,
           x.kind = "bye" => IF conn[p].caller THEN x.to = call[p] ELSE x.call = conn[p].remote,
           Mail(q, p) = Mail(q, p)' \cup {x}, \A y \in Mail(q, p)' : Precedes(x, y),
           Mail(p, q)' = Mail(p, q),
           peer'[q] = peer[q], call'[q] = call[q], conn'[q] = conn[q], outbox'[q] = outbox[q],
           peer'[p] = None, call'[p] = call[p],
           Known(p)' = {}, Due(p)' = {}, ~Unsaid(p)', Said(p)' \subseteq Said(p)
    PROVE Pair(p, q)' /\ Pair(q, p)'
PROOF
<1>1. /\ p # None /\ q # None
      /\ call[p] \in Nat /\ call[p] # 0 /\ call[q] \in Nat
      /\ x.call \in Nat /\ x.to \in Nat
      /\ \A s \in Mail(q, p) : s.call \in Nat /\ s.to \in Nat
      /\ \A s \in Mail(p, q) : s.call \in Nat /\ s.to \in Nat
      /\ conn[p].remote \in Nat
  BY PairType
<1>2. /\ Said(q)' = Said(q) /\ Known(q)' = Known(q) /\ Due(q)' = Due(q)
      /\ Unsaid(q)' = Unsaid(q) /\ Owes(q)' = Owes(q) /\ Early(q)' = Early(q)
  BY SameProgram
<1>3. /\ ~online[q] => peer[q] = None /\ Mail(p, q) = {}
      /\ x.kind = "left" => ~online[q] /\ Mail(q, p)' = {}
      /\ x.kind = "left" \/ x.kind = "bye"
      /\ x.kind = "bye" => 0 < x.call /\ (x.call < call[q] \/ peer[q] = None)
  <2>1. ~online[q] => peer[q] = None /\ Mail(p, q) = {}
    BY DEF Each, Presence, Mail
  <2> QED
    BY <2>1 DEF Pair, Posted, News, Precedes
<1>4. x.to # 0 => x.to \in Learnt(q, p)
  BY DEF Learnt
<1>5. Learnt(q, p)' \subseteq Learnt(q, p) /\ Learnt(p, q)' \subseteq Learnt(p, q)
  BY <1>1, <1>2 DEF Learnt
<1>6. Gone(p, q)' = Gone(p, q)
  BY DEF Gone
\* The connection of p that ends is not one that q knows, or makes an offer or answer to.
<1>7. \A m \in Known(q) : peer[q] = p => m # call[p]
  <2> SUFFICES ASSUME peer[q] = p, call[p] \in Known(q) PROVE FALSE
    OBVIOUS
  <2>1. x.kind = "bye" /\ x.call < call[q]
    BY <1>1, <1>3
  <2>2. CASE conn[p].caller
    BY <2>1, <2>2 DEF Pair, ByeIsPast
  <2>3. CASE ~conn[p].caller
    <3>1. conn[p].remote # 0 => conn[p].remote \in Known(p)
      BY Learning
    <3>2. call[q] <= x.call
      BY <2>3 DEF Pair, CalleeHeard
    <3> QED
      BY <1>1, <2>1, <3>2
  <2> QED
    BY <2>2, <2>3
<1>8. \A s \in Mail(p, q) : s.kind = "offer" => s.call # call[p]
  <2> SUFFICES ASSUME NEW s \in Mail(p, q), s.kind = "offer", s.call = call[p] PROVE FALSE
    OBVIOUS
  <2>1. conn[p].caller
    BY <1>1 DEF Pair, OfferIsLive
  <2>2. x.to = call[p]
    BY <1>3, <2>1
  <2> QED
    BY <1>1, <1>4, <2>2 DEF Pair, HeardFirst
<1>9. \A s \in Mail(p, q) :
         s.kind = "answer" /\ peer[q] = p /\ s.to = call[q] => s.call # call[p]
  <2> SUFFICES ASSUME NEW s \in Mail(p, q), s.kind = "answer", peer[q] = p, s.to = call[q]
               PROVE FALSE
    OBVIOUS
  <2>1. x.kind = "bye" /\ x.call < call[q]
    BY <1>1, <1>3
  <2>2. call[q] # 0
    BY <1>1, PairType
  <2>3. s.to \in Learnt(p, q)
    BY <2>2, Learning
  <2>4. s.to <= x.call
    BY <2>1, <2>3 DEF Pair, HeardFirst
  <2> QED
    BY <1>1, <2>1, <2>4
<1>10. \A m : m # call[p] => (Live(p, q, m)' <=> Live(p, q, m))
  BY <1>1, <1>6 DEF Live
<1>11. \A s \in Mail(q, p)' : s.kind = "offer" /\ Live(q, p, s.call) => Live(q, p, s.call)'
  <2> SUFFICES ASSUME NEW s \in Mail(q, p)', s.kind = "offer", Live(q, p, s.call)
               PROVE Live(q, p, s.call)'
    OBVIOUS
  <2>1. x.kind = "bye" /\ Precedes(x, s)
    BY <1>3
  <2>2. x.call < s.call
    BY <2>1 DEF Precedes
  <2>3. x.call # s.call
    BY <1>1, <2>2
  <2> QED
    BY <2>1, <2>3 DEF Live, Gone
<1>12. Posted(p, q)'
  BY <1>1, <1>6 DEF Pair, Posted
<1>13. Posted(q, p)'
  BY <1>1, <1>2, <1>3 DEF Pair, Posted, Gone
<1>14. HeardFirst(p, q)' /\ HeardFirst(q, p)'
  BY <1>2, <1>5 DEF Pair, HeardFirst
<1>15. /\ KnownIsLive(p, q)' /\ AnswerIsLive(p, q)' /\ ByeIsPast(p, q)' /\ CalleeHeard(p, q)'
       /\ OfferIsHeard(p, q)' /\ AnswerIsDue(p, q)' /\ AnswererKnows(p, q)'
       /\ CandidateFollows(p, q)'
  BY <1>1 DEF KnownIsLive, AnswerIsLive, ByeIsPast, CalleeHeard, OfferIsHeard, AnswerIsDue,
     AnswererKnows, CandidateFollows
<1>16. OfferIsLive(p, q)'
  BY <1>11 DEF Pair, OfferIsLive
<1>17. KnownIsLive(q, p)'
  BY <1>2, <1>7, <1>10 DEF Pair, KnownIsLive
<1>18. OfferIsLive(q, p)'
  BY <1>8, <1>10 DEF Pair, OfferIsLive
<1>19. AnswerIsLive(q, p)'
  BY <1>9, <1>10 DEF Pair, AnswerIsLive
<1>20. ByeIsPast(q, p)' /\ CalleeHeard(q, p)' /\ AnswerIsDue(q, p)' /\ AnswererKnows(q, p)'
  BY <1>1, <1>2 DEF Pair, ByeIsPast, CalleeHeard, AnswerIsDue, AnswererKnows
<1>21. OfferIsHeard(q, p)'
  <2> SUFFICES ASSUME peer[q] = p, conn[q].sdp = "have-local-offer", ~Unsaid(q)
               PROVE \E s \in Mail(q, p)' : s.kind = "offer" /\ s.call = call[q]
    BY <1>2 DEF OfferIsHeard
  <2>1. x.kind = "bye" /\ x.call < call[q] /\ ~(call[q] <= x.call)
    BY <1>1, <1>3
  <2>2. \E s \in Mail(q, p) : s.kind = "offer" /\ s.call = call[q]
    BY <2>1 DEF Pair, OfferIsHeard
  <2> QED
    BY <2>1, <2>2
<1>22. CandidateFollows(q, p)'
  BY <1>1, <1>2 DEF Pair, CandidateFollows
<1> QED
  BY <1>12, <1>13, <1>14, <1>15, <1>16, <1>17, <1>18, <1>19, <1>20, <1>21, <1>22 DEF Pair

\* p hears that q, which is not its peer, has ended a conversation, or left: x.
LEMMA OtherNewsStep ==
    ASSUME TypeOK, NEW p \in Programs, NEW q \in Programs \ {p},
           Each(p), Each(q), Pair(p, q), Pair(q, p),
           peer[p] # q, online' = online,
           NEW x, x.kind \in News,
           Mail(q, p) = Mail(q, p)' \cup {x}, \A y \in Mail(q, p)' : Precedes(x, y),
           Mail(p, q)' = Mail(p, q),
           peer'[q] = peer[q], call'[q] = call[q], conn'[q] = conn[q], outbox'[q] = outbox[q],
           peer'[p] = peer[p], call'[p] = call[p], conn'[p] = conn[p], outbox'[p] = outbox[p]
    PROVE Pair(p, q)' /\ Pair(q, p)'
PROOF
<1>1. /\ p # None /\ q # None
      /\ \A s \in Mail(q, p) : s.call \in Nat
  BY PairType
<1>2. /\ Said(q)' = Said(q) /\ Known(q)' = Known(q) /\ Due(q)' = Due(q)
      /\ Unsaid(q)' = Unsaid(q) /\ Owes(q)' = Owes(q) /\ Early(q)' = Early(q)
  BY SameProgram
<1>3. /\ Said(p)' = Said(p) /\ Known(p)' = Known(p) /\ Due(p)' = Due(p)
      /\ Unsaid(p)' = Unsaid(p) /\ Owes(p)' = Owes(p) /\ Early(p)' = Early(p)
  BY SameProgram
<1>4. x.kind = "left" => Mail(q, p)' = {}
  BY DEF Precedes
<1>5. Learnt(q, p)' \subseteq Learnt(q, p) /\ Learnt(p, q)' \subseteq Learnt(p, q)
  BY <1>2, <1>3 DEF Learnt
<1>6. Gone(p, q)' = Gone(p, q)
  BY DEF Gone
<1>7. \A m : Live(p, q, m)' <=> Live(p, q, m)
  BY <1>6 DEF Live
<1>8. \A s \in Mail(q, p)' : s.kind = "offer" /\ Live(q, p, s.call) => Live(q, p, s.call)'
  <2> SUFFICES ASSUME NEW s \in Mail(q, p)', s.kind = "offer", Live(q, p, s.call)
               PROVE Live(q, p, s.call)'
    OBVIOUS
  <2>1. x.kind = "bye" /\ Precedes(x, s)
    BY <1>4 DEF News
  <2>2. x.call < s.call
    BY <2>1 DEF Precedes
  <2>3. x.call # s.call
    BY <1>1, <2>2
  <2> QED
    BY <2>1, <2>3 DEF Live, Gone
<1>9. Posted(p, q)'
  BY <1>3, <1>6 DEF Pair, Posted
<1>10. Posted(q, p)'
  BY <1>2, <1>4 DEF Pair, Posted, Gone
<1>11. HeardFirst(p, q)' /\ HeardFirst(q, p)'
  BY <1>2, <1>3, <1>5 DEF Pair, HeardFirst
<1>12. /\ KnownIsLive(p, q)' /\ AnswerIsLive(p, q)' /\ ByeIsPast(p, q)' /\ CalleeHeard(p, q)'
       /\ OfferIsHeard(p, q)' /\ AnswerIsDue(p, q)' /\ AnswererKnows(p, q)'
       /\ CandidateFollows(p, q)'
  BY DEF KnownIsLive, AnswerIsLive, ByeIsPast, CalleeHeard, OfferIsHeard, AnswerIsDue,
     AnswererKnows, CandidateFollows
<1>13. OfferIsLive(p, q)'
  BY <1>8 DEF Pair, OfferIsLive
<1>14. KnownIsLive(q, p)' /\ OfferIsLive(q, p)' /\ AnswerIsLive(q, p)'
  BY <1>2, <1>7 DEF Pair, KnownIsLive, OfferIsLive, AnswerIsLive
<1>15. ByeIsPast(q, p)' /\ CalleeHeard(q, p)' /\ AnswerIsDue(q, p)' /\ AnswererKnows(q, p)'
  BY <1>2, <1>3 DEF Pair, ByeIsPast, CalleeHeard, AnswerIsDue, AnswererKnows
<1>16. OfferIsHeard(q, p)'
  BY <1>2 DEF Pair, OfferIsHeard, News
<1>17. CandidateFollows(q, p)'
  BY <1>2, <1>3 DEF Pair, CandidateFollows
<1> QED
  BY <1>9, <1>10, <1>11, <1>12, <1>13, <1>14, <1>15, <1>16, <1>17 DEF Pair

\* p begins a conversation, with nothing known of q yet.
LEMMA BeginStep ==
    ASSUME TypeOK, NEW p \in Programs, NEW q \in Programs \ {p},
           Each(p), Each(q), Pair(p, q), Pair(q, p),
           peer[p] = None, online[p], online' = online,
           Mail(p, q)' = Mail(p, q), Mail(q, p)' = Mail(q, p),
           peer'[q] = peer[q], call'[q] = call[q], conn'[q] = conn[q], outbox'[q] = outbox[q],
           peer'[p] = q => Known(p)' = {} /\ (online[q] \/ Gone(q, p)),
           call'[p] = call[p] + 1, conn'[p].sdp = "stable", conn'[p].remote = 0,
           Said(p)' = {}, Due(p)' = {}
    PROVE Pair(p, q)' /\ Pair(q, p)'
PROOF
<1>1. /\ p # None /\ q # None
      /\ call[p] \in Nat /\ call[q] \in Nat
      /\ \A s \in Mail(q, p) : s.call \in Nat /\ s.to \in Nat
      /\ \A s \in Mail(p, q) : s.call \in Nat /\ s.to \in Nat
      /\ peer[q] # None => call[q] # 0
  BY PairType
<1>2. /\ Said(q)' = Said(q) /\ Known(q)' = Known(q) /\ Due(q)' = Due(q)
      /\ Unsaid(q)' = Unsaid(q) /\ Owes(q)' = Owes(q) /\ Early(q)' = Early(q)
  BY SameProgram
<1>3. Gone(p, q)' = Gone(p, q) /\ Gone(q, p)' = Gone(q, p) /\ ~Gone(p, q)
  BY DEF Gone, Pair, Posted
<1>4. Learnt(q, p)' = Learnt(q, p) /\ Learnt(p, q)' \subseteq Learnt(p, q)
  BY <1>1, <1>2 DEF Learnt
<1>5. \A t \in Learnt(q, p) : t <= call[p]
  BY DEF Pair, HeardFirst
<1>6. Learnt(q, p) \subseteq Nat
  BY LearntType
<1>7. call'[p] \notin Learnt(q, p) /\ call'[p] # 0
  BY <1>1, <1>5, <1>6
<1>8. \A s \in Mail(p, q) : s.call <= call[p] /\ s.call < call'[p] /\ s.call # call'[p]
  <2>1. \A s \in Mail(p, q) : s.kind # "left"
    BY DEF Pair, Posted
  <2> QED
    BY <1>1, <2>1 DEF Pair, Posted
<1>9. \A m : (Live(q, p, m)' <=> Live(q, p, m)) /\ (Live(p, q, m) => Live(p, q, m)')
  BY <1>1, <1>3 DEF Live
<1>10. /\ peer[q] = p => call'[p] \notin Known(q) \cup Due(q)
       /\ \A s \in Mail(q, p) : s.to # call'[p]
  BY <1>7, Learning
<1>11. Posted(p, q)'
  BY <1>1, <1>3, <1>8 DEF Pair, Posted
<1>12. Posted(q, p)'
  BY <1>1, <1>2, <1>3 DEF Pair, Posted
<1>13. HeardFirst(p, q)' /\ HeardFirst(q, p)'
  <2>1. HeardFirst(p, q)'
    BY <1>2, <1>4 DEF Pair, HeardFirst
  <2>2. \A t \in Learnt(q, p) : t <= call'[p] /\ t # call'[p]
    BY <1>1, <1>5, <1>6, <1>7
  <2>3. HeardFirst(q, p)'
    BY <1>4, <2>2 DEF Pair, HeardFirst
  <2> QED
    BY <2>1, <2>3
<1>14. /\ KnownIsLive(p, q)' /\ ByeIsPast(p, q)' /\ CalleeHeard(p, q)'
       /\ OfferIsHeard(p, q)' /\ AnswerIsDue(p, q)' /\ CandidateFollows(p, q)'
  BY DEF KnownIsLive, ByeIsPast, CalleeHeard, OfferIsHeard, AnswerIsDue, CandidateFollows
<1>15. KnownIsLive(q, p)' /\ OfferIsLive(p, q)'
  BY <1>2, <1>9 DEF Pair, KnownIsLive, OfferIsLive
<1>16. OfferIsLive(q, p)'
  BY <1>8, <1>9 DEF Pair, OfferIsLive
<1>17. AnswerIsLive(p, q)' /\ AnswerIsLive(q, p)'
  BY <1>9, <1>10 DEF Pair, AnswerIsLive
<1>18. ByeIsPast(q, p)' /\ CalleeHeard(q, p)'
  BY <1>2, <1>10 DEF Pair, ByeIsPast, CalleeHeard
<1>19. OfferIsHeard(q, p)'
  BY <1>1, <1>2 DEF Pair, OfferIsHeard
<1>20. AnswerIsDue(q, p)' /\ CandidateFollows(q, p)'
  BY <1>1, <1>2 DEF Pair, AnswerIsDue, CandidateFollows
<1>21. AnswererKnows(p, q)'
  BY <1>2, <1>8, <1>10 DEF AnswererKnows
<1>22. AnswererKnows(q, p)'
  BY <1>2 DEF Pair, AnswererKnows
<1> QED
  BY <1>11, <1>12, <1>13, <1>14, <1>15, <1>16, <1>17, <1>18, <1>19, <1>20, <1>21, <1>22 DEF Pair

\* An offer, x, of q begins a conversation of p with it.
LEMMA FirstStep ==
    ASSUME TypeOK, NEW p \in Programs, NEW q \in Programs \ {p},
           Each(p), Each(q), Pair(p, q), Pair(q, p),
           peer[p] = None, online[p], online' = online,
           NEW x, x.kind = "offer",
           Mail(q, p) = Mail(q, p)' \cup {x}, \A y \in Mail(q, p)' : Precedes(x, y),
           Mail(p, q)' = Mail(p, q),
           peer'[q] = peer[q], call'[q] = call[q], conn'[q] = conn[q], outbox'[q] = outbox[q],
           peer'[p] = q, Known(p)' = {x.call},
           call'[p] = call[p] + 1, conn'[p].sdp = "stable", conn'[p].remote = 0,
           Said(p)' = {}, Due(p)' = {}
    PROVE Pair(p, q)' /\ Pair(q, p)'
PROOF
<1>1. /\ p # None /\ q # None
      /\ call[p] \in Nat /\ call[q] \in Nat /\ x.call \in Nat
      /\ \A s \in Mail(q, p) : s.call \in Nat /\ s.to \in Nat
      /\ \A s \in Mail(p, q) : s.call \in Nat /\ s.to \in Nat
      /\ peer[q] # None => call[q] # 0
  BY PairType
<1>2. /\ Said(q)' = Said(q) /\ Known(q)' = Known(q) /\ Due(q)' = Due(q)
      /\ Unsaid(q)' = Unsaid(q) /\ Owes(q)' = Owes(q) /\ Early(q)' = Early(q)
  BY SameProgram
<1>3. /\ Gone(p, q)' = Gone(p, q) /\ Gone(q, p)' = Gone(q, p) /\ ~Gone(p, q)
      /\ Gone(q, p) => peer[q] = None
  BY DEF Gone, Pair, Posted, Each, Presence
<1>4. Learnt(q, p)' \subseteq Learnt(q, p) /\ Learnt(p, q)' \subseteq Learnt(p, q) \cup {x.call}
  BY <1>1, <1>2 DEF Learnt
<1>5. \A t \in Learnt(q, p) : t <= call[p]
  BY DEF Pair, HeardFirst
<1>6. Learnt(q, p) \subseteq Nat
  BY LearntType
<1>7. call'[p] \notin Learnt(q, p) /\ call'[p] # 0
  BY <1>1, <1>5, <1>6
<1>8. \A s \in Mail(p, q) : s.call <= call[p] /\ s.call < call'[p] /\ s.call # call'[p]
  <2>1. \A s \in Mail(p, q) : s.kind # "left"
    BY DEF Pair, Posted
  <2> QED
    BY <1>1, <2>1 DEF Pair, Posted
<1>9. \A m : (Live(q, p, m) => Live(q, p, m)') /\ (Live(p, q, m) => Live(p, q, m)')
  BY <1>1, <1>3 DEF Live
<1>10. /\ peer[q] = p => call'[p] \notin Known(q) \cup Due(q)
       /\ \A s \in Mail(q, p) : s.to # call'[p]
  BY <1>7, Learning
<1>11. /\ 0 < x.call /\ x.call <= call[q] /\ (Unsaid(q) => x.call # call[q])
       /\ \A y \in Mail(q, p)' :
             y.kind # "left" => x.call <= y.call /\ (y.call = x.call => y.kind # "offer")
  <2>1. 0 < x.call /\ x.call <= call[q] /\ (Unsaid(q) => x.call < call[q])
    BY DEF Pair, Posted
  <2>2. \A y \in Mail(q, p)' :
           y.kind # "left" => x.call <= y.call /\ (y.call = x.call => y.kind # "offer")
    BY <1>1 DEF Precedes
  <2> QED
    BY <1>1, <2>1, <2>2
<1>12. Posted(p, q)'
  BY <1>1, <1>3, <1>8 DEF Pair, Posted
<1>13. Posted(q, p)'
  BY <1>1, <1>2, <1>3 DEF Pair, Posted
<1>14. HeardFirst(p, q)' /\ HeardFirst(q, p)'
  <2>1. HeardFirst(p, q)'
    BY <1>2, <1>4, <1>11 DEF Pair, HeardFirst
  <2>2. \A t \in Learnt(q, p) : t <= call'[p] /\ t # call'[p]
    BY <1>1, <1>5, <1>6, <1>7
  <2>3. HeardFirst(q, p)'
    BY <1>4, <2>2 DEF Pair, HeardFirst
  <2> QED
    BY <2>1, <2>3
<1>15. KnownIsLive(p, q)'
  BY <1>9 DEF Pair, KnownIsLive, OfferIsLive
<1>16. OfferIsHeard(p, q)' /\ AnswerIsDue(p, q)' /\ CandidateFollows(p, q)'
  BY DEF OfferIsHeard, AnswerIsDue, CandidateFollows
<1>17. KnownIsLive(q, p)' /\ OfferIsLive(p, q)'
  BY <1>2, <1>9 DEF Pair, KnownIsLive, OfferIsLive
<1>18. OfferIsLive(q, p)'
  BY <1>8, <1>9 DEF Pair, OfferIsLive
<1>19. AnswerIsLive(p, q)' /\ AnswerIsLive(q, p)'
  BY <1>9, <1>10 DEF Pair, AnswerIsLive
<1>20. ByeIsPast(p, q)'
  <2>1. x.call \notin Learnt(p, q)
    BY DEF Pair, HeardFirst
  <2>2. \A s \in Mail(p, q) : s.to # x.call
    BY <1>11, <2>1, Learning
  <2> QED
    BY <2>2 DEF ByeIsPast
<1>21. ByeIsPast(q, p)' /\ CalleeHeard(q, p)'
  BY <1>2, <1>10 DEF Pair, ByeIsPast, CalleeHeard
<1>22. CalleeHeard(p, q)'
  BY <1>1 DEF Pair, CalleeHeard, OfferIsLive
<1>23. OfferIsHeard(q, p)'
  <2> SUFFICES ASSUME peer[q] = p, conn[q].sdp = "have-local-offer", ~Unsaid(q),
                      ~(\E s \in Mail(q, p)' : s.kind = "offer" /\ s.call = call[q])
               PROVE \A s \in Mail(q, p)' : call[q] <= s.call
    BY <1>2 DEF OfferIsHeard
  <2>1. \A s \in Mail(q, p) : s.kind # "left"
    BY <1>1, <1>3 DEF Gone
  <2>2. CASE x.call = call[q]
    BY <1>11, <2>1, <2>2
  <2>3. CASE x.call # call[q]
    BY <2>3 DEF Pair, OfferIsHeard
  <2> QED
    BY <2>2, <2>3
<1>24. AnswerIsDue(q, p)' /\ CandidateFollows(q, p)'
  BY <1>1, <1>2 DEF Pair, AnswerIsDue, CandidateFollows
<1>25. AnswererKnows(p, q)'
  BY <1>2, <1>8, <1>10 DEF AnswererKnows
<1>26. AnswererKnows(q, p)'
  BY <1>2 DEF Pair, AnswererKnows
<1> QED
  BY <1>12, <1>13, <1>14, <1>15, <1>16, <1>17, <1>18, <1>19, <1>20, <1>21, <1>22, <1>23, <1>24,
     <1>25, <1>26 DEF Pair

\* What p said first, h, is sent to a third, or to nobody.
LEMMA SendAway ==
    ASSUME TypeOK, NEW p \in Programs, NEW q \in Programs \ {p},
           Each(p), Each(q), Pair(p, q), Pair(q, p),
           peer[p] # q, online' = online,
           Mail(p, q)' = Mail(p, q), Mail(q, p)' = Mail(q, p),
           peer'[q] = peer[q], call'[q] = call[q], conn'[q] = conn[q], outbox'[q] = outbox[q],
           peer'[p] = peer[p], call'[p] = call[p], conn'[p] = conn[p],
           Said(p)' \subseteq Said(p)
    PROVE Pair(p, q)' /\ Pair(q, p)'
PROOF
<1>1. /\ Said(q)' = Said(q) /\ Known(q)' = Known(q) /\ Due(q)' = Due(q)
      /\ Unsaid(q)' = Unsaid(q) /\ Owes(q)' = Owes(q) /\ Early(q)' = Early(q)
  BY SameProgram
<1>2. /\ Known(p)' = Known(p) /\ Due(p)' = Due(p) /\ HasToCall(p)' = HasToCall(p)
      /\ Owes(p)' = Owes(p)
  BY DEF Known, Due, HasToCall, Owes
<1>3. (Unsaid(p)' => Unsaid(p)) /\ Early(p)' = Early(p)
  BY <1>2 DEF Unsaid, Early
<1>4. Gone(p, q)' = Gone(p, q) /\ Gone(q, p)' = Gone(q, p)
  BY DEF Gone
<1>5. Learnt(p, q)' = Learnt(p, q) /\ Learnt(q, p)' = Learnt(q, p)
  BY <1>1 DEF Learnt
<1>6. \A m : (Live(q, p, m)' <=> Live(q, p, m)) /\ (Live(p, q, m)' <=> Live(p, q, m))
  BY <1>4 DEF Live
<1>7. Posted(p, q)' /\ Posted(q, p)'
  BY <1>1, <1>3, <1>4 DEF Pair, Posted
<1>8. HeardFirst(p, q)' /\ HeardFirst(q, p)'
  BY <1>1, <1>3, <1>5 DEF Pair, HeardFirst
<1>9. /\ KnownIsLive(p, q)' /\ AnswerIsLive(p, q)' /\ ByeIsPast(p, q)' /\ CalleeHeard(p, q)'
      /\ OfferIsHeard(p, q)' /\ AnswerIsDue(p, q)' /\ AnswererKnows(p, q)'
      /\ CandidateFollows(p, q)'
  BY DEF KnownIsLive, AnswerIsLive, ByeIsPast, CalleeHeard, OfferIsHeard, AnswerIsDue,
     AnswererKnows, CandidateFollows
<1>10. OfferIsLive(p, q)' /\ OfferIsLive(q, p)' /\ KnownIsLive(q, p)' /\ AnswerIsLive(q, p)'
  BY <1>1, <1>6 DEF Pair, OfferIsLive, KnownIsLive, AnswerIsLive
<1>11. ByeIsPast(q, p)' /\ CalleeHeard(q, p)' /\ AnswerIsDue(q, p)' /\ AnswererKnows(q, p)'
  BY <1>1, <1>2 DEF Pair, ByeIsPast, CalleeHeard, AnswerIsDue, AnswererKnows
<1>12. OfferIsHeard(q, p)' /\ CandidateFollows(q, p)'
  BY <1>1 DEF Pair, OfferIsHeard, CandidateFollows
<1> QED
  BY <1>7, <1>8, <1>9, <1>10, <1>11, <1>12 DEF Pair

\* What p said first, h, is sent to its peer, q, if that has a session.
LEMMA SendStep ==
    ASSUME TypeOK, NEW p \in Programs, NEW q \in Programs \ {p},
           Each(p), Each(q), Pair(p, q), Pair(q, p),
           peer[p] = q, online' = online,
           NEW h, h \in Said(p),
           Said(p) = Said(p)' \cup {h}, \A y \in Said(p)' : Precedes(h, y),
           Mail(p, q)' = IF online[q] THEN Mail(p, q) \cup {h} ELSE Mail(p, q),
           Mail(q, p)' = Mail(q, p),
           peer'[q] = peer[q], call'[q] = call[q], conn'[q] = conn[q], outbox'[q] = outbox[q],
           peer'[p] = peer[p], call'[p] = call[p], conn'[p] = conn[p]
    PROVE Pair(p, q)' /\ Pair(q, p)'
PROOF
<1>1. /\ p # None /\ q # None
      /\ call[p] \in Nat /\ call[p] # 0 /\ call[q] \in Nat /\ online[p]
      /\ peer[q] # None => online[q] /\ call[q] # 0
      /\ h.call = call[p] /\ h.to \in Nat /\ h.kind \in Signals
      /\ \A s \in Mail(p, q) : s.call \in Nat /\ s.to \in Nat
  BY PairType
<1>2. /\ Said(q)' = Said(q) /\ Known(q)' = Known(q) /\ Due(q)' = Due(q)
      /\ Unsaid(q)' = Unsaid(q) /\ Owes(q)' = Owes(q) /\ Early(q)' = Early(q)
  BY SameProgram
<1>3. /\ Known(p)' = Known(p) /\ Due(p)' = Due(p) /\ HasToCall(p)' = HasToCall(p)
      /\ Owes(p)' = Owes(p)
  BY DEF Known, Due, HasToCall, Owes
<1>4. (Unsaid(p)' => Unsaid(p)) /\ Early(p)' = Early(p)
  BY <1>1, <1>3 DEF Unsaid, Early
<1>5. /\ h.kind = "answer" => h.to # 0
      /\ h.kind = "offer" => conn[p].caller
      /\ Early(p) => h.to = 0
      /\ ~HasToCall(p)
  BY <1>1 DEF Each, Speaks
<1>6. ~Unsaid(p)'
  <2>1. \A y \in Said(p)' : y.kind # "offer"
    <3>1. \A y \in Said(p)' : y.call = call[p]
      BY PairType
    <3> QED
      BY <1>1, <3>1 DEF Precedes
  <2> QED
    BY <1>3, <1>5, <2>1 DEF Unsaid
<1>7. (\E a \in Said(p)' : a.kind = "answer") => h.to = 0
  BY <1>1, PairType DEF Precedes
<1>8. h.to # 0 => h.to \in Learnt(p, q)
  BY Learning
<1>9. ~online[q] => peer[q] = None /\ Mail(p, q) = {} /\ Gone(q, p)
  BY DEF Each, Presence, Mail, Pair, Posted
<1>10. Gone(p, q)' = Gone(p, q) /\ Gone(q, p)' = Gone(q, p)
  BY <1>1 DEF Gone, Signals
<1>11. Learnt(q, p)' = Learnt(q, p) /\ Learnt(p, q)' \subseteq Learnt(p, q)
  BY <1>2, <1>3, <1>8 DEF Learnt
<1>12. \A m : (Live(q, p, m)' <=> Live(q, p, m)) /\ (Live(p, q, m) => Live(p, q, m)')
  BY <1>10 DEF Live
<1>13. Live(p, q, call[p])'
  BY DEF Live
<1>14. Posted(p, q)'
  <2>1. /\ h.kind \notin {"left", "bye"}
        /\ 0 < h.call /\ h.call <= call[p]
    BY <1>1 DEF Signals
  <2>2. (\E a \in Said(p)' : a.kind = "answer") => \E a \in Said(p) : a.kind = "answer"
    OBVIOUS
  <2>3. \A s \in Mail(p, q)' \ {h} : s \in Mail(p, q)
    OBVIOUS
  <2>4. \A s \in Mail(p, q)' :
           /\ p # q
           /\ s.kind = "left" => ~online[p]
           /\ s.kind # "left" => 0 < s.call /\ s.call <= call[p]
           /\ s.kind = "bye" => s.call < call[p] \/ peer[p] = None
           /\ s.kind = "answer" => s.to # 0
           /\ s.kind # "left" /\ s.call = call[p]
                 /\ (Early(p) \/ \E a \in Said(p)' : a.kind = "answer") => s.to = 0
    BY <1>1, <1>5, <1>7, <2>1, <2>2, <2>3 DEF Pair, Posted
  <2> QED
    BY <1>1, <1>4, <1>6, <2>4 DEF Posted
<1>15. Posted(q, p)'
  BY <1>2, <1>10 DEF Pair, Posted
<1>16. HeardFirst(p, q)'
  BY <1>2, <1>11 DEF Pair, HeardFirst
<1>17. HeardFirst(q, p)'
  <2>1. ASSUME NEW t \in Learnt(q, p)
        PROVE t <= h.call /\ (h.call = t => h.kind # "offer")
    BY <1>1, <2>1 DEF Pair, HeardFirst, Unsaid
  <2> QED
    BY <1>4, <1>11, <2>1 DEF Pair, HeardFirst
<1>18. /\ KnownIsLive(p, q)' /\ KnownIsLive(q, p)'
       /\ OfferIsLive(p, q)' /\ AnswerIsLive(p, q)'
  BY <1>2, <1>3, <1>12 DEF Pair, KnownIsLive, OfferIsLive, AnswerIsLive
<1>19. OfferIsLive(q, p)' /\ AnswerIsLive(q, p)'
  BY <1>1, <1>5, <1>12, <1>13 DEF Pair, OfferIsLive, AnswerIsLive
<1>20. /\ ByeIsPast(p, q)' /\ ByeIsPast(q, p)'
  BY <1>1, <1>2, <1>3 DEF Pair, ByeIsPast, Signals
<1>21. /\ CalleeHeard(p, q)' /\ CalleeHeard(q, p)'
  BY <1>1, <1>2, <1>3 DEF Pair, CalleeHeard
<1>22. OfferIsHeard(p, q)'
  <2> SUFFICES ASSUME conn[p].sdp = "have-local-offer"
               PROVE \/ \E s \in Mail(p, q)' : s.kind = "offer" /\ s.call = call[p]
                     \/ /\ peer[q] = p \/ \E s \in Mail(q, p) : s.kind \in News
                        /\ \A s \in Mail(p, q)' : call[p] <= s.call
    BY DEF OfferIsHeard
  <2>1. CASE ~online[q]
    BY <1>9, <2>1 DEF Gone, News
  <2>2. CASE online[q] /\ Unsaid(p)
    BY <1>1, <1>3, <1>5, <1>6, <2>2 DEF Unsaid
  <2>3. CASE online[q] /\ ~Unsaid(p)
    BY <1>1, <2>3 DEF Pair, OfferIsHeard
  <2> QED
    BY <2>1, <2>2, <2>3
<1>23. OfferIsHeard(q, p)'
  BY <1>2 DEF Pair, OfferIsHeard
<1>24. AnswerIsDue(p, q)' /\ AnswererKnows(q, p)'
  BY <1>2, <1>3 DEF Pair, AnswerIsDue, AnswererKnows
<1>25. AnswerIsDue(q, p)'
  BY <1>1, <1>2, <1>3 DEF Pair, AnswerIsDue
<1>26. AnswererKnows(p, q)'
  BY <1>2 DEF Pair, AnswererKnows
<1>27. CandidateFollows(p, q)'
  BY <1>2, <1>3 DEF Pair, CandidateFollows
<1>28. CandidateFollows(q, p)'
  <2> SUFFICES ASSUME peer[q] = p, conn[q].sdp = "have-local-offer", Due(q) = {}
               PROVE /\ \A s \in Mail(p, q)' :
                           s.kind = "candidate" /\ s.to = call[q] =>
                              \E a \in Mail(p, q)' :
                                 a.kind = "answer" /\ a.to = call[q] /\ a.call = s.call
                     /\ \A s \in Said(p)' :
                           s.kind = "candidate" /\ s.to = call[q] =>
                              \E a \in Said(p)' \cup Mail(p, q)' :
                                 a.kind = "answer" /\ a.to = call[q] /\ a.call = call[p]
    BY <1>2 DEF CandidateFollows
  <2>1. online[q] /\ call[q] # 0
    BY <1>1
  <2>2. h.kind = "candidate" /\ h.to = call[q] =>
           \E a \in Mail(p, q) : a.kind = "answer" /\ a.to = call[q] /\ a.call = h.call
    BY <1>1, <1>7, <2>1 DEF Pair, CandidateFollows
  <2>3. \A s \in Mail(p, q) :
           s.kind = "candidate" /\ s.to = call[q] =>
              \E a \in Mail(p, q) : a.kind = "answer" /\ a.to = call[q] /\ a.call = s.call
    BY DEF Pair, CandidateFollows
  <2>4. \A s \in Said(p)' :
           s.kind = "candidate" /\ s.to = call[q] =>
              \E a \in Said(p) \cup Mail(p, q) :
                 a.kind = "answer" /\ a.to = call[q] /\ a.call = call[p]
    BY DEF Pair, CandidateFollows
  <2> QED
    BY <2>1, <2>2, <2>3, <2>4
<1> QED
  BY <1>14, <1>15, <1>16, <1>17, <1>18, <1>19, <1>20, <1>21, <1>22, <1>23, <1>24, <1>25, <1>26,
     <1>27, <1>28 DEF Pair

\* p hears a message of its peer; q is another.
LEMMA HearAway ==
    ASSUME TypeOK, NEW p \in Programs, NEW q \in Programs \ {p},
           Each(p), Each(q), Pair(p, q), Pair(q, p),
           peer[p] # q, online' = online,
           Mail(p, q)' = Mail(p, q), Mail(q, p)' = Mail(q, p),
           peer'[q] = peer[q], call'[q] = call[q], conn'[q] = conn[q], outbox'[q] = outbox[q],
           peer'[p] = peer[p], call'[p] = call[p], conn'[p].caller = conn[p].caller,
           Said(p)' = Said(p), Unsaid(p)' = Unsaid(p), Early(p)' = Early(p)
    PROVE Pair(p, q)' /\ Pair(q, p)'
PROOF
<1>1. /\ Said(q)' = Said(q) /\ Known(q)' = Known(q) /\ Due(q)' = Due(q)
      /\ Unsaid(q)' = Unsaid(q) /\ Owes(q)' = Owes(q) /\ Early(q)' = Early(q)
  BY SameProgram
<1>2. Gone(p, q)' = Gone(p, q) /\ Gone(q, p)' = Gone(q, p)
  BY DEF Gone
<1>3. Learnt(p, q)' = Learnt(p, q) /\ Learnt(q, p)' = Learnt(q, p)
  BY <1>1 DEF Learnt
<1>4. \A m : (Live(q, p, m)' <=> Live(q, p, m)) /\ (Live(p, q, m)' <=> Live(p, q, m))
  BY <1>2 DEF Live
<1>5. Posted(p, q)' /\ Posted(q, p)'
  BY <1>1, <1>2 DEF Pair, Posted
<1>6. HeardFirst(p, q)' /\ HeardFirst(q, p)'
  BY <1>1, <1>3 DEF Pair, HeardFirst
<1>7. /\ KnownIsLive(p, q)' /\ AnswerIsLive(p, q)' /\ ByeIsPast(p, q)' /\ CalleeHeard(p, q)'
      /\ OfferIsHeard(p, q)' /\ AnswerIsDue(p, q)' /\ AnswererKnows(p, q)'
      /\ CandidateFollows(p, q)'
  BY DEF KnownIsLive, AnswerIsLive, ByeIsPast, CalleeHeard, OfferIsHeard, AnswerIsDue,
     AnswererKnows, CandidateFollows
<1>8. OfferIsLive(p, q)' /\ OfferIsLive(q, p)' /\ KnownIsLive(q, p)' /\ AnswerIsLive(q, p)'
  BY <1>1, <1>4 DEF Pair, OfferIsLive, KnownIsLive, AnswerIsLive
<1>9. ByeIsPast(q, p)' /\ CalleeHeard(q, p)' /\ AnswerIsDue(q, p)' /\ AnswererKnows(q, p)'
  BY <1>1 DEF Pair, ByeIsPast, CalleeHeard, AnswerIsDue, AnswererKnows
<1>10. OfferIsHeard(q, p)' /\ CandidateFollows(q, p)'
  BY <1>1 DEF Pair, OfferIsHeard, CandidateFollows
<1> QED
  BY <1>5, <1>6, <1>7, <1>8, <1>9, <1>10 DEF Pair

\* The number of a message that p has not heard is not less than one that p knows; an
\* offer, or what is said first for a connection, is new.
LEMMA HeardIsPast ==
    ASSUME TypeOK, NEW p \in Programs, NEW q \in Programs \ {p},
           Each(p), Each(q), Pair(p, q), Pair(q, p), peer[p] = q,
           NEW x, x.kind \in Signals,
           NEW rest, Mail(q, p) = rest \cup {x}, \A y \in rest : Precedes(x, y)
    PROVE \A m \in Known(p) : m = x.call /\ x.kind # "offer"
PROOF
<1> SUFFICES ASSUME NEW m \in Known(p)
             PROVE m = x.call /\ x.kind # "offer"
  OBVIOUS
<1>1. m \in Learnt(p, q)
  BY Learning
<1>2. x.kind \notin {"left", "bye"}
  BY DEF Signals
<1>3. m <= x.call /\ (x.call = m => x.kind # "offer")
  BY <1>1, <1>2 DEF Pair, HeardFirst
<1>4. /\ x.call \in Nat /\ call[q] \in Nat
      /\ \A y \in rest : y.call \in Nat
  BY PairType
<1>5. Live(q, p, m)
  BY DEF Pair, KnownIsLive
<1>6. x.call <= call[q]
  BY <1>2 DEF Pair, Posted
<1>7. m \in Nat /\ x.call <= m
  <2>1. CASE call[q] = m
    BY <1>4, <1>6, <2>1
  <2>2. CASE \E s \in Mail(q, p) : s.kind = "bye" /\ s.call = m
    <3>1. PICK s \in rest : s.kind = "bye" /\ s.call = m
      BY <1>2, <2>2
    <3>2. x.call < s.call \/ x.call = s.call
      BY <3>1 DEF Precedes
    <3> QED
      BY <1>4, <3>1, <3>2
  <2> QED
    BY <1>5, <2>1, <2>2 DEF Live
<1> QED
  BY <1>3, <1>4, <1>7

\* p hears x of its peer, q, which is meant for this connection of p or for none.
LEMMA HearStep ==
    ASSUME TypeOK, NEW p \in Programs, NEW q \in Programs \ {p},
           Each(p), Each(q), Pair(p, q), Pair(q, p),
           peer[p] = q, online' = online,
           NEW x, x.kind \in Signals, x.to \in {0, call[p]},
           Mail(q, p) = Mail(q, p)' \cup {x}, \A y \in Mail(q, p)' : Precedes(x, y),
           Mail(p, q)' = Mail(p, q),
           peer'[q] = peer[q], call'[q] = call[q], conn'[q] = conn[q], outbox'[q] = outbox[q],
           peer'[p] = peer[p], call'[p] = call[p],
           conn'[p].caller = conn[p].caller, conn'[p].sdp = conn[p].sdp,
           conn'[p].remote = conn[p].remote,
           Said(p)' = Said(p), Unsaid(p)' = Unsaid(p), Early(p)' = Early(p),
           Owes(p)' = Owes(p),
           Known(p)' = Known(p) \cup IF x.kind = "candidate" THEN {} ELSE {x.call},
           Due(p)' = Due(p) \cup IF x.kind = "answer" THEN {x.call} ELSE {}
    PROVE Pair(p, q)' /\ Pair(q, p)'
PROOF
<1>1. /\ p # None /\ q # None
      /\ call[p] \in Nat /\ call[p] # 0 /\ call[q] \in Nat /\ x.call \in Nat /\ x.to \in Nat
      /\ online[p]
      /\ peer[q] # None => online[q] /\ call[q] # 0
      /\ \A s \in Mail(q, p) : s.call \in Nat /\ s.to \in Nat
      /\ \A s \in Mail(p, q) : s.call \in Nat /\ s.to \in Nat
      /\ conn[q].sdp = "have-local-offer" => conn[q].remote = 0
  BY PairType
<1>2. /\ Said(q)' = Said(q) /\ Known(q)' = Known(q) /\ Due(q)' = Due(q)
      /\ Unsaid(q)' = Unsaid(q) /\ Owes(q)' = Owes(q) /\ Early(q)' = Early(q)
  BY SameProgram
<1>3. x.kind \notin {"left", "bye"}
  BY DEF Signals
<1>4. Gone(p, q)' = Gone(p, q) /\ Gone(q, p)' = Gone(q, p) /\ ~Gone(p, q)
  BY <1>1, <1>3 DEF Gone, Pair, Posted
<1>5. /\ Learnt(q, p)' \subseteq Learnt(q, p)
      /\ Learnt(p, q)' \subseteq Learnt(p, q) \cup {x.call}
  BY <1>2 DEF Learnt
<1>6. \A m : (Live(q, p, m) => Live(q, p, m)') /\ (Live(p, q, m) => Live(p, q, m)')
  BY <1>3, <1>4 DEF Live
<1>7. /\ 0 < x.call /\ x.call <= call[q] /\ (Unsaid(q) => x.call # call[q])
      /\ x.kind = "answer" => x.to # 0
      /\ \A y \in Mail(q, p)' :
            y.kind # "left" => x.call <= y.call /\ (y.call = x.call => y.kind # "offer")
  <2>1. /\ 0 < x.call /\ x.call <= call[q] /\ (Unsaid(q) => x.call < call[q])
        /\ x.kind = "answer" => x.to # 0
    BY <1>3 DEF Pair, Posted
  <2>2. \A y \in Mail(q, p)' :
           y.kind # "left" => x.call <= y.call /\ (y.call = x.call => y.kind # "offer")
    BY <1>1 DEF Precedes
  <2> QED
    BY <1>1, <2>1, <2>2
\* An answer is to this connection: it has heard the call of p.
<1>8. ASSUME x.kind = "answer"
      PROVE /\ x.to = call[p]
            /\ \A s \in Mail(p, q) : call[p] <= s.call /\ s.kind # "bye"
  <2>1. x.to = call[p]
    BY <1>7, <1>8
  <2>2. call[p] \in Learnt(q, p)
    BY <1>1, <2>1, Learning
  <2>3. \A s \in Mail(p, q) : s.kind # "left"
    BY <1>1 DEF Pair, Posted
  <2>4. \A s \in Mail(p, q) : call[p] <= s.call
    BY <2>2, <2>3 DEF Pair, HeardFirst
  <2>5. \A s \in Mail(p, q) : s.kind = "bye" => s.call < call[p]
    BY <1>1 DEF Pair, Posted
  <2> QED
    BY <1>1, <2>1, <2>4, <2>5
<1>9. x.kind \in {"offer", "answer"} => Live(q, p, x.call)
  BY <1>8 DEF Pair, OfferIsLive, AnswerIsLive
<1>10. Posted(p, q)'
  BY <1>4 DEF Pair, Posted
<1>11. Posted(q, p)'
  BY <1>1, <1>2, <1>4 DEF Pair, Posted
<1>12. HeardFirst(p, q)'
  BY <1>2, <1>5, <1>7 DEF Pair, HeardFirst
<1>13. HeardFirst(q, p)'
  BY <1>5 DEF Pair, HeardFirst
<1>14. KnownIsLive(p, q)'
  <2>1. x.kind # "candidate" => x.kind \in {"offer", "answer"}
    BY DEF Signals
  <2> QED
    BY <1>6, <1>9, <2>1 DEF Pair, KnownIsLive
<1>15. KnownIsLive(q, p)' /\ OfferIsLive(p, q)' /\ AnswerIsLive(p, q)'
  BY <1>2, <1>6 DEF Pair, KnownIsLive, OfferIsLive, AnswerIsLive
<1>16. OfferIsLive(q, p)' /\ AnswerIsLive(q, p)'
  BY <1>6 DEF Pair, OfferIsLive, AnswerIsLive
<1>17. ByeIsPast(p, q)'
  <2>1. \A s \in Mail(p, q) : s.kind = "bye" => s.to \notin Known(p)
    BY DEF Pair, ByeIsPast
  <2>2. ASSUME NEW s \in Mail(p, q), s.kind = "bye", x.kind # "candidate"
        PROVE s.to # x.call
    <3>1. x.kind = "offer"
      BY <1>8, <2>2 DEF Signals
    <3>2. x.call \notin Learnt(p, q)
      BY <3>1 DEF Pair, HeardFirst
    <3> QED
      BY <1>7, <3>2, Learning
  <2> QED
    BY <2>1, <2>2 DEF ByeIsPast
<1>18. ByeIsPast(q, p)'
  BY <1>2 DEF Pair, ByeIsPast
<1>19. CalleeHeard(p, q)'
  <2> SUFFICES ASSUME peer[q] = p, call[q] \in Known(p)', ~conn[q].caller
               PROVE \A s \in Mail(p, q) : call[p] <= s.call
    BY DEF CalleeHeard
  <2>1. CASE call[q] \in Known(p)
    BY <2>1 DEF Pair, CalleeHeard
  <2>2. CASE call[q] = x.call /\ x.kind # "candidate"
    <3>1. x.kind # "offer"
      BY <1>1, <2>2 DEF Pair, OfferIsLive
    <3> QED
      BY <1>8, <2>2, <3>1 DEF Signals
  <2> QED
    BY <2>1, <2>2
<1>20. CalleeHeard(q, p)'
  BY <1>2 DEF Pair, CalleeHeard
<1>21. OfferIsHeard(p, q)'
  BY <1>3 DEF Pair, OfferIsHeard, News
<1>22. OfferIsHeard(q, p)'
  <2> SUFFICES ASSUME peer[q] = p, conn[q].sdp = "have-local-offer", ~Unsaid(q),
                      ~(\E s \in Mail(q, p)' : s.kind = "offer" /\ s.call = call[q])
               PROVE \A s \in Mail(q, p)' : call[q] <= s.call
    BY <1>2 DEF OfferIsHeard
  <2>1. \A s \in Mail(q, p) : s.kind # "left"
    BY <1>1 DEF Pair, Posted
  <2>2. CASE x.call = call[q]
    BY <1>7, <2>1, <2>2
  <2>3. CASE x.call # call[q]
    BY <2>3 DEF Pair, OfferIsHeard
  <2> QED
    BY <2>2, <2>3
<1>23. AnswerIsDue(p, q)'
  BY <1>2 DEF Pair, AnswerIsDue
<1>24. AnswerIsDue(q, p)'
  BY <1>2 DEF Pair, AnswerIsDue
<1>25. AnswererKnows(p, q)'
  BY <1>2 DEF Pair, AnswererKnows
<1>26. AnswererKnows(q, p)'
  BY <1>2 DEF Pair, AnswererKnows
<1>27. CandidateFollows(p, q)'
  BY <1>2 DEF Pair, CandidateFollows
<1>28. CandidateFollows(q, p)'
  BY <1>2 DEF Pair, CandidateFollows
<1> QED
  BY <1>10, <1>11, <1>12, <1>13, <1>14, <1>15, <1>16, <1>17, <1>18, <1>19, <1>20, <1>21, <1>22,
     <1>23, <1>24, <1>25, <1>26, <1>27, <1>28 DEF Pair

-----------------------------------------------------------------------------
(* All programs, when p has done something.                                *)

\* Only p and its messages have to be looked at.
LEMMA Bystanders ==
    ASSUME Agreed, NEW p \in Programs,
           \A q \in Programs \ {p} :
              /\ peer'[q] = peer[q] /\ call'[q] = call[q] /\ conn'[q] = conn[q]
              /\ outbox'[q] = outbox[q] /\ online'[q] = online[q]
              /\ ~online[q] => inbox'[q] = inbox[q]
              /\ InboxInOrder(q)',
           \A q, r \in Programs \ {p} : Mail(q, r)' = Mail(q, r),
           Mail(p, p)' \subseteq Mail(p, p),
           Each(p)',
           \A q \in Programs \ {p} : Pair(p, q)' /\ Pair(q, p)'
    PROVE Agreed'
PROOF
<1>1. ASSUME NEW q \in Programs \ {p} PROVE Each(q)'
  <2>1. Each(q)
    BY DEF Agreed
  <2>2. Staged(q)' /\ Speaks(q)' /\ OutboxInOrder(q)'
    BY <2>1, SameProgram DEF Each
  <2>3. Presence(q)'
    BY <2>1 DEF Each, Presence
  <2> QED
    BY <2>2, <2>3 DEF Each
<1>2. ASSUME NEW q \in Programs \ {p}, NEW r \in Programs \ {p} PROVE Pair(q, r)'
  <2>1. Pair(q, r)
    BY DEF Agreed
  <2> QED
    BY <2>1, SamePair
<1>3. Pair(p, p)'
  <2>1. Mail(p, p) = {}
    BY DEF Agreed, Pair, Posted
  <2>2. Presence(p)'
    BY DEF Each
  <2> QED
    BY <2>1, <2>2, SelfPair
<1> QED
  BY <1>1, <1>2, <1>3 DEF Agreed

\* So all agree.
LEMMA OwnAction ==
    ASSUME TypeOK, Agreed, NEW p \in Programs, NEW X, OwnMove(p, X)
    PROVE Agreed'
PROOF
<1>1. \A q \in Programs : Each(q) /\ Pair(p, q) /\ Pair(q, p)
  BY DEF Agreed
<1>2. \A q \in Programs \ {p} : Pair(p, q)' /\ Pair(q, p)'
  <2> SUFFICES ASSUME NEW q \in Programs \ {p} PROVE Pair(p, q)' /\ Pair(q, p)'
    OBVIOUS
  <2>1. Each(p) /\ Each(q) /\ Pair(p, q) /\ Pair(q, p)
    BY <1>1
  <2> QED
    BY <2>1, OwnStep
<1>3. Each(p)'
  <2>1. Presence(p) /\ InboxInOrder(p)
    BY <1>1 DEF Each
  <2>2. peer[p] # None
    BY DEF OwnMove
  <2>3. online[p]
    BY <2>1, <2>2 DEF Presence
  <2>4. Presence(p)' /\ InboxInOrder(p)'
    BY <2>1, <2>2, <2>3 DEF Presence, InboxInOrder, OwnMove
  <2> QED
    BY <2>4 DEF Each, OwnMove
<1>4. \A q \in Programs : InboxInOrder(q)'
  BY <1>1 DEF Each, InboxInOrder, OwnMove
<1>5. \A q, r \in Programs : Mail(q, r)' = Mail(q, r)
  BY DEF Mail, OwnMove
<1> QED
  BY <1>2, <1>3, <1>4, <1>5, Bystanders DEF OwnMove

\* What an action of p that is in its connection leaves alone.
LEMMA OwnFrame ==
    ASSUME TypeOK, NEW p \in Programs,
           SetDescription(p) \/ OnSuccess(p) \/ OnFailure(p) \/ OnIceCandidate(p)
    PROVE /\ online' = online /\ inbox' = inbox
          /\ \A q \in Programs \ {p} : /\ peer'[q] = peer[q] /\ call'[q] = call[q]
                                       /\ conn'[q] = conn[q] /\ outbox'[q] = outbox[q]
PROOF
<1>1. conn \in [Programs -> Conns] /\ outbox \in [Programs -> Seq(SignalRecords)]
  BY TypeRestated
<1> QED
  BY <1>1 DEF SetDescription, OnSuccess, OnFailure, OnIceCandidate

\* The actions of a connection, but for a failure that is a mishap.
LEMMA ConnectionAgreed ==
    ASSUME TypeOK, Agreed, NEW p \in Programs,
           \/ SetDescription(p) \/ OnSuccess(p) \/ OnIceCandidate(p)
           \/ OnFailure(p) /\ ~Creatable(p)
    PROVE Agreed'
PROOF
<1>1. Presence(p) /\ Staged(p) /\ Speaks(p) /\ OutboxInOrder(p)
  BY DEF Agreed, Each
<1>2. /\ online' = online /\ inbox' = inbox
      /\ \A q \in Programs \ {p} : /\ peer'[q] = peer[q] /\ call'[q] = call[q]
                                   /\ conn'[q] = conn[q] /\ outbox'[q] = outbox[q]
  BY OwnFrame
<1>3. CASE SetDescription(p)
  <2>1. Said(p)' = Said(p) \cup {}
    BY <1>1, <1>3, SetViews
  <2> QED
    <3>1. OwnMove(p, {})
      BY <1>1, <1>2, <1>3, <2>1, SetViews DEF OwnMove
    <3> QED
      BY <3>1, OwnAction
<1>4. CASE OnSuccess(p)
  <2>1. PICK x \in SignalRecords :
          /\ x.call = call[p] /\ x.to = conn[p].remote
          /\ \/ x.kind = "offer" /\ HasToCall(p) /\ conn[p].remote = 0 /\ conn[p].sdp = "stable"
             \/ x.kind = "answer" /\ Owes(p) /\ conn[p].remote # 0
                  /\ conn[p].sdp = "have-remote-offer"
          /\ Said(p)' = Said(p) \cup {x}
          /\ peer[p] # None /\ peer'[p] = peer[p] /\ call'[p] = call[p]
          /\ conn'[p].sdp = conn[p].sdp /\ conn'[p].remote = conn[p].remote
          /\ conn'[p].caller = conn[p].caller
          /\ Known(p)' = Known(p) /\ Due(p)' = Due(p) /\ Unsaid(p)' = Unsaid(p)
          /\ ~HasToCall(p)' /\ ~Owes(p)'
          /\ Staged(p)' /\ Speaks(p)' /\ OutboxInOrder(p)'
    BY <1>1, <1>4, SuccessViews
  <2>2. Early(p)' => Early(p)
    BY <2>1 DEF Early
  <2>3. Owes(p) => x.kind = "answer"
    BY <2>1 DEF Owes
  <2> QED
    <3>1. OwnMove(p, {x})
      BY <1>2, <2>1, <2>2, <2>3 DEF OwnMove
    <3> QED
      BY <3>1, OwnAction
<1>5. CASE OnIceCandidate(p)
  <2>1. PICK x \in SignalRecords :
          /\ x.call = call[p] /\ x.to = conn[p].remote /\ x.kind = "candidate"
          /\ Said(p)' = Said(p) \cup {x}
          /\ peer[p] # None /\ peer'[p] = peer[p] /\ call'[p] = call[p]
          /\ conn'[p].sdp = conn[p].sdp /\ conn'[p].remote = conn[p].remote
          /\ conn'[p].caller = conn[p].caller
          /\ Known(p)' = Known(p) /\ Due(p)' = Due(p) /\ Unsaid(p)' = Unsaid(p)
          /\ ~HasToCall(p) /\ ~HasToCall(p)' /\ ~Owes(p) /\ ~Owes(p)'
          /\ Staged(p)' /\ Speaks(p)' /\ OutboxInOrder(p)'
    BY <1>1, <1>5, CandidateViews
  <2>2. Early(p)' => Early(p)
    BY <2>1 DEF Early
  <2> QED
    <3>1. OwnMove(p, {x})
      BY <1>2, <2>1, <2>2 DEF OwnMove
    <3> QED
      BY <3>1, OwnAction
<1>6. CASE OnFailure(p) /\ ~Creatable(p)
  <2>1. /\ peer[p] # None /\ peer'[p] = peer[p] /\ call'[p] = call[p]
        /\ conn'[p].sdp = conn[p].sdp /\ conn'[p].remote = conn[p].remote
        /\ conn'[p].caller = conn[p].caller
        /\ Said(p)' = Said(p)
        /\ Known(p)' = Known(p) /\ Due(p)' = Due(p) /\ Unsaid(p)' = Unsaid(p)
        /\ ~Owes(p) /\ ~Owes(p)'
        /\ Staged(p)' /\ Speaks(p)' /\ OutboxInOrder(p)'
    BY <1>1, <1>6, FailureViews
  <2>2. Said(p)' = Said(p) \cup {} /\ (Early(p)' => Early(p))
    BY <2>1 DEF Early
  <2> QED
    <3>1. OwnMove(p, {})
      BY <1>2, <2>1, <2>2 DEF OwnMove
    <3> QED
      BY <3>1, OwnAction
<1> QED
  BY <1>3, <1>4, <1>5, <1>6

\* An inbox that stays as it is.
LEMMA SameInbox ==
    ASSUME NEW q \in Programs, inbox'[q] = inbox[q]
    PROVE /\ \A p \in Programs : Mail(p, q)' = Mail(p, q)
          /\ InboxInOrder(q) => InboxInOrder(q)'
PROOF
  BY DEF Mail, InboxInOrder

\* What the server does with a message of p to r.
LEMMA PostFrame ==
    ASSUME TypeOK, NEW p \in Programs, NEW r \in Programs, NEW x, inbox' = Post(p, r, x)
    PROVE /\ inbox'[r] = IF online[r] THEN Append(inbox[r], [from |-> p, signal |-> x])
                         ELSE inbox[r]
          /\ \A q \in Programs \ {r} : inbox'[q] = inbox[q]
PROOF
  BY TypeRestated DEF Post

\* A user hangs up.
LEMMA ByeAgreed ==
    ASSUME TypeOK, Agreed, NEW p \in Programs, peer[p] # None,
           inbox' = Post(p, peer[p], Signal("bye", call[p], conn[p].remote)),
           End(p), UNCHANGED <<online, outbox>>
    PROVE Agreed'
PROOF
<1> DEFINE b == Signal("bye", call[p], conn[p].remote)
<1>1. \A q \in Programs : Each(q) /\ Pair(p, q) /\ Pair(q, p)
  BY DEF Agreed
<1>2. /\ peer[p] \in Programs \ {p} /\ online[p]
      /\ call[p] \in Nat /\ conn[p].remote \in Nat
  <2>1. Each(p)
    BY <1>1
  <2> QED
    BY <2>1, PairType, TypeRestated
<1> PICK r \in Programs \ {p} : r = peer[p]
  BY <1>2
<1>3. /\ b \in MailSignals /\ b.kind = "bye" /\ b.call = call[p] /\ b.to = conn[p].remote
  BY <1>2 DEF Signal, MailSignals, News
<1>4. /\ \A q \in Programs \ {p} : /\ peer'[q] = peer[q] /\ call'[q] = call[q]
                                   /\ conn'[q] = conn[q] /\ outbox'[q] = outbox[q]
      /\ peer'[p] = None /\ conn'[p] = New /\ call'[p] = call[p]
      /\ online' = online /\ outbox'[p] = outbox[p]
  BY TypeRestated DEF End
<1>5. /\ inbox'[r] = IF online[r] THEN Append(inbox[r], [from |-> p, signal |-> b])
                     ELSE inbox[r]
      /\ \A q \in Programs \ {r} : inbox'[q] = inbox[q]
  BY <1>2, PostFrame
<1>6. /\ Known(p)' = {} /\ Due(p)' = {} /\ ~Unsaid(p)'
      /\ Said(p)' \subseteq Said(p)
      /\ Staged(p)' /\ Speaks(p)' /\ OutboxInOrder(p)'
  BY <1>1, <1>4, EndProgram DEF Each
<1> HIDE DEF b
<1>7. \A y \in Mail(p, r) : Precedes(y, b)
  <2> SUFFICES ASSUME NEW y \in Mail(p, r) PROVE Precedes(y, b)
    OBVIOUS
  <2>1. Each(p) /\ Pair(p, r) /\ peer[p] # None
    BY <1>1, <1>2
  <2>2. /\ y.kind # "left" /\ y.call <= call[p]
        /\ y.kind = "bye" => y.call < call[p]
    BY <1>2, <2>1 DEF Pair, Posted
  <2>3. y.call \in Nat
    BY <1>2, <2>1, PairType
  <2> QED
    BY <1>2, <1>3, <2>2, <2>3 DEF Precedes
<1>8. /\ Mail(p, r)' = IF online[r] THEN Mail(p, r) \cup {b} ELSE Mail(p, r)
      /\ \A s \in Programs \ {p} : Mail(s, r)' = Mail(s, r)
      /\ InboxInOrder(r)'
  <2>1. InboxInOrder(r)
    BY <1>1, <1>2 DEF Each
  <2>2. CASE online[r]
    <3>1. inbox'[r] = Append(inbox[r], [from |-> p, signal |-> b])
      BY <1>5, <2>2
    <3>2. r \in Programs /\ b \in MailSignals
      BY <1>2, <1>3
    <3>3. /\ Mail(p, r)' = Mail(p, r) \cup {b}
          /\ \A s \in Programs \ {p} : Mail(s, r)' = Mail(s, r)
          /\ InboxInOrder(r)'
      BY <1>7, <2>1, <3>1, <3>2, PostMail
    <3> QED
      BY <2>2, <3>3
  <2>3. CASE ~online[r]
    <3>1. inbox'[r] = inbox[r] /\ r \in Programs
      BY <1>2, <1>5, <2>3
    <3>2. (\A s \in Programs : Mail(s, r)' = Mail(s, r)) /\ InboxInOrder(r)'
      BY <2>1, <3>1, SameInbox
    <3> QED
      BY <2>3, <3>2
  <2> QED
    BY <2>2, <2>3
<1>9. \A q \in Programs \ {r} :
         /\ \A s \in Programs : Mail(s, q)' = Mail(s, q)
         /\ InboxInOrder(q)'
  BY <1>1, <1>5, SameInbox DEF Each
<1>10. \A q \in Programs \ {p} : Pair(p, q)' /\ Pair(q, p)'
  <2> SUFFICES ASSUME NEW q \in Programs \ {p} PROVE Pair(p, q)' /\ Pair(q, p)'
    OBVIOUS
  <2>1. Each(p) /\ Each(q) /\ Pair(p, q) /\ Pair(q, p)
    BY <1>1
  <2>2. Mail(q, p)' = Mail(q, p)
    BY <1>2, <1>9
  <2>3. peer'[q] = peer[q] /\ call'[q] = call[q] /\ conn'[q] = conn[q] /\ outbox'[q] = outbox[q]
    BY <1>4
  <2>4. CASE q = r /\ online[q]
    <3>1. Mail(p, q)' = Mail(p, q) \cup {b}
      BY <1>8, <2>4
    <3>2. peer[p] = q
      BY <2>4
    <3> QED
      BY <1>3, <1>4, <1>6, <2>1, <2>2, <2>3, <2>4, <3>1, <3>2, ByeStep
  <2>5. CASE q # r \/ ~online[q]
    <3>1. Mail(p, q)' = Mail(p, q)
      <4>1. CASE q = r
        BY <1>8, <2>5, <4>1
      <4>2. CASE q # r
        BY <1>9, <4>2
      <4> QED
        BY <4>1, <4>2
    <3>2. peer[p] # q \/ ~online[q]
      BY <2>5
    <3> QED
      BY <1>4, <1>6, <2>1, <2>2, <2>3, <3>1, <3>2, EndAway
  <2> QED
    BY <2>4, <2>5
<1>11. Each(p)'
  <2>1. InboxInOrder(p)'
    BY <1>2, <1>9
  <2>2. Presence(p)'
    BY <1>2, <1>4, NoneAssumption DEF Presence
  <2> QED
    BY <1>6, <2>1, <2>2 DEF Each
<1>12. /\ \A q \in Programs : InboxInOrder(q)'
       /\ \A q, s \in Programs \ {p} : Mail(q, s)' = Mail(q, s)
       /\ Mail(p, p)' = Mail(p, p)
       /\ \A q \in Programs : ~online[q] => inbox'[q] = inbox[q]
  <2>1. \A q \in Programs : InboxInOrder(q)'
    BY <1>8, <1>9
  <2>2. \A q \in Programs, s \in Programs \ {p} : Mail(s, q)' = Mail(s, q)
    BY <1>8, <1>9
  <2>3. Mail(p, p)' = Mail(p, p)
    BY <1>2, <1>9
  <2>4. \A q \in Programs : ~online[q] => inbox'[q] = inbox[q]
    BY <1>5
  <2> QED
    BY <2>1, <2>2, <2>3, <2>4
<1> QED
  BY <1>4, <1>10, <1>11, <1>12, Bystanders

\* A program leaves the server.
LEMMA LeaveAgreed ==
    ASSUME TypeOK, Agreed, NEW p \in Programs, online[p], Leave(p)
    PROVE Agreed'
PROOF
<1>1. \A q \in Programs : Each(q) /\ Pair(p, q) /\ Pair(q, p)
  BY DEF Agreed
<1>2. /\ \A q \in Programs \ {p} : /\ peer'[q] = peer[q] /\ call'[q] = call[q]
                                   /\ conn'[q] = conn[q] /\ outbox'[q] = outbox[q]
                                   /\ online'[q] = online[q]
      /\ peer'[p] = None /\ conn'[p] = New /\ call'[p] = call[p]
      /\ ~online'[p] /\ outbox'[p] = <<>> /\ inbox'[p] = <<>>
      /\ End(p)
  BY TypeRestated DEF Leave, End
<1>3. \A q \in Programs \ {p} :
         inbox'[q] = IF online[q] THEN Append(inbox[q], [from |-> p, signal |-> Left])
                     ELSE inbox[q]
  BY TypeRestated DEF Leave, Post
<1>4. Left \in MailSignals /\ Left.kind = "left"
  BY DEF Left, Signal, MailSignals, News
<1>5. /\ Known(p)' = {} /\ Due(p)' = {} /\ ~Unsaid(p)'
      /\ Said(p)' \subseteq Said(p)
      /\ Staged(p)' /\ Speaks(p)' /\ OutboxInOrder(p)'
  BY <1>1, <1>2, EndProgram DEF Each
<1>6. ASSUME NEW q \in Programs \ {p}
      PROVE /\ Mail(p, q)' = IF online[q] THEN Mail(p, q) \cup {Left} ELSE Mail(p, q)
            /\ \A s \in Programs \ {p} : Mail(s, q)' = Mail(s, q)
            /\ InboxInOrder(q)'
  <2>1. InboxInOrder(q) /\ Pair(p, q)
    BY <1>1 DEF Each
  <2>2. \A y \in Mail(p, q) : Precedes(y, Left)
    BY <1>4, <2>1 DEF Pair, Posted, Precedes
  <2>3. CASE online[q]
    BY <1>3, <1>4, <2>1, <2>2, <2>3, PostMail
  <2>4. CASE ~online[q]
    BY <1>3, <2>1, <2>4, SameInbox
  <2> QED
    BY <2>3, <2>4
<1>7. \A q \in Programs : Mail(q, p)' = {}
  BY <1>2 DEF Mail
<1>8. \A q \in Programs \ {p} : Pair(p, q)' /\ Pair(q, p)'
  <2> SUFFICES ASSUME NEW q \in Programs \ {p} PROVE Pair(p, q)' /\ Pair(q, p)'
    OBVIOUS
  <2>1. Each(p) /\ Each(q) /\ Pair(p, q) /\ Pair(q, p)
    BY <1>1
  <2>2. /\ Mail(p, q)' = IF online[q] THEN Mail(p, q) \cup {Left} ELSE Mail(p, q)
        /\ Mail(q, p)' = {}
    BY <1>6, <1>7
  <2>3. /\ peer'[q] = peer[q] /\ call'[q] = call[q] /\ conn'[q] = conn[q]
        /\ outbox'[q] = outbox[q] /\ online'[q] = online[q]
    BY <1>2
  <2> QED
    BY <1>2, <1>5, <2>1, <2>2, <2>3, LeaveStep
<1>9. Each(p)'
  <2>1. InboxInOrder(p)'
    BY <1>2 DEF InboxInOrder
  <2>2. Presence(p)'
    BY <1>2, NoneAssumption DEF Presence
  <2> QED
    BY <1>5, <2>1, <2>2 DEF Each
<1>10. \A q \in Programs \ {p} : InboxInOrder(q)' /\ (~online[q] => inbox'[q] = inbox[q])
  BY <1>3, <1>6
<1>11. /\ \A q, s \in Programs \ {p} : Mail(q, s)' = Mail(q, s)
       /\ Mail(p, p)' \subseteq Mail(p, p)
  BY <1>6, <1>7
<1> QED
  BY <1>2, <1>8, <1>9, <1>10, <1>11, Bystanders

\* A BYE, or the news that a member has left, is heard.
LEMMA NewsAgreed ==
    ASSUME TypeOK, Agreed, NEW p \in Programs, HearNews(p), ~disturbed'
    PROVE Agreed'
PROOF
<1>1. \A q \in Programs : Each(q) /\ Pair(p, q) /\ Pair(q, p)
  BY DEF Agreed
<1>2. Take(p) /\ First(p).kind \in News
  BY DEF HearNews
<1>3. /\ Sender(p) \in Programs /\ First(p) \in MailSignals
  BY <1>2, TakeType
<1>4. PICK r \in Programs, x \in MailSignals : r = Sender(p) /\ x = First(p) /\ x.kind \in News
  BY <1>2, <1>3
<1>5. /\ Mail(r, p) = Mail(r, p)' \cup {x}
      /\ \A y \in Mail(r, p)' : Precedes(x, y)
      /\ \A q, s \in Programs : q # r \/ s # p => Mail(q, s)' = Mail(q, s)
      /\ InboxInOrder(p)'
      /\ \A q \in Programs \ {p} : inbox'[q] = inbox[q]
  BY <1>1, <1>2, <1>4, TakeMail DEF Each
<1>6. r # p /\ online[p]
  <2>1. Mail(p, p) = {}
    BY <1>1 DEF Pair, Posted
  <2>2. inbox[p] # <<>>
    BY <1>2 DEF Take
  <2> QED
    BY <1>1, <1>5, <2>1, <2>2 DEF Each, Presence
<1>7. /\ \A q \in Programs \ {p} : /\ peer'[q] = peer[q] /\ call'[q] = call[q]
                                   /\ conn'[q] = conn[q] /\ outbox'[q] = outbox[q]
      /\ online' = online /\ outbox'[p] = outbox[p] /\ call'[p] = call[p]
  BY TypeRestated DEF HearNews, End
<1>8. \A q \in Programs \ {p} : InboxInOrder(q)'
  BY <1>1, <1>5, SameInbox DEF Each
<1>9. /\ \A q, s \in Programs \ {p} : Mail(q, s)' = Mail(q, s)
      /\ Mail(p, p)' = Mail(p, p)
  BY <1>5, <1>6
<1>10. CASE peer[p] = r
  <2>1. End(p) /\ ~LateBye(p)
    BY <1>4, <1>10 DEF HearNews
  <2>2. peer'[p] = None /\ conn'[p] = New
    BY <2>1, TypeRestated DEF End
  <2>3. /\ Known(p)' = {} /\ Due(p)' = {} /\ ~Unsaid(p)'
        /\ Said(p)' \subseteq Said(p)
        /\ Staged(p)' /\ Speaks(p)' /\ OutboxInOrder(p)'
    BY <1>1, <1>7, <2>1, EndProgram DEF Each
  <2>4. x.kind = "bye" => IF conn[p].caller THEN x.to = call[p] ELSE x.call = conn[p].remote
    BY <1>4, <2>1 DEF LateBye
  <2>5. ASSUME NEW q \in Programs \ {p} PROVE Pair(p, q)' /\ Pair(q, p)'
    <3>1. Each(p) /\ Each(q) /\ Pair(p, q) /\ Pair(q, p)
      BY <1>1
    <3>2. peer'[q] = peer[q] /\ call'[q] = call[q] /\ conn'[q] = conn[q] /\ outbox'[q] = outbox[q]
      BY <1>7
    <3>3. Mail(p, q)' = Mail(p, q)
      BY <1>5
    <3>4. CASE q = r
      <4>1. /\ peer[p] = q
            /\ Mail(q, p) = Mail(q, p)' \cup {x} /\ \A y \in Mail(q, p)' : Precedes(x, y)
        BY <1>5, <1>10, <3>4
      <4> QED
        BY <1>4, <1>7, <2>2, <2>3, <2>4, <3>1, <3>2, <3>3, <4>1, NewsStep
    <3>5. CASE q # r
      <4>1. peer[p] # q /\ Mail(q, p)' = Mail(q, p)
        BY <1>5, <1>10, <3>5
      <4> QED
        BY <1>7, <2>2, <2>3, <3>1, <3>2, <3>3, <4>1, EndAway
    <3> QED
      BY <3>4, <3>5
  <2>6. Each(p)'
    <3>1. Presence(p)'
      BY <1>6, <1>7, <2>2, NoneAssumption DEF Presence
    <3> QED
      BY <1>5, <2>3, <3>1 DEF Each
  <2> QED
    BY <1>5, <1>7, <1>8, <1>9, <2>5, <2>6, Bystanders
<1>11. CASE peer[p] # r
  <2>1. peer'[p] = peer[p] /\ conn'[p] = conn[p]
    BY <1>4, <1>11 DEF HearNews
  <2>2. ASSUME NEW q \in Programs \ {p} PROVE Pair(p, q)' /\ Pair(q, p)'
    <3>1. Each(p) /\ Each(q) /\ Pair(p, q) /\ Pair(q, p)
      BY <1>1
    <3>2. peer'[q] = peer[q] /\ call'[q] = call[q] /\ conn'[q] = conn[q] /\ outbox'[q] = outbox[q]
      BY <1>7
    <3>3. Mail(p, q)' = Mail(p, q)
      BY <1>5
    <3>4. CASE q = r
      <4>1. /\ peer[p] # q
            /\ Mail(q, p) = Mail(q, p)' \cup {x} /\ \A y \in Mail(q, p)' : Precedes(x, y)
        BY <1>5, <1>11, <3>4
      <4> QED
        BY <1>4, <1>7, <2>1, <3>1, <3>2, <3>3, <4>1, OtherNewsStep
    <3>5. CASE q # r
      <4>1. Mail(q, p)' = Mail(q, p)
        BY <1>5, <3>5
      <4> QED
        BY <1>7, <2>1, <3>1, <3>2, <3>3, <4>1, SamePair
    <3> QED
      BY <3>4, <3>5
  <2>3. Each(p)'
    <3>1. Presence(p)'
      BY <1>1, <1>6, <1>7, <2>1 DEF Each, Presence
    <3>2. Staged(p)' /\ Speaks(p)' /\ OutboxInOrder(p)'
      BY <1>1, <1>7, <2>1, SameProgram DEF Each
    <3> QED
      BY <1>5, <3>1, <3>2 DEF Each
  <2> QED
    BY <1>5, <1>7, <1>8, <1>9, <2>2, <2>3, Bystanders
<1> QED
  BY <1>10, <1>11

\* A user calls.
LEMMA ConnectAgreed ==
    ASSUME TypeOK, Agreed, NEW p \in Programs, NEW r \in Programs, ConnectToPeer(p, r)
    PROVE Agreed'
PROOF
<1> DEFINE ops == <<Operation("CreateOffer", 0)>>
<1>1. \A q \in Programs : Each(q) /\ Pair(p, q) /\ Pair(q, p)
  BY DEF Agreed
<1>2. /\ Begin(p, r, ops)
      /\ peer[p] = None /\ online[p] /\ r # p
      /\ online[r] \/ Gone(r, p)
      /\ online' = online /\ outbox' = outbox /\ inbox' = inbox
  <2>1. Holds(inbox[p], r, {"left"}) => Gone(r, p)
    BY DEF Holds, Gone, Mail
  <2> QED
    BY <2>1 DEF ConnectToPeer, Listed
<1>3. \A q \in Programs \ {p} : /\ peer'[q] = peer[q] /\ call'[q] = call[q]
                                /\ conn'[q] = conn[q] /\ outbox'[q] = outbox[q]
  BY <1>2, TypeRestated DEF Begin
<1>4. /\ conn'[p].sdp = "stable" /\ conn'[p].remote = 0 /\ ~conn'[p].local
      /\ conn'[p].chain = ops /\ conn'[p].caller
  BY <1>2, TypeRestated DEF Begin, New, Conns
<1>5. Stage(conn'[p]) /\ ~Sets(conn'[p])
  <2>1. Offers(conn'[p])
    BY <1>4 DEF Offers
  <2>2. \A i \in DOMAIN ops : ops[i].op = "CreateOffer"
    BY DEF Operation
  <2>3. ops # <<Operation("SetLocalOffer", 0)>>
    <3>1. Head(ops).op = "CreateOffer" /\ Head(<<Operation("SetLocalOffer", 0)>>).op = "SetLocalOffer"
      BY DEF Operation
    <3> QED
      BY <3>1
  <2> QED
    BY <1>4, <2>1, <2>2, <2>3 DEF Stage, Sets, Remote
<1>6. /\ peer'[p] = r /\ call'[p] = call[p] + 1
      /\ Said(p)' = {}
      /\ Staged(p)' /\ Speaks(p)' /\ OutboxInOrder(p)'
  <2>1. outbox'[p] = outbox[p] /\ OutboxInOrder(p)
    BY <1>1, <1>2 DEF Each
  <2> QED
    BY <1>2, <1>5, <2>1, BeginProgram
<1>7. Known(p)' = {} /\ Due(p)' = {}
  <2>1. \A i \in DOMAIN ops : ops[i].op = "CreateOffer"
    BY DEF Operation
  <2> QED
    BY <1>4, <2>1 DEF Known, Due, CallsOf, Remote
<1>8. \A q, s \in Programs : Mail(q, s)' = Mail(q, s)
  BY <1>2 DEF Mail
<1>9. ASSUME NEW q \in Programs \ {p} PROVE Pair(p, q)' /\ Pair(q, p)'
  <2>1. Each(p) /\ Each(q) /\ Pair(p, q) /\ Pair(q, p)
    BY <1>1
  <2>2. peer'[q] = peer[q] /\ call'[q] = call[q] /\ conn'[q] = conn[q] /\ outbox'[q] = outbox[q]
    BY <1>3
  <2>3. Mail(p, q)' = Mail(p, q) /\ Mail(q, p)' = Mail(q, p)
    BY <1>8
  <2>4. peer'[p] = q => Known(p)' = {} /\ (online[q] \/ Gone(q, p))
    BY <1>2, <1>6, <1>7
  <2> QED
    BY <1>2, <1>4, <1>6, <1>7, <2>1, <2>2, <2>3, <2>4, BeginStep
<1>10. \A q \in Programs : InboxInOrder(q)'
  BY <1>1, <1>2 DEF Each, InboxInOrder
<1>11. Each(p)'
  <2>1. call[p] \in Nat
    BY TypeRestated
  <2>2. Presence(p)'
    BY <1>2, <1>6, <2>1, NoneAssumption DEF Presence
  <2> QED
    BY <1>6, <1>10, <2>2 DEF Each
<1> QED
  BY <1>2, <1>3, <1>8, <1>9, <1>10, <1>11, Bystanders

\* An offer begins a conversation.
LEMMA FirstAgreed ==
    ASSUME TypeOK, Agreed, NEW p \in Programs, HearFirst(p), ~disturbed'
    PROVE Agreed'
PROOF
<1>1. \A q \in Programs : Each(q) /\ Pair(p, q) /\ Pair(q, p)
  BY DEF Agreed
<1>2. Take(p) /\ First(p).kind = "offer" /\ peer[p] = None
  BY DEF HearFirst
<1>3. /\ Sender(p) \in Programs /\ First(p) \in MailSignals
  BY <1>2, TakeType
<1>4. PICK r \in Programs, x \in MailSignals : r = Sender(p) /\ x = First(p) /\ x.kind = "offer"
  BY <1>2, <1>3
<1>5. /\ Mail(r, p) = Mail(r, p)' \cup {x}
      /\ \A y \in Mail(r, p)' : Precedes(x, y)
      /\ \A q, s \in Programs : q # r \/ s # p => Mail(q, s)' = Mail(q, s)
      /\ InboxInOrder(p)'
      /\ \A q \in Programs \ {p} : inbox'[q] = inbox[q]
  BY <1>1, <1>2, <1>4, TakeMail DEF Each
<1>6. r # p /\ online[p] /\ x.call # 0 /\ x.call \in Nat
  <2>1. Mail(p, p) = {}
    BY <1>1 DEF Pair, Posted
  <2>2. inbox[p] # <<>>
    BY <1>2 DEF Take
  <2>3. x.call \in Nat
    BY <1>4 DEF MailSignals
  <2>4. 0 < x.call
    BY <1>1, <1>4, <1>5 DEF Pair, Posted
  <2> QED
    BY <1>1, <1>5, <2>1, <2>2, <2>3, <2>4 DEF Each, Presence
<1> DEFINE set == Operation("SetRemoteOffer", x.call)
           create == Operation("CreateAnswer", 0)
           ops == <<set, create>>
<1>7. Begin(p, r, ops)
  BY <1>4 DEF HearFirst, Asked
<1>8. /\ \A q \in Programs \ {p} : /\ peer'[q] = peer[q] /\ call'[q] = call[q]
                                   /\ conn'[q] = conn[q] /\ outbox'[q] = outbox[q]
      /\ online' = online /\ outbox'[p] = outbox[p]
  BY <1>7, TypeRestated DEF Begin, HearFirst
<1>9. /\ conn'[p].sdp = "stable" /\ conn'[p].remote = 0 /\ ~conn'[p].local
      /\ conn'[p].chain = ops
  <2> HIDE DEF ops
  <2> QED
    BY <1>7, TypeRestated DEF Begin, New, Conns
<1>10. /\ 1 \in DOMAIN ops /\ ops[1] = set /\ ops[1].call = x.call /\ ops[1].op = "SetRemoteOffer"
       /\ \A i \in DOMAIN ops : ops[i].op = "CreateAnswer" \/ ops[i] = set
  BY DEF Operation
<1>11. Stage(conn'[p]) /\ ~Sets(conn'[p])
  <2>1. Accepts(conn'[p])
    BY <1>9, <1>10 DEF Accepts
  <2>2. ops # <<Operation("SetLocalOffer", 0)>>
    <3>1. <<Operation("SetLocalOffer", 0)>>[1].op = "SetLocalOffer"
      BY DEF Operation
    <3> QED
      BY <1>10, <3>1
  <2> QED
    BY <1>6, <1>9, <1>10, <2>1, <2>2 DEF Stage, Sets, Remote
<1>12. /\ peer'[p] = r /\ call'[p] = call[p] + 1
       /\ Said(p)' = {}
       /\ Staged(p)' /\ Speaks(p)' /\ OutboxInOrder(p)'
  <2>1. OutboxInOrder(p)
    BY <1>1 DEF Each
  <2> QED
    BY <1>7, <1>8, <1>11, <2>1, BeginProgram
<1>13. Known(p)' = {x.call} /\ Due(p)' = {}
  <2>1. CallsOf(ops, Remote) = {x.call} /\ CallsOf(ops, {"SetRemoteAnswer"}) = {}
    BY <1>10 DEF CallsOf, Remote
  <2> QED
    BY <1>6, <1>9, <2>1 DEF Known, Due
<1>14. ASSUME NEW q \in Programs \ {p} PROVE Pair(p, q)' /\ Pair(q, p)'
  <2>1. Each(p) /\ Each(q) /\ Pair(p, q) /\ Pair(q, p)
    BY <1>1
  <2>2. peer'[q] = peer[q] /\ call'[q] = call[q] /\ conn'[q] = conn[q] /\ outbox'[q] = outbox[q]
    BY <1>8
  <2>3. Mail(p, q)' = Mail(p, q)
    BY <1>5
  <2>4. CASE q = r
    <3>1. /\ peer'[p] = q
          /\ Mail(q, p) = Mail(q, p)' \cup {x} /\ \A y \in Mail(q, p)' : Precedes(x, y)
      BY <1>5, <1>12, <2>4
    <3> QED
      BY <1>2, <1>4, <1>6, <1>8, <1>9, <1>12, <1>13, <2>1, <2>2, <2>3, <3>1, FirstStep
  <2>5. CASE q # r
    <3>1. peer'[p] # q /\ Mail(q, p)' = Mail(q, p)
      BY <1>5, <1>12, <2>5
    <3> QED
      BY <1>2, <1>6, <1>8, <1>9, <1>12, <1>13, <2>1, <2>2, <2>3, <3>1, BeginStep
  <2> QED
    BY <2>4, <2>5
<1>15. Each(p)'
  <2>1. call[p] \in Nat
    BY TypeRestated
  <2>2. Presence(p)'
    BY <1>6, <1>8, <1>12, <2>1, NoneAssumption DEF Presence
  <2> QED
    BY <1>5, <1>12, <2>2 DEF Each
<1>16. \A q \in Programs \ {p} : InboxInOrder(q)'
  BY <1>1, <1>5, SameInbox DEF Each
<1>17. /\ \A q, s \in Programs \ {p} : Mail(q, s)' = Mail(q, s)
       /\ Mail(p, p)' = Mail(p, p)
  BY <1>5, <1>6
<1> HIDE DEF set, create, ops
<1> QED
  BY <1>5, <1>8, <1>14, <1>15, <1>16, <1>17, Bystanders

\* A signal of the peer is heard.
LEMMA PeerAgreed ==
    ASSUME TypeOK, Agreed, NEW p \in Programs, Waits(p), HearPeer(p), ~disturbed'
    PROVE Agreed'
PROOF
<1>1. \A q \in Programs : Each(q) /\ Pair(p, q) /\ Pair(q, p)
  BY DEF Agreed
<1>2. /\ Take(p) /\ First(p).kind \in Signals /\ peer[p] = Sender(p)
      /\ First(p).to \in {0, call[p]}
  BY DEF HearPeer
<1>3. /\ Sender(p) \in Programs /\ First(p) \in MailSignals
  BY <1>2, TakeType
<1>4. PICK r \in Programs, x \in MailSignals :
         r = Sender(p) /\ x = First(p) /\ x.kind \in Signals /\ peer[p] = r
           /\ x.to \in {0, call[p]}
  BY <1>2, <1>3
<1>5. /\ Mail(r, p) = Mail(r, p)' \cup {x}
      /\ \A y \in Mail(r, p)' : Precedes(x, y)
      /\ \A q, s \in Programs : q # r \/ s # p => Mail(q, s)' = Mail(q, s)
      /\ InboxInOrder(p)'
      /\ \A q \in Programs \ {p} : inbox'[q] = inbox[q]
  BY <1>1, <1>2, <1>4, TakeMail DEF Each
<1>6. r # p /\ peer[p] # None /\ Stage(conn[p]) /\ online[p]
      /\ Each(p) /\ Each(r) /\ Pair(p, r) /\ Pair(r, p)
  BY <1>1, <1>4, PairType, NoneAssumption DEF Each, Presence, Staged
<1>7. x.call \in Nat \ {0} /\ (x.kind = "answer" => x.to # 0)
  <2>1. x.call \in Nat
    BY <1>4 DEF MailSignals
  <2>2. 0 < x.call /\ (x.kind = "answer" => x.to # 0)
    BY <1>4, <1>5, <1>6 DEF Pair, Posted, Signals
  <2> QED
    BY <2>1, <2>2
<1>8. /\ \A q \in Programs \ {p} : /\ peer'[q] = peer[q] /\ call'[q] = call[q]
                                   /\ conn'[q] = conn[q] /\ outbox'[q] = outbox[q]
      /\ online' = online /\ outbox'[p] = outbox[p]
      /\ peer'[p] = peer[p] /\ call'[p] = call[p]
  BY HearEffect DEF HearPeer
<1>9. /\ conn'[p].chain = conn[p].chain \o Asked(x)
      /\ conn'[p].sdp = conn[p].sdp /\ conn'[p].remote = conn[p].remote
      /\ conn'[p].caller = conn[p].caller /\ conn'[p].local = conn[p].local
  BY <1>4, HearEffect
<1>10. Said(p)' = Said(p) /\ OutboxInOrder(p)'
  BY <1>6, <1>8 DEF Said, Each, OutboxInOrder
\* What the connection makes of x.
<1>11. /\ Staged(p)'
       /\ HasToCall(p)' = HasToCall(p) /\ Owes(p)' = Owes(p)
       /\ Sets(conn'[p]) => Sets(conn[p])
       /\ Known(p)' = Known(p) \cup IF x.kind = "candidate" THEN {} ELSE {x.call}
       /\ Due(p)' = Due(p) \cup IF x.kind = "answer" THEN {x.call} ELSE {}
  <2>1. CASE x.kind = "offer"
    <3>1. Known(p) = {}
      BY <1>4, <1>5, <1>6, <2>1, HeardIsPast
    <3>2. /\ Stage(conn'[p]) /\ ~Sets(conn'[p])
          /\ conn[p].remote = 0 /\ conn[p].sdp # "have-remote-offer"
          /\ Known(p)' = {x.call} /\ Due(p)' = Due(p)
          /\ HasToCall(p)' = HasToCall(p)
      BY <1>4, <1>6, <1>7, <2>1, <3>1, HearOfferViews
    <3>3. Owes(p)' = Owes(p)
      BY <1>9, <3>2 DEF Owes
    <3>4. Staged(p)'
      BY <3>2 DEF Staged
    <3> QED
      BY <2>1, <3>1, <3>2, <3>3, <3>4
  <2>2. CASE x.kind = "answer"
    <3>1. call[p] \in Learnt(r, p)
      BY <1>4, <1>5, <1>7, <2>2 DEF Learnt
    <3>2. ~HasToCall(p)
      BY <1>6, <3>1 DEF Pair, HeardFirst, Unsaid
    <3>3. /\ Stage(conn'[p]) /\ ~Sets(conn'[p])
          /\ Known(p)' = Known(p) \cup {x.call} /\ Due(p)' = Due(p) \cup {x.call}
          /\ HasToCall(p)' = HasToCall(p)
          /\ Owes(p)' = Owes(p)
      BY <1>4, <1>6, <1>7, <2>2, <3>2, HearAnswerViews
    <3> QED
      BY <2>2, <3>3 DEF Staged
  <2>3. CASE x.kind = "candidate"
    <3>1. conn[p].chain \in Seq(Operations)
      BY ChainType
    <3>2. conn'[p].chain = conn[p].chain
      BY <1>9, <2>3, <3>1 DEF Asked
    <3>3. Stage(conn'[p])
      BY <1>6, <1>9, <3>2 DEF Stage, Offers, Sets, Accepts, Waiting, Answers, Settled
    <3> QED
      BY <1>9, <2>3, <3>2, <3>3 DEF Staged, HasToCall, Owes, Sets, Known, Due
  <2> QED
    BY <1>4, <2>1, <2>2, <2>3 DEF Signals
<1>12. Unsaid(p)' = Unsaid(p) /\ Early(p)' = Early(p)
  BY <1>8, <1>9, <1>10, <1>11 DEF Unsaid, Early
<1>13. Speaks(p)'
  BY <1>6, <1>8, <1>9, <1>10, <1>11, <1>12 DEF Speaks, Each
<1>14. ASSUME NEW q \in Programs \ {p} PROVE Pair(p, q)' /\ Pair(q, p)'
  <2>1. Each(p) /\ Each(q) /\ Pair(p, q) /\ Pair(q, p)
    BY <1>1
  <2>2. peer'[q] = peer[q] /\ call'[q] = call[q] /\ conn'[q] = conn[q] /\ outbox'[q] = outbox[q]
    BY <1>8
  <2>3. Mail(p, q)' = Mail(p, q)
    BY <1>5
  <2>4. CASE q = r
    <3>1. /\ peer[p] = q
          /\ Mail(q, p) = Mail(q, p)' \cup {x} /\ \A y \in Mail(q, p)' : Precedes(x, y)
      BY <1>4, <1>5, <2>4
    <3> QED
      BY <1>4, <1>8, <1>9, <1>10, <1>11, <1>12, <2>1, <2>2, <2>3, <3>1, HearStep
  <2>5. CASE q # r
    <3>1. peer[p] # q /\ Mail(q, p)' = Mail(q, p)
      BY <1>4, <1>5, <2>5
    <3> QED
      BY <1>8, <1>9, <1>10, <1>12, <2>1, <2>2, <2>3, <3>1, HearAway
  <2> QED
    BY <2>4, <2>5
<1>15. Each(p)'
  <2>1. Presence(p)'
    BY <1>6, <1>8 DEF Each, Presence
  <2> QED
    BY <1>5, <1>10, <1>11, <1>13, <2>1 DEF Each
<1>16. \A q \in Programs \ {p} : InboxInOrder(q)'
  BY <1>1, <1>5, SameInbox DEF Each
<1>17. /\ \A q, s \in Programs \ {p} : Mail(q, s)' = Mail(q, s)
       /\ Mail(p, p)' = Mail(p, p)
  BY <1>5, <1>6
<1> QED
  BY <1>5, <1>8, <1>14, <1>15, <1>16, <1>17, Bystanders

\* The signal that waits longest is sent.
LEMMA SendAgreed ==
    ASSUME TypeOK, Agreed, NEW p \in Programs, Waits(p), SendToPeer(p), ~disturbed'
    PROVE Agreed'
PROOF
<1>1. \A q \in Programs : Each(q) /\ Pair(p, q) /\ Pair(q, p)
  BY DEF Agreed
<1>2. /\ outbox[p] # <<>> /\ outbox'[p] = Tail(outbox[p])
      /\ inbox' = Post(p, peer[p], Head(outbox[p]))
      /\ peer' = peer /\ call' = call /\ conn' = conn /\ online' = online
      /\ \A q \in Programs \ {p} : outbox'[q] = outbox[q]
      /\ peer[p] # None => Head(outbox[p]).call = call[p]
  BY TypeRestated DEF SendToPeer
<1>3. PICK h : h = Head(outbox[p])
  OBVIOUS
<1>4. /\ h \in SignalRecords
      /\ Said(p)' \subseteq Said(p)
      /\ h.call = call[p] => /\ Said(p) = Said(p)' \cup {h}
                             /\ \A y \in Said(p)' : Precedes(h, y)
      /\ OutboxInOrder(p)'
  BY <1>1, <1>2, <1>3, SayLess DEF Each
<1>5. online[p]
  BY <1>1, <1>2 DEF Each, Presence
<1>6. Presence(p)' /\ Staged(p)' /\ Speaks(p)'
  <2>1. Known(p)' = Known(p) /\ HasToCall(p)' = HasToCall(p) /\ Early(p)' = Early(p)
    BY <1>2 DEF Known, HasToCall, Early, Owes
  <2>2. ~Sets(conn[p])
    BY DEF Sets, Waits, Operation, Creations
  <2>3. Presence(p) /\ Staged(p) /\ Speaks(p)
    BY <1>1 DEF Each
  <2>4. Presence(p)'
    BY <1>2, <1>5, <2>3 DEF Presence
  <2>5. Staged(p)'
    BY <1>2, <2>3 DEF Staged
  <2>6. Speaks(p)'
    BY <1>2, <1>4, <2>1, <2>2, <2>3 DEF Speaks
  <2> QED
    BY <2>4, <2>5, <2>6
<1>7. CASE peer[p] = None
  <2>1. inbox' = inbox
    BY <1>2, <1>7, NoneAssumption DEF Post
  <2>2. \A q, s \in Programs : Mail(q, s)' = Mail(q, s)
    BY <2>1 DEF Mail
  <2>3. \A q \in Programs : InboxInOrder(q)'
    BY <1>1, <2>1 DEF Each, InboxInOrder
  <2>4. ASSUME NEW q \in Programs \ {p} PROVE Pair(p, q)' /\ Pair(q, p)'
    <3>1. Each(p) /\ Each(q) /\ Pair(p, q) /\ Pair(q, p)
      BY <1>1
    <3>2. /\ peer[p] # q /\ outbox'[q] = outbox[q]
          /\ Mail(p, q)' = Mail(p, q) /\ Mail(q, p)' = Mail(q, p)
      BY <1>2, <1>7, <2>2, NoneAssumption
    <3> QED
      BY <1>2, <1>4, <3>1, <3>2, SendAway
  <2>5. Each(p)'
    BY <1>4, <1>6, <2>3 DEF Each
  <2> QED
    BY <1>2, <2>1, <2>2, <2>3, <2>4, <2>5, Bystanders
<1>8. CASE peer[p] # None
  <2>1. PICK r \in Programs \ {p} : r = peer[p]
    <3>1. peer[p] \in Programs \ {p}
      BY <1>1, <1>8, TypeRestated DEF Each, Presence
    <3> QED
      BY <3>1
  <2>2. /\ h.call = call[p]
        /\ Said(p) = Said(p)' \cup {h} /\ \A y \in Said(p)' : Precedes(h, y)
    BY <1>2, <1>3, <1>4, <1>8
  <2>3. /\ inbox'[r] = IF online[r] THEN Append(inbox[r], [from |-> p, signal |-> h])
                       ELSE inbox[r]
        /\ \A q \in Programs \ {r} : inbox'[q] = inbox[q]
    BY <1>2, <1>3, <2>1, PostFrame
  <2>4. \A y \in Mail(p, r) : Precedes(y, h)
    <3> SUFFICES ASSUME NEW y \in Mail(p, r) PROVE Precedes(y, h)
      OBVIOUS
    <3>1. Each(p) /\ Pair(p, r) /\ h \in Said(p)
      BY <1>1, <2>2
    <3>2. /\ y.kind # "left" /\ y.call <= call[p]
          /\ y.kind = "bye" => y.call < call[p]
          /\ Unsaid(p) => y.call < call[p]
          /\ y.call = call[p] /\ (\E a \in Said(p) : a.kind = "answer") => y.to = 0
      BY <1>5, <1>8, <3>1 DEF Pair, Posted
    <3>3. h.kind = "offer" => Unsaid(p)
      BY <1>8, <3>1 DEF Unsaid
    <3>4. y.call \in Nat /\ call[p] \in Nat /\ h.kind \in Signals
      BY <3>1, PairType
    <3> QED
      BY <2>2, <3>1, <3>2, <3>3, <3>4 DEF Precedes, Signals
  <2>5. /\ Mail(p, r)' = IF online[r] THEN Mail(p, r) \cup {h} ELSE Mail(p, r)
        /\ \A s \in Programs \ {p} : Mail(s, r)' = Mail(s, r)
        /\ InboxInOrder(r)'
    <3>1. InboxInOrder(r)
      BY <1>1 DEF Each
    <3>2. h \in MailSignals
      BY <1>4 DEF SignalRecords, MailSignals
    <3>3. CASE online[r]
      BY <2>3, <2>4, <3>1, <3>2, <3>3, PostMail
    <3>4. CASE ~online[r]
      BY <2>3, <3>1, <3>4, SameInbox
    <3> QED
      BY <3>3, <3>4
  <2>6. \A q \in Programs \ {r} :
           /\ \A s \in Programs : Mail(s, q)' = Mail(s, q)
           /\ InboxInOrder(q)'
    BY <1>1, <2>3, SameInbox DEF Each
  <2>7. ASSUME NEW q \in Programs \ {p} PROVE Pair(p, q)' /\ Pair(q, p)'
    <3>1. Each(p) /\ Each(q) /\ Pair(p, q) /\ Pair(q, p)
      BY <1>1
    <3>2. outbox'[q] = outbox[q] /\ Mail(q, p)' = Mail(q, p)
      BY <1>2, <2>6
    <3>3. CASE q = r
      <4>1. /\ peer[p] = q /\ h \in Said(p)
            /\ Mail(p, q)' = IF online[q] THEN Mail(p, q) \cup {h} ELSE Mail(p, q)
        BY <2>1, <2>2, <2>5, <3>3
      <4> QED
        BY <1>2, <2>2, <3>1, <3>2, <4>1, SendStep
    <3>4. CASE q # r
      <4>1. peer[p] # q /\ Mail(p, q)' = Mail(p, q)
        BY <2>1, <2>6, <3>4
      <4> QED
        BY <1>2, <1>4, <3>1, <3>2, <4>1, SendAway
    <3> QED
      BY <3>3, <3>4
  <2>8. Each(p)'
    BY <1>4, <1>6, <2>6 DEF Each
  <2>9. /\ \A q \in Programs : InboxInOrder(q)'
        /\ \A q, s \in Programs \ {p} : Mail(q, s)' = Mail(q, s)
        /\ Mail(p, p)' = Mail(p, p)
        /\ \A q \in Programs : ~online[q] => inbox'[q] = inbox[q]
    BY <2>3, <2>5, <2>6
  <2> QED
    BY <1>2, <2>7, <2>8, <2>9, Bystanders
<1> QED
  BY <1>7, <1>8

-----------------------------------------------------------------------------
(* The invariant.                                                          *)

\* At first nobody has anything.
LEMMA AgreedInit == ASSUME Init PROVE Agreed
PROOF
<1>1. ASSUME NEW p \in Programs
      PROVE /\ online[p] /\ peer[p] = None /\ conn[p] = New
            /\ Said(p) = {} /\ Known(p) = {} /\ Due(p) = {} /\ ~HasToCall(p) /\ ~Unsaid(p)
            /\ Each(p)
  <2>1. /\ online[p] /\ peer[p] = None /\ call[p] = 0 /\ conn[p] = New
        /\ outbox[p] = <<>> /\ inbox[p] = <<>>
    BY DEF Init
  <2>2. Said(p) = {} /\ InboxInOrder(p) /\ OutboxInOrder(p)
    BY <2>1 DEF Said, InboxInOrder, OutboxInOrder
  <2>3. Known(p) = {} /\ Due(p) = {} /\ ~HasToCall(p) /\ ~Unsaid(p)
    BY <2>1, CallsEmpty DEF Known, Due, HasToCall, Unsaid, New
  <2>4. Presence(p) /\ Staged(p) /\ Speaks(p)
    BY <2>1, <2>2, <2>3, NoneAssumption DEF Presence, Staged, Speaks, Sets, New
  <2> QED
    BY <2>1, <2>2, <2>3, <2>4 DEF Each
<1>2. ASSUME NEW p \in Programs, NEW q \in Programs PROVE Pair(p, q)
  <2>1. /\ online[p] /\ peer[p] = None /\ peer[p] # q /\ peer[q] # p
        /\ Known(p) = {} /\ ~Unsaid(p) /\ ~Unsaid(q)
    BY <1>1, NoneAssumption
  <2>2. Mail(p, q) = {} /\ Mail(q, p) = {}
    BY DEF Init, Mail
  <2>3. Learnt(p, q) = {}
    BY <2>1, <2>2 DEF Learnt
  <2> QED
    BY <2>1, <2>2, <2>3 DEF Pair, Posted, HeardFirst, KnownIsLive, OfferIsLive, AnswerIsLive,
       ByeIsPast, CalleeHeard, OfferIsHeard, AnswerIsDue, AnswererKnows, CandidateFollows
<1> QED
  BY <1>1, <1>2 DEF Agreed

\* A conversation that has been disturbed stays so.
LEMMA StaysDisturbed ==
    ASSUME TypeOK, [Next]_vars, disturbed
    PROVE disturbed'
PROOF
<1>1. ASSUME NEW p \in Programs, User(p) PROVE disturbed'
  BY <1>1 DEF User, ConnectToPeer, DisconnectFromCurrentPeer, LoseSession, Leave
<1>2. ASSUME NEW p \in Programs, Hear(p) PROVE disturbed'
  BY <1>2 DEF Hear, HearNews, HearFirst, HearPeer, HearThird
<1>3. ASSUME NEW p \in Programs,
             SetDescription(p) \/ Create(p) \/ OnIceCandidate(p) \/ SendToPeer(p)
      PROVE disturbed'
  BY <1>3 DEF SetDescription, Create, OnSuccess, OnFailure, OnIceCandidate, SendToPeer
<1> QED
  BY <1>1, <1>2, <1>3 DEF Next, Idle, vars

\* Every step keeps the agreement, until it is disturbed.
LEMMA AgreedStep ==
    ASSUME TypeOK, Agreed, [Next]_vars, ~disturbed'
    PROVE Agreed'
PROOF
<1>1. CASE UNCHANGED vars
  <2>1. ASSUME NEW p \in Programs PROVE Each(p)'
    <3>1. Each(p)
      BY DEF Agreed
    <3>2. Staged(p)' /\ Speaks(p)' /\ OutboxInOrder(p)'
      BY <1>1, <3>1, SameProgram DEF Each, vars
    <3>3. Presence(p)' /\ InboxInOrder(p)'
      BY <1>1, <3>1 DEF Each, vars, Presence, InboxInOrder
    <3> QED
      BY <3>2, <3>3 DEF Each
  <2>2. ASSUME NEW p \in Programs, NEW q \in Programs PROVE Pair(p, q)'
    <3>1. Pair(p, q)
      BY DEF Agreed
    <3>2. Mail(p, q)' = Mail(p, q) /\ Mail(q, p)' = Mail(q, p)
      BY <1>1 DEF vars, Mail
    <3> QED
      BY <1>1, <3>1, <3>2, SamePair DEF vars
  <2> QED
    BY <2>1, <2>2 DEF Agreed
<1>2. ASSUME NEW p \in Programs, SetDescription(p) \/ OnIceCandidate(p) \/ Create(p)
      PROVE Agreed'
  <2>1. OnFailure(p) => ~Creatable(p)
    BY DEF OnFailure
  <2> QED
    BY <1>2, <2>1, ConnectionAgreed DEF Create
<1>3. ASSUME NEW p \in Programs, User(p)
      PROVE Agreed'
  <2>1. CASE \E q \in Programs : ConnectToPeer(p, q)
    BY <2>1, ConnectAgreed
  <2>2. CASE DisconnectFromCurrentPeer(p)
    <3>1. online[p]
      BY <2>2 DEF DisconnectFromCurrentPeer, Agreed, Each, Presence
    <3>2. CASE Leave(p)
      BY <3>1, <3>2, LeaveAgreed
    <3>3. CASE ~Leave(p)
      BY <2>2, <3>3, ByeAgreed DEF DisconnectFromCurrentPeer
    <3> QED
      BY <3>2, <3>3
  <2>3. CASE LoseSession(p)
    BY <2>3, LeaveAgreed DEF LoseSession
  <2> QED
    BY <1>3, <2>1, <2>2, <2>3 DEF User
<1>4. ASSUME NEW p \in Programs, Waits(p), Hear(p)
      PROVE Agreed'
  <2>1. ~HearThird(p)
    BY DEF HearThird
  <2> QED
    BY <1>4, <2>1, NewsAgreed, FirstAgreed, PeerAgreed DEF Hear
<1>5. ASSUME NEW p \in Programs, Waits(p), SendToPeer(p)
      PROVE Agreed'
  BY <1>5, SendAgreed
<1> QED
  BY <1>1, <1>2, <1>3, <1>4, <1>5 DEF Next, Idle

\* As long as nothing has disturbed a conversation all that CallAgreement says is true, of
\* every program and of every message between two (conductor.cc:221-295, :334-381).
THEOREM ConversationsAgree == Spec => []Agreement
PROOF
<1>1. Init => Agreement
  BY AgreedInit DEF Agreement
<1>2. TypeOK /\ Agreement /\ [Next]_vars => Agreement'
  BY AgreedStep, StaysDisturbed DEF Agreement
<1> QED
  BY <1>1, <1>2, TypeCorrect, PTL DEF Spec

-----------------------------------------------------------------------------
(* What follows.                                                           *)

\* A program that has nothing more to do waits for an answer, or is settled.
LEMMA QuietStage ==
    ASSUME TypeOK, NEW p \in Programs, NEW q \in Programs, Each(p), Each(q),
           Pair(p, q), peer[p] = q,
           conn[p].chain = <<>>, outbox[p] = <<>>, Mail(p, q) = {}, Mail(q, p) = {}
    PROVE /\ peer[q] = p
          /\ \/ conn[p].sdp = "have-local-offer"
             \/ conn[p].sdp = "stable" /\ conn[p].remote = call[q]
          /\ Said(p) = {} /\ Due(p) = {} /\ ~Owes(p)
PROOF
<1>1. Said(p) = {} /\ Due(p) = {} /\ ~HasToCall(p) /\ ~Unsaid(p) /\ ~Owes(p)
  <2>1. Said(p) = {} /\ Due(p) = {} /\ ~HasToCall(p) /\ ~Owes(p)
    BY CallsEmpty DEF Said, Due, HasToCall, Owes
  <2> QED
    BY <2>1 DEF Unsaid
<1>2. Waiting(conn[p]) \/ Settled(conn[p])
  <2>1. Stage(conn[p])
    BY PairType, NoneAssumption DEF Each, Staged
  <2>2. ~Offers(conn[p])
    <3>1. ~HasToCall(p) /\ (HasToCall(p) <=> Offers(conn[p]))
      BY <1>1, <2>1, OffersHasToCall
    <3> QED
      BY <3>1
  <2>3. ~Sets(conn[p])
    BY DEF Sets
  <2>4. ~Accepts(conn[p])
    BY DEF Accepts
  <2>5. ~Answers(conn[p])
    BY DEF Answers
  <2> QED
    BY <2>1, <2>2, <2>3, <2>4, <2>5 DEF Stage
<1>3. CASE Waiting(conn[p])
  BY <1>1, <1>3 DEF Waiting, Pair, OfferIsHeard
<1>4. CASE Settled(conn[p])
  <2>1. conn[p].remote \in Known(p)
    BY <1>4 DEF Settled, Known
  <2>2. Live(q, p, conn[p].remote)
    BY <2>1 DEF Pair, KnownIsLive
  <2>3. peer[q] = p /\ call[q] = conn[p].remote
    BY <2>2 DEF Live, Gone
  <2> QED
    BY <1>1, <1>4, <2>3 DEF Settled
<1> QED
  BY <1>2, <1>3, <1>4

\* When all has been said between two programs that nothing has disturbed, each is in
\* conversation with the other and has the description of its present connection, or both
\* have called at once (conductor.cc:221-295, :334-381).
THEOREM PeersDoAgree == Spec => []PeersAgree
PROOF
<1>1. TypeOK /\ Agreement => PeersAgree
  <2> SUFFICES ASSUME TypeOK, Agreed, NEW p \in Programs, NEW q \in Programs,
                      peer[p] = q, Quiet(p, q)
               PROVE /\ peer[q] = p
                     /\ (Connected(p, q) /\ Connected(q, p)) \/ Crossed(p, q)
    BY DEF PeersAgree, Agreement
  <2>1. Each(p) /\ Each(q) /\ Pair(p, q) /\ Pair(q, p)
    BY DEF Agreed
  <2>2. Mail(p, q) = {} /\ Mail(q, p) = {}
    <3>1. /\ \A s \in Mail(p, q) : s.kind \in Signals \cup News
          /\ \A s \in Mail(q, p) : s.kind \in Signals \cup News
      BY <2>1, PairType
    <3>2. /\ \A s \in Mail(p, q) : s.kind \notin Signals \cup News
          /\ \A s \in Mail(q, p) : s.kind \notin Signals \cup News
      BY DEF Quiet, UnderWay, Holds, Mail
    <3> QED
      BY <3>1, <3>2
  <2>3. conn[p].chain = <<>> /\ outbox[p] = <<>>
    BY DEF Quiet, UnderWay
  <2>4. /\ peer[q] = p
        /\ \/ conn[p].sdp = "have-local-offer"
           \/ conn[p].sdp = "stable" /\ conn[p].remote = call[q]
        /\ Said(p) = {} /\ Due(p) = {} /\ ~Owes(p)
    BY <2>1, <2>2, <2>3, QuietStage
  <2>5. conn[q].chain = <<>> /\ outbox[q] = <<>>
    BY <2>4 DEF Quiet, UnderWay
  <2>6. /\ \/ conn[q].sdp = "have-local-offer"
           \/ conn[q].sdp = "stable" /\ conn[q].remote = call[p]
        /\ Said(q) = {} /\ Due(q) = {} /\ ~Owes(q)
    BY <2>1, <2>2, <2>4, <2>5, QuietStage
  <2>7. /\ ~(conn[p].sdp = "have-local-offer" /\ conn[q].remote = call[p])
        /\ ~(conn[q].sdp = "have-local-offer" /\ conn[p].remote = call[q])
    BY <2>1, <2>2, <2>4, <2>6 DEF Pair, AnswerIsDue
  <2> QED
    BY <2>4, <2>6, <2>7 DEF Connected, Crossed
<1> QED
  BY <1>1, TypeCorrect, ConversationsAgree, PTL

\* A message is only heard when no operation is to be done first.
LEMMA HeardWaiting ==
    ASSUME TypeOK, [Next]_vars, NEW p \in Programs, HearPeer(p)
    PROVE Waits(p)
PROOF
<1>1. inbox[p] # <<>> /\ inbox'[p] = Tail(inbox[p])
  BY TypeRestated DEF HearPeer, Take
<1>2. inbox' # inbox
  <2>1. inbox[p] \in Seq(Mails)
    BY TypeRestated
  <2>2. Len(Tail(inbox[p])) # Len(inbox[p])
    BY <1>1, <2>1
  <2> QED
    BY <1>1, <2>2
<1>3. ~(\E q \in Programs : SetDescription(q)) /\ ~UNCHANGED vars
  BY <1>2 DEF SetDescription, vars
<1> QED
  BY <1>3 DEF Next

\* A candidate of the peer comes when its description has been applied, or when both call
\* each other (conductor.cc:368-381, :509).
THEOREM CandidatesAreExpected == Spec => CandidateIsExpected
PROOF
<1> DEFINE Expected(p) ==
             \/ conn[p].remote = First(p).call
             \/ Calling(p) /\ (First(p).to = 0 \/ conn[p].chain # <<>>)
<1>1. TypeOK /\ Agreement /\ [Next]_vars =>
        [\A p \in Programs :
            HearPeer(p) /\ First(p).kind = "candidate" /\ ~disturbed' => Expected(p)]_vars
  <2> SUFFICES ASSUME TypeOK, Agreement, [Next]_vars, NEW p \in Programs,
                      HearPeer(p), First(p).kind = "candidate", ~disturbed'
               PROVE Expected(p)
    OBVIOUS
  <2>1. Agreed /\ Waits(p)
    BY StaysDisturbed, HeardWaiting DEF Agreement
  <2>2. Take(p) /\ peer[p] = Sender(p) /\ First(p).to \in {0, call[p]}
    BY DEF HearPeer
  <2>3. PICK q \in Programs, x \in MailSignals :
           q = Sender(p) /\ x = First(p) /\ peer[p] = q /\ x.kind = "candidate"
             /\ x.to \in {0, call[p]}
    BY <2>2, TakeType
  <2>4. /\ Each(p) /\ Each(q) /\ Pair(p, q) /\ Pair(q, p) /\ q # p
        /\ Stage(conn[p])
    BY <2>1, <2>3, NoneAssumption DEF Agreed, Each, Presence, Staged
  <2>5. /\ Mail(q, p) = Mail(q, p)' \cup {x}
        /\ \A y \in Mail(q, p)' : Precedes(x, y)
    BY <2>2, <2>3, <2>4, TakeMail DEF Each
  <2>6. CASE conn[p].remote # 0
    <3>1. conn[p].remote \in Known(p)
      BY <2>6 DEF Known
    <3>2. x.kind \in Signals /\ q \in Programs \ {p}
      BY <2>3, <2>4 DEF Signals
    <3>3. \A m \in Known(p) : m = x.call
      BY <2>3, <2>4, <2>5, <3>2, HeardIsPast
    <3> QED
      BY <2>3, <3>1, <3>3
  <2>7. CASE conn[p].remote = 0
    <3>1. CASE Offers(conn[p])
      <4>1. conn[p].chain # <<>> /\ Head(conn[p].chain).op = "CreateOffer"
        BY <3>1, OfferFirst
      <4> QED
        BY <4>1 DEF Calling
    <3>2. CASE Waiting(conn[p])
      <4>1. Calling(p)
        BY <3>2 DEF Calling, Waiting
      <4>2. ASSUME x.to = call[p], x.to # 0 PROVE conn[p].chain # <<>>
        <5>1. Due(p) = {} =>
                 \E a \in Mail(q, p) :
                    a.kind = "answer" /\ a.to = call[p] /\ a.call = x.call
          BY <2>3, <2>4, <2>5, <3>2, <4>2 DEF Pair, CandidateFollows, Waiting
        <5>2. \A a \in Mail(q, p) : a.kind = "answer" /\ a.call = x.call => x.to = 0
          <6>1. x.call \in Nat
            BY <2>3 DEF MailSignals
          <6> QED
            BY <2>3, <2>5, <6>1 DEF Precedes
        <5>3. Due(p) # {}
          BY <4>2, <5>1, <5>2
        <5> QED
          BY <5>3, CallsEmpty DEF Due
      <4> QED
        BY <2>3, <4>1, <4>2
    <3>3. ~Sets(conn[p]) /\ ~Accepts(conn[p])
      BY <2>1, SettingWaits
    <3> QED
      BY <2>4, <2>7, <3>1, <3>2, <3>3 DEF Stage, Answers, Settled
  <2> QED
    BY <2>6, <2>7
<1> QED
  BY <1>1, TypeCorrect, ConversationsAgree, PTL DEF Spec, CandidateIsExpected
=============================================================================
