----------------------------- MODULE HttpResponseProofs -----------------------------
(***************************************************************************)
(* What HttpResponse.tla says of the buffer, for every set of answers:     *)
(* the types, and that the client takes the answers as they were meant.    *)
(***************************************************************************)
EXTENDS HttpResponse, SequenceTheorems, TLAPS

-----------------------------------------------------------------------------
(* A sequence received in pieces.                                          *)

\* Two sequences, joined.
LEMMA Joined ==
    ASSUME NEW S, NEW s \in Seq(S), NEW t \in Seq(S)
    PROVE  /\ s \o t \in Seq(S)
           /\ Len(s \o t) = Len(s) + Len(t)
           /\ \A i \in 1..Len(s) : (s \o t)[i] = s[i]
           /\ \A i \in 1..Len(t) : (s \o t)[Len(s) + i] = t[i]
  <1> DEFINE l == s \o t
  <1>1. /\ l \in Seq(S) /\ Len(l) = Len(s) + Len(t)
        /\ \A i \in 1..(Len(s) + Len(t)) : l[i] = IF i <= Len(s) THEN s[i] ELSE t[i - Len(s)]
    BY ConcatProperties
  <1> HIDE DEF l
  <1>2. Len(s) \in Nat /\ Len(t) \in Nat
    OBVIOUS
  <1>3. ASSUME NEW i \in 1..Len(s) PROVE l[i] = s[i]
    BY <1>1, <1>2
  <1>4. ASSUME NEW i \in 1..Len(t) PROVE l[Len(s) + i] = t[i]
    <2>1. Len(s) + i \in 1..(Len(s) + Len(t)) /\ ~(Len(s) + i <= Len(s)) /\ Len(s) + i - Len(s) = i
      BY <1>2
    <2> QED BY <1>1, <2>1
  <1>5. /\ l \in Seq(S) /\ Len(l) = Len(s) + Len(t)
        /\ \A i \in 1..Len(s) : l[i] = s[i]
        /\ \A i \in 1..Len(t) : l[Len(s) + i] = t[i]
    BY <1>1, <1>3, <1>4
  <1> QED BY <1>5 DEF l

\* The first k of a sequence, and the rest.
Upto(s, k) == SubSeq(s, 1, k)
From(s, k) == SubSeq(s, k + 1, Len(s))

\* Their lengths and types.
LEMMA Rest ==
    ASSUME NEW S, NEW s \in Seq(S), NEW k \in 0..Len(s)
    PROVE  /\ From(s, k) \in Seq(S) /\ Len(From(s, k)) = Len(s) - k
           /\ \A i \in 1..Len(From(s, k)) : From(s, k)[i] = s[k + i]
           /\ Upto(s, k) \in Seq(S) /\ Len(Upto(s, k)) = k
  BY DEF From, Upto

\* So much of the middle of a sequence.
LEMMA Middle ==
    ASSUME NEW S, NEW s \in Seq(S), NEW k \in 0..Len(s), NEW n \in 1..(Len(s) - k)
    PROVE  /\ SubSeq(s, k + 1, k + n) \in Seq(S)
           /\ Len(SubSeq(s, k + 1, k + n)) = n
           /\ \A i \in 1..n : SubSeq(s, k + 1, k + n)[i] = s[k + i]
  <1>1. Len(s) \in Nat /\ k + 1 \in 1..Len(s) /\ k + n \in 1..Len(s) /\ (k + n) - (k + 1) + 1 = n
    OBVIOUS
  <1>2. SubSeq(s, k + 1, k + n) \in Seq(S) /\ Len(SubSeq(s, k + 1, k + n)) = n
    BY <1>1
  <1>3. ASSUME NEW i \in 1..n PROVE SubSeq(s, k + 1, k + n)[i] = s[k + i]
    <2>1. (k + 1) + i - 1 = k + i
      OBVIOUS
    <2> QED BY <1>1, <1>2, <2>1
  <1> QED BY <1>2, <1>3

\* After another n of the rest, the first k + n have been received.
LEMMA Pieces ==
    ASSUME NEW S, NEW s \in Seq(S), NEW k \in 0..Len(s), NEW n \in 1..(Len(s) - k)
    PROVE  /\ From(s, k) \in Seq(S) /\ Len(From(s, k)) = Len(s) - k
           /\ Upto(s, k) \in Seq(S) /\ Len(Upto(s, k)) = k
           /\ Upto(s, k) \o SubSeq(From(s, k), 1, n) = Upto(s, k + n)
           /\ SubSeq(From(s, k), n + 1, Len(From(s, k))) = From(s, k + n)
  <1> DEFINE f == From(s, k)
             u == Upto(s, k)
             m == SubSeq(f, 1, n)
             r == SubSeq(f, n + 1, Len(f))
  <1>1. f \in Seq(S) /\ Len(f) = Len(s) - k /\ \A i \in 1..Len(f) : f[i] = s[k + i]
    BY DEF From
  <1>2. u \in Seq(S) /\ Len(u) = k /\ \A i \in 1..k : u[i] = s[i]
    BY DEF Upto
  <1>3. m \in Seq(S) /\ Len(m) = n /\ \A i \in 1..n : m[i] = s[k + i]
    <2> HIDE DEF f
    <2> QED BY <1>1
  <1>4. r \in Seq(S) /\ Len(r) = Len(s) - (k + n) /\ \A i \in 1..Len(r) : r[i] = s[k + n + i]
    <2> HIDE DEF f
    <2>1. r \in Seq(S) /\ Len(r) = Len(f) - n /\ \A i \in 1..Len(r) : r[i] = f[n + i]
      BY <1>1
    <2> QED BY <1>1, <2>1
  <1>5. u \o m = Upto(s, k + n)
    <2> DEFINE v == SubSeq(s, k + 1, k + n)
    <2>1. v \in Seq(S) /\ Len(v) = n /\ \A i \in 1..n : v[i] = s[k + i]
      BY Middle
    <2>2. m = v
      <3> HIDE DEF m, v
      <3> QED BY <1>3, <2>1, SeqEqual
    <2>3. u \o v = Upto(s, k + n)
      BY ConcatAdjacentSubSeq DEF Upto
    <2> QED BY <2>2, <2>3
  <1>6. r = From(s, k + n)
    <2> DEFINE v == From(s, k + n)
    <2>1. v \in Seq(S) /\ Len(v) = Len(s) - (k + n)
            /\ \A i \in 1..Len(v) : v[i] = s[k + n + i]
      BY DEF From
    <2>2. r = v
      <3> HIDE DEF r, v
      <3> QED BY <1>4, <2>1, SeqEqual
    <2> QED BY <2>2
  <1> QED BY <1>1, <1>2, <1>5, <1>6

-----------------------------------------------------------------------------
(* An answer on the wire.                                                  *)

\* Where the header of an answer ends.
End(a) == Len(a.fields) + 2

\* An answer is a sequence that a size_t can count.
LEMMA Sizes ==
    ASSUME NEW a \in Answers
    PROVE  /\ a.body \in Seq(Lines) /\ Len(a.body) \in Nat /\ Len(a.fields) \in Nat
           /\ End(a) \in Nat /\ End(a) >= 2
           /\ SizeRange \in Nat /\ End(a) + Len(a.body) < SizeRange
  <1>1. a.fields \in Seq(Lines) /\ a.body \in Seq(Lines)
    BY AnswersAssumption
  <1>2. Len(a.fields) \in Nat /\ Len(a.body) \in Nat
    BY <1>1
  <1>3. SizeRange \in Nat /\ 2 + Len(a.fields) + Len(a.body) < SizeRange
    BY SizeAssumption
  <1>4. End(a) \in Nat /\ End(a) >= 2 /\ End(a) + Len(a.body) < SizeRange
    <2> DEFINE n == Len(a.fields)
               m == Len(a.body)
    <2>1. End(a) = n + 2
      BY DEF End
    <2>2. n \in Nat /\ m \in Nat /\ 2 + n + m < SizeRange /\ SizeRange \in Nat
      BY <1>2, <1>3
    <2> HIDE DEF n, m
    <2>3. End(a) \in Nat /\ End(a) >= 2 /\ End(a) + m < SizeRange
      BY <2>1, <2>2
    <2> QED BY <2>3 DEF m
  <1> QED BY <1>1, <1>2, <1>3, <1>4

\* The lines of an answer: the status, the fields, the blank line, the body.
LEMMA BytesOf ==
    ASSUME NEW a \in Answers
    PROVE  /\ Bytes(a) \in Seq(Lines)
           /\ Len(Bytes(a)) = End(a) + Len(a.body)
           /\ Bytes(a)[1] = Line("status", a.status)
           /\ \A i \in 2..(End(a) - 1) : Bytes(a)[i] = a.fields[i - 1]
           /\ Bytes(a)[End(a)] = Line("blank", 0)
           /\ \A i \in 1..Len(a.body) : Bytes(a)[End(a) + i] = a.body[i]
  <1> DEFINE first == <<Line("status", a.status)>>
             blank == <<Line("blank", 0)>>
             f == a.fields
             b == a.body
             s1 == first \o f
             s2 == s1 \o blank
  <1>1. a.status \in Numbers /\ f \in Seq(Lines) /\ b \in Seq(Lines) /\ SizeRange \in Nat
    BY AnswersAssumption, SizeAssumption
  <1>2. SizeRange > 2 + Len(f) + Len(b)
    BY SizeAssumption
  <1>3. first \in Seq(Lines) /\ Len(first) = 1 /\ first[1] = Line("status", a.status)
    BY <1>1 DEF Lines, Line
  <1>4. blank \in Seq(Lines) /\ Len(blank) = 1 /\ blank[1] = Line("blank", 0)
    BY <1>1, <1>2 DEF Lines, Line, Numbers
  <1> HIDE DEF first, blank, f, b
  <1>5. /\ s1 \in Seq(Lines) /\ Len(s1) = Len(f) + 1 /\ s1[1] = Line("status", a.status)
        /\ \A i \in 1..Len(f) : s1[1 + i] = f[i]
    BY <1>1, <1>3, Joined
  <1> HIDE DEF s1
  <1>6. /\ s2 \in Seq(Lines) /\ Len(s2) = Len(f) + 2
        /\ \A i \in 1..(Len(f) + 1) : s2[i] = s1[i]
        /\ s2[Len(f) + 2] = Line("blank", 0)
    <2>1. /\ s2 \in Seq(Lines) /\ Len(s2) = Len(s1) + Len(blank)
          /\ \A i \in 1..Len(s1) : s2[i] = s1[i]
          /\ \A i \in 1..Len(blank) : s2[Len(s1) + i] = blank[i]
      BY <1>4, <1>5, Joined
    <2> HIDE DEF s2
    <2>2. Len(f) \in Nat /\ Len(s1) = Len(f) + 1 /\ 1 \in 1..Len(blank)
      BY <1>1, <1>4, <1>5
    <2>3. s2[Len(f) + 1 + 1] = Line("blank", 0)
      BY <1>4, <2>1, <2>2
    <2>4. Len(f) + 1 + 1 = Len(f) + 2
      BY <2>2
    <2> QED BY <1>4, <2>1, <2>2, <2>3, <2>4
  <1> HIDE DEF s2
  <1>7. /\ s2 \o b \in Seq(Lines) /\ Len(s2 \o b) = Len(f) + 2 + Len(b)
        /\ \A i \in 1..(Len(f) + 2) : (s2 \o b)[i] = s2[i]
        /\ \A i \in 1..Len(b) : (s2 \o b)[Len(f) + 2 + i] = b[i]
    <2>1. /\ s2 \o b \in Seq(Lines) /\ Len(s2 \o b) = Len(s2) + Len(b)
          /\ \A i \in 1..Len(s2) : (s2 \o b)[i] = s2[i]
          /\ \A i \in 1..Len(b) : (s2 \o b)[Len(s2) + i] = b[i]
      <3>1. s2 \in Seq(Lines) /\ b \in Seq(Lines)
        BY <1>1, <1>6
      <3> QED BY <3>1, Joined
    <2> QED BY <1>6, <2>1
  <1>8. Bytes(a) = s2 \o b
    BY DEF Bytes, first, blank, f, b, s1, s2
  <1>9. /\ Bytes(a) \in Seq(Lines) /\ Len(Bytes(a)) = Len(f) + 2 + Len(b)
        /\ \A i \in 1..(Len(f) + 2) : Bytes(a)[i] = s2[i]
        /\ \A i \in 1..Len(b) : Bytes(a)[Len(f) + 2 + i] = b[i]
    BY <1>7, <1>8
  <1>10. ASSUME NEW i \in 2..(Len(f) + 1) PROVE Bytes(a)[i] = f[i - 1]
    <2>1. i \in 1..(Len(f) + 2) /\ i \in 1..(Len(f) + 1) /\ i - 1 \in 1..Len(f) /\ 1 + (i - 1) = i
      BY <1>1
    <2>2. s1[1 + (i - 1)] = f[i - 1]
      BY <1>5, <2>1
    <2> QED BY <1>6, <1>9, <2>1, <2>2
  <1>11. /\ Bytes(a)[1] = Line("status", a.status)
         /\ Bytes(a)[Len(f) + 2] = Line("blank", 0)
    BY <1>1, <1>5, <1>6, <1>9
  <1>12. End(a) = Len(f) + 2 /\ Len(f) \in Nat /\ End(a) - 1 = Len(f) + 1
    BY <1>1 DEF End, f
  <1>13. f = a.fields /\ b = a.body
    BY DEF f, b
  <1> QED BY <1>9, <1>10, <1>11, <1>12, <1>13

\* The lines that are no field and no body.
LEMMA KindsOf ==
    ASSUME NEW a \in Answers
    PROVE  /\ Bytes(a)[1].kind = "status" /\ Bytes(a)[1].n = a.status
           /\ Bytes(a)[End(a)].kind = "blank"
  <1>1. Bytes(a)[1] = Line("status", a.status) /\ Bytes(a)[End(a)] = Line("blank", 0)
    BY BytesOf
  <1>2. \A k, n : Line(k, n).kind = k /\ Line(k, n).n = n
    BY DEF Line
  <1> QED BY <1>1, <1>2

\* What has been received of an answer has a blank line exactly when its header has
\* been received, and the first one is at the end of the header.
LEMMA HeaderEnd ==
    ASSUME NEW a \in Answers, NEW k \in 1..Len(Bytes(a))
    PROVE  Find(Upto(Bytes(a), k), "blank") = IF k >= End(a) THEN {End(a)} ELSE {}
  <1> DEFINE d == Upto(Bytes(a), k)
  <1>1. /\ Len(a.fields) \in Nat
        /\ \A i \in 1..Len(a.fields) : a.fields[i].kind \in FieldKinds
    BY AnswersAssumption
  <1>2. /\ Len(Bytes(a)) \in Nat /\ DOMAIN d = 1..k /\ \A i \in 1..k : d[i] = Bytes(a)[i]
    BY BytesOf DEF Upto
  <1> HIDE DEF d
  <1>3. ASSUME NEW i \in 1..k, i < End(a)
        PROVE  d[i].kind # "blank"
    <2>1. CASE i = 1
      BY <1>2, <2>1, KindsOf
    <2>2. CASE i # 1
      <3>1. i \in 2..(End(a) - 1) /\ i - 1 \in 1..Len(a.fields)
        BY <1>1, <1>3, <2>2 DEF End
      <3>2. d[i].kind \in FieldKinds
        BY <1>1, <1>2, <3>1, BytesOf
      <3> QED BY <3>2 DEF FieldKinds
    <2> QED BY <2>1, <2>2
  <1>4. End(a) \in Nat /\ End(a) >= 1
    BY <1>1 DEF End
  <1>5. ASSUME k >= End(a)
        PROVE  d[End(a)].kind = "blank" /\ End(a) \in 1..k
    BY <1>2, <1>4, <1>5, KindsOf
  <1>6. ASSUME NEW i \in Find(d, "blank")
        PROVE  i = End(a) /\ k >= End(a)
    <2>1. i \in 1..k /\ d[i].kind = "blank" /\ \A j \in 1..(i - 1) : d[j].kind # "blank"
      BY <1>2, <1>6 DEF Find
    <2>2. ~(i < End(a))
      BY <1>3, <2>1
    <2>3. k >= End(a)
      BY <1>4, <2>1, <2>2
    <2>4. ~(i > End(a))
      BY <1>4, <1>5, <2>1, <2>3
    <2> QED BY <1>4, <2>1, <2>2, <2>3, <2>4
  <1>7. ASSUME k >= End(a)
        PROVE  End(a) \in Find(d, "blank")
    <2>1. \A j \in 1..(End(a) - 1) : d[j].kind # "blank"
      BY <1>3, <1>4, <1>7
    <2> QED BY <1>2, <1>5, <1>7, <2>1 DEF Find
  <1>8. Find(d, "blank") = IF k >= End(a) THEN {End(a)} ELSE {}
    BY <1>6, <1>7
  <1> QED BY <1>8 DEF d

\* With its header, its fields have been received, and only they are found.
LEMMA FieldsOf ==
    ASSUME NEW a \in Answers, NEW k \in End(a)..Len(Bytes(a)), NEW kind \in FieldKinds
    PROVE  HeaderValue(Upto(Bytes(a), k), End(a), kind)
             = {a.fields[i].n : i \in {j \in DOMAIN a.fields : a.fields[j].kind = kind}}
  <1> DEFINE d == Upto(Bytes(a), k)
             f == a.fields
             found == {j \in Find(d, kind) : j < End(a)}
             there == {j \in DOMAIN f : f[j].kind = kind}
  <1>1. /\ Len(f) \in Nat /\ DOMAIN f = 1..Len(f)
        /\ \A i, j \in DOMAIN f : f[i].kind = f[j].kind => i = j
    BY AnswersAssumption
  <1>2. End(a) = Len(f) + 2 /\ Len(Bytes(a)) \in Nat
    BY BytesOf DEF End
  <1>3. /\ DOMAIN d = 1..k /\ k \in Nat
        /\ \A i \in 1..k : d[i] = Bytes(a)[i]
    BY <1>1, <1>2, BytesOf DEF Upto
  <1>4. d[1].kind # kind
    <2>1. d[1].kind = "status"
      BY <1>1, <1>2, <1>3, KindsOf
    <2> QED BY <2>1 DEF FieldKinds
  <1>5. \A i \in 1..Len(f) : i + 1 \in 1..k /\ i + 1 < End(a) /\ d[i + 1] = f[i]
    <2> SUFFICES ASSUME NEW i \in 1..Len(f)
                 PROVE  i + 1 \in 1..k /\ i + 1 < End(a) /\ d[i + 1] = f[i]
      OBVIOUS
    <2>1. i + 1 \in 1..k /\ i + 1 \in 2..(End(a) - 1) /\ (i + 1) - 1 = i
      BY <1>1, <1>2, <1>3
    <2> QED BY <1>1, <1>2, <1>3, <2>1, BytesOf
  <1> HIDE DEF d
  <1>6. ASSUME NEW j \in found
        PROVE  \E i \in there : d[j].n = f[i].n
    <2>1. j \in 1..k /\ d[j].kind = kind /\ j < End(a)
      BY <1>3, <1>6 DEF Find
    <2>2. j - 1 \in 1..Len(f) /\ (j - 1) + 1 = j
      BY <1>1, <1>2, <1>4, <2>1
    <2>3. d[j] = f[j - 1] /\ j - 1 \in there
      BY <1>1, <1>5, <2>1, <2>2
    <2> QED BY <2>3
  <1>7. ASSUME NEW i \in there
        PROVE  \E j \in found : d[j].n = f[i].n
    <2>1. i \in 1..Len(f) /\ f[i].kind = kind
      BY <1>1, <1>7
    <2>2. i + 1 \in DOMAIN d /\ i + 1 < End(a) /\ d[i + 1] = f[i]
      BY <1>3, <1>5, <2>1
    <2>3. ASSUME NEW j \in 1..((i + 1) - 1), d[j].kind = kind
          PROVE  FALSE
      <3>1. j # 1 /\ j - 1 \in 1..Len(f) /\ (j - 1) + 1 = j /\ j - 1 < i
        BY <1>1, <1>4, <2>1, <2>3
      <3>2. f[j - 1].kind = f[i].kind
        BY <1>5, <2>1, <2>3, <3>1
      <3> QED BY <1>1, <2>1, <3>1, <3>2
    <2>4. i + 1 \in found
      BY <2>1, <2>2, <2>3 DEF Find
    <2> QED BY <2>2, <2>4
  <1>8. {d[j].n : j \in found} = {f[i].n : i \in there}
    <2> HIDE DEF found, there
    <2> QED BY <1>6, <1>7
  <1> QED BY <1>8 DEF HeaderValue, d

\* With a right length, what has been received is whole exactly when it is everything.
LEMMA WholeOf ==
    ASSUME NEW a \in Answers, Honest(a), NEW k \in End(a)..Len(Bytes(a))
    PROVE  Whole(Upto(Bytes(a), k), End(a)) <=> k = Len(Bytes(a))
  <1> DEFINE d == Upto(Bytes(a), k)
             f == a.fields
             n == Len(a.body)
  <1>1. PICK i \in DOMAIN f : f[i] = Line("length", n)
    BY DEF Honest
  <1>2. f[i].kind = "length" /\ f[i].n = n
    BY <1>1 DEF Line
  <1>3. {j \in DOMAIN f : f[j].kind = "length"} = {i}
    BY <1>1, <1>2, AnswersAssumption
  <1>4. HeaderValue(d, End(a), "length") = {n}
    <2>1. HeaderValue(d, End(a), "length")
            = {f[j].n : j \in {j \in DOMAIN f : f[j].kind = "length"}}
      BY FieldsOf DEF FieldKinds
    <2> QED BY <1>2, <1>3, <2>1
  <1>5. /\ n \in Nat /\ End(a) \in Nat /\ SizeRange \in Nat /\ End(a) + n < SizeRange
        /\ Len(Bytes(a)) = End(a) + n
    BY Sizes, BytesOf
  <1>6. Sum(End(a), SizeT(n)) = End(a) + n
    BY <1>5 DEF Sum, SizeT
  <1>7. Len(d) = k
    BY <1>5, BytesOf DEF Upto
  <1> HIDE DEF d, n
  <1>8. Whole(d, End(a)) <=> Len(d) >= Sum(End(a), SizeT(n))
    BY <1>4 DEF Whole
  <1>9. Whole(d, End(a)) <=> k = Len(Bytes(a))
    BY <1>5, <1>6, <1>7, <1>8
  <1> QED BY <1>9 DEF d

\* An answer begins with its status, as soon as something of it has been received.
LEMMA StatusOf ==
    ASSUME NEW a \in Answers, NEW k \in 1..Len(Bytes(a))
    PROVE  Statuses(Upto(Bytes(a), k)) = {a.status}
  <1>1. Upto(Bytes(a), k)[1] = Bytes(a)[1]
    BY BytesOf DEF Upto
  <1> QED BY <1>1, KindsOf DEF Statuses

\* All of an answer is parsed as it was meant.
LEMMA ParseOf ==
    ASSUME NEW a \in Answers
    PROVE  Parse(Upto(Bytes(a), Len(Bytes(a))), End(a), a.status) = Meant(a)
  <1> DEFINE l == Len(Bytes(a))
             d == Upto(Bytes(a), l)
             f == a.fields
             there == {j \in DOMAIN f : f[j].kind = "pragma"}
             ids == HeaderValue(d, End(a), "pragma")
             peer == IF ids = {} THEN -1 ELSE CHOOSE n \in ids : TRUE
             meant == IF \E i \in DOMAIN f : f[i].kind = "pragma"
                        THEN f[CHOOSE i \in DOMAIN f : f[i].kind = "pragma"].n ELSE -1
             body == SubSeq(d, End(a) + 1, Len(d))
  <1>1. /\ End(a) \in Nat /\ l = End(a) + Len(a.body) /\ Len(a.body) \in Nat /\ a.body \in Seq(Lines)
    BY Sizes, BytesOf
  <1>2. d \in Seq(Lines) /\ Len(d) = l /\ \A i \in 1..l : d[i] = Bytes(a)[i]
    BY <1>1, BytesOf DEF Upto
  <1>3. body = a.body
    <2>1. body \in Seq(Lines) /\ Len(body) = Len(a.body)
            /\ \A i \in 1..Len(body) : body[i] = d[End(a) + i]
      <3> DEFINE e == End(a)
      <3>1. d \in Seq(Lines) /\ e \in 0..Len(d) /\ Len(d) - e = Len(a.body)
        <4> HIDE DEF d, l
        <4> QED BY <1>1, <1>2
      <3> HIDE DEF d, e
      <3>2. /\ From(d, e) \in Seq(Lines) /\ Len(From(d, e)) = Len(a.body)
            /\ \A i \in 1..Len(From(d, e)) : From(d, e)[i] = d[e + i]
        BY <3>1, Rest
      <3> QED BY <3>2 DEF From, e
    <2>2. \A i \in 1..Len(a.body) : d[End(a) + i] = a.body[i]
      <3> HIDE DEF d
      <3> SUFFICES ASSUME NEW i \in 1..Len(a.body) PROVE d[End(a) + i] = a.body[i]
        OBVIOUS
      <3>1. End(a) + i \in 1..l
        <4> HIDE DEF l
        <4> QED BY <1>1
      <3> QED BY <1>2, <3>1, BytesOf
    <2> HIDE DEF body
    <2> QED BY <1>1, <2>1, <2>2, SeqEqual
  <1>4. ids = {f[i].n : i \in there}
    <2>1. l \in End(a)..Len(Bytes(a))
      BY <1>1
    <2> QED BY <2>1, FieldsOf DEF FieldKinds
  <1>5. peer = meant
    <2>1. CASE there = {}
      BY <1>4, <2>1
    <2>2. CASE there # {}
      <3>1. PICK i \in there : TRUE
        BY <2>2
      <3>2. there = {i}
        BY <3>1, AnswersAssumption
      <3>3. ids = {f[i].n}
        BY <1>4, <3>2
      <3>4. (CHOOSE j \in DOMAIN f : f[j].kind = "pragma") = i
        BY <3>1, <3>2
      <3>5. meant = f[i].n
        BY <3>1, <3>4
      <3>6. peer = f[i].n
        <4> HIDE DEF ids
        <4> QED BY <3>3
      <3> QED BY <3>5, <3>6
    <2> QED BY <2>1, <2>2
  <1>6. Parse(d, End(a), a.status) = IF a.status # 200 THEN Refused ELSE Result(peer, body)
    BY DEF Parse
  <1>7. Meant(a) = IF a.status # 200 THEN Refused ELSE Result(meant, a.body)
    BY DEF Meant
  <1> QED
    <2> HIDE DEF peer, meant, body, d
    <2>1. Parse(d, End(a), a.status) = Meant(a)
      BY <1>3, <1>5, <1>6, <1>7
    <2> QED BY <2>1 DEF d

-----------------------------------------------------------------------------
(* The types.                                                              *)

Results == [ok : BOOLEAN, peer : Ids \cup {-1}, body : Seq(Lines)]

\* Whatever the buffer holds, what is parsed is a result.
LEMMA ParseType ==
    ASSUME NEW d \in Seq(Lines), NEW eoh \in 1..Len(d), NEW status
    PROVE  Parse(d, eoh, status) \in Results
  <1> DEFINE ids == HeaderValue(d, eoh, "pragma")
             peer == IF ids = {} THEN -1 ELSE CHOOSE n \in ids : TRUE
             body == SubSeq(d, eoh + 1, Len(d))
  <1>1. \A x \in Lines : x.kind = "pragma" => x.n \in Ids
    BY DEF Lines
  <1>2. ids \subseteq Ids
    <2>1. \A i \in Find(d, "pragma") : d[i] \in Lines /\ d[i].kind = "pragma"
      BY DEF Find
    <2> QED BY <1>1, <2>1 DEF HeaderValue
  <1>3. peer \in Ids \cup {-1}
    <2> HIDE DEF ids
    <2>1. CASE ids = {}
      BY <2>1
    <2>2. CASE ids # {}
      <3>1. (CHOOSE n \in ids : TRUE) \in ids
        BY <2>2
      <3> QED BY <1>2, <2>2, <3>1
    <2> QED BY <2>1, <2>2
  <1>4. body \in Seq(Lines)
    <2>1. eoh \in 0..Len(d)
      OBVIOUS
    <2> QED BY <2>1, Rest DEF From
  <1>5. Parse(d, eoh, status) = IF status # 200 THEN Refused ELSE Result(peer, body)
    BY DEF Parse
  <1>6. Refused \in Results
    BY DEF Refused, Results
  <1> HIDE DEF peer, body
  <1>7. Result(peer, body) \in Results
    BY <1>3, <1>4 DEF Result, Results
  <1> QED BY <1>5, <1>6, <1>7

LEMMA TypeInit == Init => TypeOK
  <1>1. Len(<<>>) <= MaxAnswers
    BY BoundAssumption
  <1>2. \A S : <<>> \in Seq(S)
    OBVIOUS
  <1> QED BY <1>1, <1>2 DEF Init, TypeOK

LEMMA TypeStep == TypeOK /\ [Next]_vars => TypeOK'
  <1> SUFFICES ASSUME TypeOK, [Next]_vars PROVE TypeOK'
    OBVIOUS
  <1> USE DEF TypeOK
  <1>1. CASE Connect
    BY <1>1 DEF Connect
  <1>2. ASSUME NEW a \in Answers, Answer(a) PROVE TypeOK'
    <2>1. wire' \in Seq(Lines)
      BY <1>2, BytesOf, ConcatProperties DEF Answer
    <2>2. answers' \in Seq(Answers) /\ Len(answers') <= MaxAnswers
      BY <1>2, BoundAssumption DEF Answer
    <2>3. clean' \in BOOLEAN
      BY <1>2 DEF Answer
    <2> QED BY <1>2, <2>1, <2>2, <2>3 DEF Answer
  <1>3. CASE Lose
    <2>1. answers' \in Seq(Answers) /\ Len(answers') <= MaxAnswers
      <3>1. CASE answers' = SubSeq(answers, 1, Len(answers) - 1)
        BY <3>1, BoundAssumption
      <3>2. CASE answers' = answers
        BY <3>2
      <3> QED BY <1>3, <3>1, <3>2 DEF Lose
    <2>2. clean' \in BOOLEAN
      BY <1>3 DEF Lose
    <2>3. open' = FALSE /\ wire' = <<>> /\ data' = data /\ taken' = taken
      BY <1>3 DEF Lose
    <2>4. wire' \in Seq(Lines)
      BY <2>3
    <2> QED BY <2>1, <2>2, <2>3, <2>4
  <1>4. CASE Read
    <2>1. PICK n \in 1..Len(wire) :
            LET d == data \o SubSeq(wire, 1, n)
                rest == SubSeq(wire, n + 1, Len(wire))
            IN  (KeepReading(d, rest) \/ TakeAnswer(d, rest)) /\ UNCHANGED <<answers, clean>>
      BY <1>4 DEF Read
    <2> DEFINE d == data \o Upto(wire, n)
               rest == From(wire, n)
    <2>2. n \in 0..Len(wire)
      OBVIOUS
    <2>3. d \in Seq(Lines) /\ rest \in Seq(Lines)
      BY <2>2, Rest, ConcatProperties
    <2> HIDE DEF d, rest
    <2>4. /\ KeepReading(d, rest) \/ TakeAnswer(d, rest)
          /\ UNCHANGED <<answers, clean>>
      BY <2>1 DEF d, rest, Upto, From
    <2>5. CASE KeepReading(d, rest)
      BY <2>3, <2>4, <2>5 DEF KeepReading
    <2>6. CASE TakeAnswer(d, rest)
      <3>1. PICK eoh \in Find(d, "blank"), status \in Statuses(d) :
              LET close == HeaderValue(d, eoh, "close") # {} \/ status # 200 IN
              /\ taken' = Append(taken, Parse(d, eoh, status))
              /\ data' = <<>>
              /\ open' = ~close
              /\ wire' = IF close THEN <<>> ELSE rest
        BY <2>6 DEF TakeAnswer
      <3>2. eoh \in 1..Len(d)
        BY <2>3 DEF Find
      <3>3. Parse(d, eoh, status) \in Results
        BY <2>3, <3>2, ParseType
      <3>4. taken' \in Seq(Results)
        BY <3>1, <3>3 DEF Results
      <3>5. open' \in BOOLEAN /\ wire' \in Seq(Lines) /\ data' \in Seq(Lines)
        BY <2>3, <3>1
      <3> QED BY <2>4, <3>4, <3>5 DEF Results
    <2> QED BY <2>4, <2>5, <2>6
  <1>5. CASE UNCHANGED vars
    BY <1>5 DEF vars
  <1> QED BY <1>1, <1>2, <1>3, <1>4, <1>5 DEF Next

\* Every variable keeps its type: in particular what is taken has the id of a member
\* or -1, whatever the buffer held.
THEOREM TypeCorrect == Spec => []TypeOK
  BY TypeInit, TypeStep, PTL DEF Spec

-----------------------------------------------------------------------------
(* Answers are taken as they were meant.                                   *)

\* Nothing is under way.
Settled == wire = <<>> /\ data = <<>> /\ Len(taken) = Len(answers)

\* Of the answer given last, k lines have been received.
Last == answers[Len(answers)]
PendingAt(k) == data = Upto(Bytes(Last), k) /\ wire = From(Bytes(Last), k)

Pending ==
    /\ Len(answers) = Len(taken) + 1
    /\ Honest(Last)
    /\ \E k \in 0..(Len(Bytes(Last)) - 1) : PendingAt(k)

Meaning == \A i \in DOMAIN taken : taken[i] = Meant(answers[i])

\* TakenAsMeant does not say what is in the buffer and on the wire of an answer that is
\* not whole yet: that they are, together, that answer.
IInv == TypeOK /\ (clean => Meaning /\ (Settled \/ Pending))

\* Something of an answer that is pending has not arrived.
LEMMA OnItsWay == IInv /\ Pending => wire # <<>>
  <1> SUFFICES ASSUME IInv, Pending PROVE wire # <<>>
    OBVIOUS
  <1>1. /\ answers \in Seq(Answers) /\ Len(answers) = Len(taken) + 1 /\ Len(taken) \in Nat
    BY DEF IInv, TypeOK, Pending
  <1>2. Last \in Answers
    BY <1>1 DEF Last
  <1> DEFINE b == Bytes(Last)
  <1>3. PICK k \in 0..(Len(b) - 1) : PendingAt(k)
    BY DEF Pending
  <1>4. wire = From(b, k)
    BY <1>3 DEF PendingAt
  <1>5. b \in Seq(Lines)
    BY <1>2, BytesOf
  <1> HIDE DEF b
  <1>6. Len(b) \in Nat /\ k \in 0..Len(b) /\ Len(b) - k # 0
    BY <1>5
  <1>7. Len(From(b, k)) = Len(b) - k
    BY <1>5, <1>6, Rest
  <1>8. Len(wire) # 0
    BY <1>4, <1>6, <1>7
  <1> QED BY <1>8

LEMMA InvImpliesTaken == IInv => TakenAsMeant
  <1> SUFFICES ASSUME IInv, clean PROVE TakenAsMeant
    BY DEF TakenAsMeant
  <1>1. Len(taken) \in Nat /\ Len(answers) \in Nat
    BY DEF IInv, TypeOK
  <1>2. CASE Settled
    BY <1>1, <1>2 DEF IInv, Settled, Meaning, TakenAsMeant
  <1>3. CASE Pending
    <2>1. wire # <<>>
      BY <1>3, OnItsWay
    <2> QED BY <1>1, <1>3, <2>1 DEF IInv, Pending, Meaning, TakenAsMeant
  <1> QED BY <1>2, <1>3 DEF IInv

LEMMA InvInit == Init => IInv
  <1> SUFFICES ASSUME Init PROVE IInv
    OBVIOUS
  <1>1. Meaning /\ Settled
    BY DEF Init, Meaning, Settled
  <1> QED BY <1>1, TypeInit DEF IInv

\* An answer is given to a client that has nothing under way.
LEMMA AnswerKeeps ==
    ASSUME IInv, NEW a \in Answers, Answer(a), clean'
    PROVE  Meaning' /\ Pending'
  <1>1. /\ clean /\ wire = <<>> /\ Honest(a)
        /\ wire' = wire \o Bytes(a) /\ answers' = Append(answers, a)
        /\ data' = data /\ taken' = taken
    BY DEF Answer
  <1>2. /\ answers \in Seq(Answers) /\ Len(answers) \in Nat
        /\ taken \in Seq(Results) /\ Len(taken) \in Nat
    BY DEF IInv, TypeOK, Results
  <1>3. Settled /\ Meaning
    <2>1. ~Pending
      BY <1>1, OnItsWay
    <2> QED BY <1>1, <2>1 DEF IInv
  <1>4. /\ Len(answers') = Len(answers) + 1 /\ answers'[Len(answers) + 1] = a
        /\ \A i \in 1..Len(answers) : answers'[i] = answers[i]
    BY <1>1, <1>2
  <1>5. Last' = a
    BY <1>4 DEF Last
  <1>6. Meaning'
    <2>1. DOMAIN taken = 1..Len(answers)
      BY <1>2, <1>3 DEF Settled
    <2> QED BY <1>1, <1>3, <1>4, <2>1 DEF Meaning
  <1>7. 0 \in 0..Len(Bytes(a)) /\ 0 \in 0..(Len(Bytes(a)) - 1)
    BY BytesOf, Sizes
  <1>8. wire' = From(Bytes(a), 0) /\ data' = Upto(Bytes(a), 0)
    <2>1. Bytes(a) \in Seq(Lines)
      BY BytesOf
    <2>2. wire' = Bytes(a)
      BY <1>1, <2>1, ConcatEmptySeq
    <2>3. From(Bytes(a), 0) = Bytes(a)
      BY <2>1, SubSeqFull DEF From
    <2>4. Upto(Bytes(a), 0) = <<>>
      BY SubSeqEmpty DEF Upto
    <2>5. data' = <<>>
      BY <1>1, <1>3 DEF Settled
    <2> QED BY <2>2, <2>3, <2>4, <2>5
  <1>9. PendingAt(0)'
    BY <1>5, <1>8 DEF PendingAt
  <1>10. Len(answers') = Len(taken') + 1
    BY <1>1, <1>3, <1>4 DEF Settled
  <1> QED BY <1>1, <1>5, <1>6, <1>7, <1>9, <1>10 DEF Pending

\* A connection that is lost without cutting an answer off leaves nothing under way.
LEMMA LoseKeeps ==
    ASSUME IInv, Lose, clean'
    PROVE  Meaning' /\ Settled'
  <1>1. wire' = <<>> /\ data' = data /\ taken' = taken /\ clean
    BY DEF Lose
  <1>2. /\ answers \in Seq(Answers) /\ Len(answers) \in Nat
        /\ taken \in Seq(Results) /\ Len(taken) \in Nat /\ DOMAIN taken = 1..Len(taken)
    BY DEF IInv, TypeOK, Results
  <1>3. TakenAsMeant
    BY InvImpliesTaken
  <1>4. CASE wire = <<>>
    <2>1. answers' = answers
      BY <1>4 DEF Lose
    <2>2. data = <<>> /\ Len(taken) = Len(answers)
      BY <1>1, <1>3, <1>4 DEF TakenAsMeant
    <2>3. Meaning
      BY <1>1 DEF IInv
    <2> QED BY <1>1, <2>1, <2>2, <2>3 DEF Meaning, Settled
  <1>5. CASE wire # <<>>
    <2>1. data = <<>> /\ answers' = SubSeq(answers, 1, Len(answers) - 1)
      BY <1>5 DEF Lose
    <2>2. Pending /\ Meaning
      BY <1>1, <1>5 DEF IInv, Settled
    <2>3. Len(answers) = Len(taken) + 1
      BY <2>2 DEF Pending
    <2>4. /\ Len(answers') = Len(taken)
          /\ \A i \in 1..Len(taken) : answers'[i] = answers[i]
      BY <1>2, <2>1, <2>3
    <2> QED BY <1>1, <1>2, <2>1, <2>2, <2>4 DEF Meaning, Settled
  <1> QED BY <1>4, <1>5

\* What is read of a sequence that has not been received.
LEMMA ReadOn ==
    ASSUME NEW b \in Seq(Lines), NEW k \in 0..(Len(b) - 1), NEW n \in 1..Len(From(b, k))
    PROVE  /\ k + n \in 1..Len(b)
           /\ Upto(b, k) \o SubSeq(From(b, k), 1, n) = Upto(b, k + n)
           /\ SubSeq(From(b, k), n + 1, Len(From(b, k))) = From(b, k + n)
  <1>1. Len(b) \in Nat /\ k \in 0..Len(b)
    OBVIOUS
  <1>2. Len(From(b, k)) = Len(b) - k
    BY <1>1, Rest
  <1>3. n \in 1..(Len(b) - k)
    BY <1>2
  <1>4. k + n \in 1..Len(b)
    BY <1>1, <1>3
  <1> QED BY <1>1, <1>3, <1>4, Pieces

\* What is read is more of the answer that is pending, or all of it.
LEMMA ReadKeeps ==
    ASSUME IInv, Read, clean'
    PROVE  Meaning' /\ (Settled' \/ Pending')
  <1>1. clean /\ answers' = answers
    BY DEF Read
  <1>2. /\ answers \in Seq(Answers) /\ Len(answers) \in Nat
        /\ taken \in Seq(Results) /\ Len(taken) \in Nat /\ DOMAIN taken = 1..Len(taken)
    BY DEF IInv, TypeOK, Results
  <1>3. PICK n \in 1..Len(wire) :
          LET d == data \o SubSeq(wire, 1, n)
              rest == SubSeq(wire, n + 1, Len(wire))
          IN  KeepReading(d, rest) \/ TakeAnswer(d, rest)
    BY DEF Read
  <1>4. wire # <<>>
    OBVIOUS
  <1>5. Pending /\ Meaning
    BY <1>1, <1>4 DEF IInv, Settled
  <1> DEFINE a == Last
             b == Bytes(a)
  <1>6. a \in Answers /\ Honest(a)
    BY <1>2, <1>5 DEF Pending, Last
  <1>7. PICK k \in 0..(Len(b) - 1) : PendingAt(k)
    BY <1>5 DEF Pending
  <1>8. /\ b \in Seq(Lines) /\ Len(b) \in Nat /\ Len(b) = End(a) + Len(a.body)
        /\ End(a) \in Nat /\ End(a) >= 2 /\ Len(a.body) \in Nat
    BY <1>6, BytesOf, Sizes
  <1>9. data = Upto(b, k) /\ wire = From(b, k)
    BY <1>7 DEF PendingAt
  <1> DEFINE m == k + n
             d == Upto(b, m)
             rest == From(b, m)
  <1>10. m \in 1..Len(b)
    <2> HIDE DEF b
    <2>1. n \in 1..Len(From(b, k))
      BY <1>9
    <2> HIDE DEF a
    <2> QED BY <1>8, <2>1, ReadOn
  <1>11. d = data \o SubSeq(wire, 1, n) /\ rest = SubSeq(wire, n + 1, Len(wire))
    <2> HIDE DEF b
    <2>1. n \in 1..Len(From(b, k))
      BY <1>9
    <2> HIDE DEF a
    <2>2. Upto(b, k) \o SubSeq(From(b, k), 1, n) = Upto(b, k + n)
      BY <1>8, <2>1, ReadOn
    <2>3. SubSeq(From(b, k), n + 1, Len(From(b, k))) = From(b, k + n)
      BY <1>8, <2>1, ReadOn
    <2> QED BY <1>9, <2>2, <2>3
  <1>12. KeepReading(d, rest) \/ TakeAnswer(d, rest)
    BY <1>3, <1>11
  <1>13. Find(d, "blank") = IF m >= End(a) THEN {End(a)} ELSE {}
    BY <1>6, <1>10, HeaderEnd
  <1>14. m >= End(a) => (Whole(d, End(a)) <=> m = Len(b))
    <2> SUFFICES ASSUME m >= End(a) PROVE Whole(d, End(a)) <=> m = Len(b)
      OBVIOUS
    <2>1. m \in End(a)..Len(b)
      <3> HIDE DEF b
      <3> QED BY <1>8, <1>10
    <2> HIDE DEF m, a
    <2> QED BY <1>6, <2>1, WholeOf
  <1> HIDE DEF d, rest, m, b, a
  <1>15. CASE KeepReading(d, rest)
    <2>1. data' = d /\ wire' = rest /\ taken' = taken /\ ~\E eoh \in Find(d, "blank") : Whole(d, eoh)
      BY <1>15 DEF KeepReading
    <2>2. m # Len(b)
      BY <1>8, <1>10, <1>13, <1>14, <2>1
    <2>3. Last' = a
      BY <1>1 DEF Last, a
    <2>4. m \in 0..(Len(b) - 1) /\ PendingAt(m)'
      BY <1>8, <1>10, <2>1, <2>2, <2>3 DEF PendingAt, d, rest, b
    <2>5. Pending'
      BY <1>1, <1>5, <1>6, <2>1, <2>3, <2>4 DEF Pending, b
    <2> QED BY <1>1, <1>5, <2>1, <2>5 DEF Meaning
  <1>16. CASE TakeAnswer(d, rest)
    <2>1. PICK eoh \in Find(d, "blank"), status \in Statuses(d) :
            /\ Whole(d, eoh)
            /\ taken' = Append(taken, Parse(d, eoh, status))
            /\ data' = <<>>
            /\ wire' = <<>> \/ wire' = rest
      BY <1>16 DEF TakeAnswer
    <2>2. eoh = End(a) /\ m = Len(b)
      BY <1>13, <1>14, <2>1
    <2>3. status = a.status
      BY <1>6, <1>10, <2>1, StatusOf DEF d, b
    <2>4. Parse(d, eoh, status) = Meant(a)
      BY <1>6, <2>2, <2>3, ParseOf DEF d, b
    <2>5. rest = <<>>
      BY <1>8, <2>2, SubSeqEmpty DEF rest, From
    <2>6. taken' = Append(taken, Meant(a)) /\ Len(taken') = Len(taken) + 1
      BY <1>2, <2>1, <2>4
    <2>7. Settled'
      BY <1>1, <1>5, <2>1, <2>5, <2>6 DEF Settled, Pending
    <2>8. Meaning'
      <3> SUFFICES ASSUME NEW i \in DOMAIN taken' PROVE taken'[i] = Meant(answers[i])
        BY <1>1 DEF Meaning
      <3>1. i \in 1..(Len(taken) + 1)
        BY <1>2, <2>6
      <3>2. CASE i = Len(taken) + 1
        <4>1. i = Len(answers) /\ taken'[i] = Meant(a)
          BY <1>2, <1>5, <2>6, <3>2 DEF Pending
        <4> QED BY <4>1 DEF a, Last
      <3>3. CASE i # Len(taken) + 1
        <4>1. i \in DOMAIN taken /\ taken'[i] = taken[i]
          BY <1>2, <2>6, <3>1, <3>3
        <4> QED BY <1>5, <4>1 DEF Meaning
      <3> QED BY <3>2, <3>3
    <2> QED BY <2>7, <2>8
  <1> QED BY <1>12, <1>15, <1>16

LEMMA InvStep == IInv /\ [Next]_vars => IInv'
  <1> SUFFICES ASSUME IInv, [Next]_vars PROVE IInv'
    OBVIOUS
  <1>1. TypeOK'
    BY TypeStep DEF IInv
  <1>2. ASSUME clean' PROVE Meaning' /\ (Settled' \/ Pending')
    <2>1. CASE Connect \/ UNCHANGED vars
      <3>1. UNCHANGED <<wire, data, answers, taken, clean>>
        BY <2>1 DEF Connect, vars
      <3>2. Meaning /\ (Settled \/ Pending)
        BY <1>2, <3>1 DEF IInv
      <3> QED BY <3>1, <3>2 DEF Meaning, Settled, Pending, PendingAt, Last
    <2>2. ASSUME NEW a \in Answers, Answer(a) PROVE Meaning' /\ Pending'
      BY <1>2, <2>2, AnswerKeeps
    <2>3. CASE Lose
      BY <1>2, <2>3, LoseKeeps
    <2>4. CASE Read
      BY <1>2, <2>4, ReadKeeps
    <2> QED BY <2>1, <2>2, <2>3, <2>4 DEF Next
  <1> QED BY <1>1, <1>2 DEF IInv

\* For every set of answers, pieces they arrive in and bodies they have: as long as the
\* lengths are right and no answer is cut off or overtaken, the client takes each as it
\* was meant, once and in order.
THEOREM TakenInOrder == Spec => []TakenAsMeant
  <1>1. Spec => []IInv
    BY InvInit, InvStep, PTL DEF Spec
  <1> QED BY <1>1, InvImpliesTaken, PTL
=============================================================================
