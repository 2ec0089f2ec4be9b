--------------------------- MODULE TransportProofs ---------------------------
(***************************************************************************)
(* Proofs about connections, for any number of servers and clients, any    *)
(* size of the queues and any message too large: channels are FIFO, lose   *)
(* little, hold clients back, and no circle of full queues forms.          *)
(***************************************************************************)
EXTENDS Transport, SelectionProofs

(***************************************************************************)
(* Moving the front of one sequence to the end of another.                 *)
(***************************************************************************)
LEMMA FirstRest ==
  ASSUME NEW S, NEW s \in Seq(S), NEW n \in Nat
  PROVE  /\ First(s, n) \in Seq(S) /\ Rest(s, n) \in Seq(S)
         /\ Len(First(s, n)) = Smaller(n, Len(s))
         /\ Len(Rest(s, n)) = Len(s) - Smaller(n, Len(s))
         /\ First(s, n) \o Rest(s, n) = s
         /\ \A i \in 1..Len(First(s, n)) : First(s, n)[i] = s[i]
         /\ \A i \in 1..Len(Rest(s, n)) : Rest(s, n)[i] = s[Smaller(n, Len(s)) + i]
<1> DEFINE k == Smaller(n, Len(s))
           l == Len(s)
<1>1. k \in Nat /\ k <= l /\ l \in Nat
  BY DEF Smaller
<1> HIDE DEF k
<1>2. (\A i \in 1..k : s[i] \in S) /\ \A i \in (k + 1)..l : s[i] \in S
  BY <1>1
<1>3. /\ SubSeq(s, 1, k) \in Seq(S) /\ Len(SubSeq(s, 1, k)) = k
      /\ \A i \in 1..k : SubSeq(s, 1, k)[i] = s[i]
  <2>1. 1 \in Int /\ k \in Int
    BY <1>1
  <2>2. /\ SubSeq(s, 1, k) \in Seq(S)
        /\ Len(SubSeq(s, 1, k)) = IF 1 <= k THEN k - 1 + 1 ELSE 0
        /\ \A i \in 1..(k - 1 + 1) : SubSeq(s, 1, k)[i] = s[1 + i - 1]
    BY <1>2, <2>1, SubSeqProperties
  <2> QED BY <1>1, <2>2
<1>4. /\ SubSeq(s, k + 1, l) \in Seq(S) /\ Len(SubSeq(s, k + 1, l)) = l - k
      /\ \A i \in 1..(l - k) : SubSeq(s, k + 1, l)[i] = s[k + i]
  <2>1. k + 1 \in Int /\ l \in Int
    BY <1>1
  <2> HIDE DEF l
  <2>2. /\ SubSeq(s, k + 1, l) \in Seq(S)
        /\ Len(SubSeq(s, k + 1, l)) = IF k + 1 <= l THEN l - (k + 1) + 1 ELSE 0
        /\ \A i \in 1..(l - (k + 1) + 1) : SubSeq(s, k + 1, l)[i] = s[(k + 1) + i - 1]
    BY <1>2, <2>1, SubSeqProperties
  <2> QED BY <1>1, <2>2
<1>5. SubSeq(s, 1, k) \o SubSeq(s, k + 1, l) = s
  <2>1. 1 \in 1..(l + 1) /\ k \in (1 - 1)..l /\ l \in k..l
    BY <1>1
  <2>2. SubSeq(s, 1, k) \o SubSeq(s, k + 1, l) = SubSeq(s, 1, l)
    BY <2>1, ConcatAdjacentSubSeq
  <2> QED BY <2>2, SubSeqFull
<1>6. First(s, n) = SubSeq(s, 1, k) /\ Rest(s, n) = SubSeq(s, k + 1, l)
  BY DEF First, Rest, k
<1> HIDE DEF l
<1>7. /\ First(s, n) \in Seq(S) /\ Rest(s, n) \in Seq(S)
      /\ Len(First(s, n)) = k /\ Len(Rest(s, n)) = l - k
      /\ First(s, n) \o Rest(s, n) = s
      /\ \A i \in 1..Len(First(s, n)) : First(s, n)[i] = s[i]
      /\ \A i \in 1..Len(Rest(s, n)) : Rest(s, n)[i] = s[k + i]
  BY <1>3, <1>4, <1>5, <1>6
<1> QED BY <1>7 DEF k, l

(***************************************************************************)
(* Sequences of numbers one after the other.  Under names of their own the *)
(* provers regroup them without looking inside.                            *)
(***************************************************************************)
Numbers == Seq(Nat)
Then(a, b) == a \o b

LEMMA ThenTyped == \A a, b \in Numbers : Then(a, b) \in Numbers
BY ConcatProperties DEF Numbers, Then

LEMMA ThenRegroups == \A a, b, c \in Numbers : Then(Then(a, b), c) = Then(a, Then(b, c))
BY ConcatAssociative DEF Numbers, Then

LEMMA NothingThen ==
  ASSUME NEW a \in Numbers
  PROVE  Then(<<>>, a) = a /\ Then(a, <<>>) = a
BY ConcatEmptySeq DEF Numbers, Then

LEMMA FirstThenRest ==
  ASSUME NEW b \in Numbers, NEW n \in Nat
  PROVE  First(b, n) \in Numbers /\ Rest(b, n) \in Numbers /\ Then(First(b, n), Rest(b, n)) = b
BY FirstRest DEF Numbers, Then

LEMMA FirstMoved ==
  ASSUME NEW b \in Numbers, NEW r \in Numbers, NEW n \in Nat
  PROVE  Then(First(b, n), Then(Rest(b, n), r)) = Then(b, r)
<1>1. First(b, n) \in Numbers /\ Rest(b, n) \in Numbers /\ Then(First(b, n), Rest(b, n)) = b
  BY FirstThenRest
<1>2. Then(Then(First(b, n), Rest(b, n)), r) = Then(First(b, n), Then(Rest(b, n), r))
  BY <1>1, ThenRegroups
<1> QED BY <1>1, <1>2

LEMMA HeadThenTail ==
  ASSUME NEW b \in Numbers, b # <<>>
  PROVE  /\ Head(b) \in Nat /\ <<Head(b)>> \in Numbers /\ Tail(b) \in Numbers
         /\ b = Then(<<Head(b)>>, Tail(b))
<1> DEFINE h == Head(b)
           d == Tail(b)
<1>1. h \in Nat /\ h = b[1] /\ d \in Seq(Nat) /\ Len(b) \in Nat /\ Len(b) >= 1
  BY HeadTailProperties DEF Numbers
<1>2. b = <<h>> \o d
  <2>1. 1 \in 1..Len(b) /\ Len(b) \in 1..Len(b) /\ 1 + 1 = 2 /\ b \in Seq(Nat)
    BY <1>1 DEF Numbers
  <2>2. SubSeq(b, 1, Len(b)) = <<b[1]>> \o SubSeq(b, 1 + 1, Len(b))
    BY <2>1, SubSeqRecursiveFirst
  <2>3. SubSeq(b, 1, Len(b)) = b
    BY <2>1, SubSeqFull
  <2>4. d = SubSeq(b, 2, Len(b))
    BY <2>1, TailIsSubSeq
  <2> QED BY <1>1, <2>1, <2>2, <2>3, <2>4
<1> HIDE DEF h, d
<1>3. <<h>> \in Seq(Nat)
  BY <1>1
<1> QED BY <1>1, <1>2, <1>3 DEF h, d, Numbers, Then

LEMMA HeadMoved ==
  ASSUME NEW a \in Numbers, NEW b \in Numbers, NEW r \in Numbers, b # <<>>
  PROVE  Then(Append(a, Head(b)), Then(Tail(b), r)) = Then(a, Then(b, r))
<1> DEFINE one == <<Head(b)>>
           d == Tail(b)
<1>1. one \in Numbers /\ d \in Numbers /\ b = Then(one, d) /\ Head(b) \in Nat
  BY HeadThenTail
<1>2. Append(a, Head(b)) = Then(a, one)
  BY <1>1, AppendIsConcat DEF Numbers, Then
<1> HIDE DEF one, d
<1>3. Then(d, r) \in Numbers
  BY <1>1, ThenTyped
<1>4. Then(Then(a, one), Then(d, r)) = Then(a, Then(one, Then(d, r)))
  BY <1>1, <1>3, ThenRegroups
<1>5. Then(Then(one, d), r) = Then(one, Then(d, r))
  BY <1>1, ThenRegroups
<1>6. Then(Append(a, Head(b)), Then(d, r)) = Then(a, Then(b, r))
  BY <1>1, <1>2, <1>4, <1>5
<1> QED BY <1>6 DEF d

LEMMA AppendConcat ==
  ASSUME NEW S, NEW a \in Seq(S), NEW b \in Seq(S), NEW e \in S
  PROVE  a \o Append(b, e) = Append(a \o b, e)
<1>1. Append(b, e) = b \o <<e>> /\ <<e>> \in Seq(S) /\ a \o b \in Seq(S)
  BY AppendIsConcat, ConcatProperties
<1>2. Append(a \o b, e) = (a \o b) \o <<e>>
  BY <1>1, AppendIsConcat
<1>3. (a \o b) \o <<e>> = a \o (b \o <<e>>)
  BY <1>1, ConcatAssociative
<1> QED BY <1>1, <1>2, <1>3

LEMMA ConcatRange ==
  ASSUME NEW S, NEW a \in Seq(S), NEW b \in Seq(S)
  PROVE  Range(a \o b) = Range(a) \cup Range(b)
<1>1. /\ a \o b \in Seq(S) /\ Len(a \o b) = Len(a) + Len(b)
      /\ \A i \in 1..(Len(a) + Len(b)) : (a \o b)[i] = IF i <= Len(a) THEN a[i] ELSE b[i - Len(a)]
      /\ Len(a) \in Nat /\ Len(b) \in Nat
  BY ConcatProperties
<1>2. /\ DOMAIN a = 1..Len(a) /\ DOMAIN b = 1..Len(b) /\ DOMAIN (a \o b) = 1..(Len(a) + Len(b))
  BY <1>1
<1>3. ASSUME NEW x \in Range(a \o b) PROVE x \in Range(a) \cup Range(b)
  <2>1. PICK i \in 1..(Len(a) + Len(b)) : x = (a \o b)[i]
    BY <1>2 DEF Range
  <2>2. CASE i <= Len(a)
    BY <1>1, <1>2, <2>1, <2>2 DEF Range
  <2>3. CASE ~ (i <= Len(a))
    <3>1. i - Len(a) \in 1..Len(b) /\ x = b[i - Len(a)]
      BY <1>1, <2>1, <2>3
    <3> QED BY <1>2, <3>1 DEF Range
  <2> QED BY <2>2, <2>3
<1>4. ASSUME NEW x \in Range(a) PROVE x \in Range(a \o b)
  <2>1. PICK i \in 1..Len(a) : x = a[i]
    BY <1>2 DEF Range
  <2>2. i \in 1..(Len(a) + Len(b)) /\ (a \o b)[i] = a[i]
    BY <1>1
  <2> QED BY <1>2, <2>1, <2>2 DEF Range
<1>5. ASSUME NEW x \in Range(b) PROVE x \in Range(a \o b)
  <2>1. PICK i \in 1..Len(b) : x = b[i]
    BY <1>2 DEF Range
  <2>2. Len(a) + i \in 1..(Len(a) + Len(b)) /\ (a \o b)[Len(a) + i] = b[i]
    BY <1>1
  <2> QED BY <1>2, <2>1, <2>2 DEF Range
<1> QED BY <1>3, <1>4, <1>5
-----------------------------------------------------------------------------
(***************************************************************************)
(* Messages of one channel in a queue that channels share.                 *)
(***************************************************************************)
Item == Channel \X Nat

LEMMA OfChannelEmpty ==
  ASSUME NEW ch
  PROVE  OfChannel(<<>>, ch) = <<>>
<1>1. Picked(<<>>, {i \in DOMAIN <<>> : <<>>[i][1] = ch}) = <<>>
  BY PickedEmpty
<1> QED BY <1>1 DEF OfChannel

LEMMA OfChannelAppend ==
  ASSUME NEW s \in Seq(Item), NEW m \in Item, NEW ch
  PROVE  OfChannel(Append(s, m), ch) =
           IF m[1] = ch THEN Append(OfChannel(s, ch), m[2]) ELSE OfChannel(s, ch)
<1> DEFINE n == Len(s)
           t == Append(s, m)
           I == {i \in DOMAIN s : s[i][1] = ch}
           J == {i \in DOMAIN t : t[i][1] = ch}
           p == Picked(s, I)
           q == Picked(t, J)
<1>1. /\ t \in Seq(Item) /\ n \in Nat /\ Len(t) = n + 1 /\ DOMAIN s = 1..n /\ DOMAIN t = 1..(n + 1)
      /\ \A i \in 1..n : t[i] = s[i]
      /\ t[n + 1] = m
  BY AppendProperties
<1> HIDE DEF n, t
<1>2. \A i \in 1..n : t[i] = s[i] /\ (i \in J <=> i \in I)
  BY <1>1
<1>3. n + 1 \in J <=> m[1] = ch
  BY <1>1
<1> HIDE DEF I, J
<1>4. Len(s) = n
  BY DEF n
<1>5. q = IF n + 1 \in J THEN Append(p, t[n + 1]) ELSE p
  BY <1>1, <1>2, <1>4, PickedOneMore
<1>6. p \in Seq(Item)
  BY PickedRange
<1>7. OfChannel(s, ch) = [i \in DOMAIN p |-> p[i][2]] /\ OfChannel(t, ch) = [i \in DOMAIN q |-> q[i][2]]
  BY DEF OfChannel, I, J
<1> HIDE DEF p, q
<1>8. CASE m[1] # ch
  BY <1>3, <1>5, <1>7, <1>8 DEF t
<1>9. CASE m[1] = ch
  <2> DEFINE a == OfChannel(s, ch)
             b == OfChannel(t, ch)
  <2>1. q = Append(p, m)
    BY <1>1, <1>3, <1>5, <1>9
  <2>2. /\ q \in Seq(Item) /\ Len(q) = Len(p) + 1 /\ Len(p) \in Nat
        /\ \A i \in 1..Len(p) : q[i] = p[i]
        /\ q[Len(p) + 1] = m
    BY <1>6, <2>1, AppendProperties
  <2>3. DOMAIN p = 1..Len(p) /\ DOMAIN q = 1..(Len(p) + 1)
    BY <1>6, <2>2
  <2>4. \A i \in 1..Len(p) : p[i][2] \in Nat
    <3> SUFFICES ASSUME NEW i \in 1..Len(p) PROVE p[i][2] \in Nat
      OBVIOUS
    <3>1. p[i] \in Item
      BY <1>6
    <3> QED BY <3>1 DEF Item
  <2>5. a = [i \in 1..Len(p) |-> p[i][2]] /\ b = [i \in 1..(Len(p) + 1) |-> q[i][2]]
    BY <1>7, <2>3
  <2>6. m[2] \in Nat
    BY DEF Item
  <2> HIDE DEF a, b
  <2>7. a \in Seq(Nat) /\ Len(a) = Len(p)
    BY <2>2, <2>4, <2>5
  <2>8. /\ Append(a, m[2]) \in Seq(Nat) /\ Len(Append(a, m[2])) = Len(p) + 1
        /\ \A i \in 1..Len(p) : Append(a, m[2])[i] = a[i]
        /\ Append(a, m[2])[Len(p) + 1] = m[2]
    BY <2>6, <2>7, AppendProperties
  <2>9. ASSUME NEW i \in 1..(Len(p) + 1) PROVE b[i] = Append(a, m[2])[i] /\ b[i] \in Nat
    <3>1. CASE i \in 1..Len(p)
      BY <2>2, <2>4, <2>5, <2>8, <3>1
    <3>2. CASE i = Len(p) + 1
      BY <2>2, <2>5, <2>6, <2>8, <3>2
    <3>3. i \in 1..Len(p) \/ i = Len(p) + 1
      BY <2>2
    <3> QED BY <3>1, <3>2, <3>3
  <2>10. b \in Seq(Nat) /\ Len(b) = Len(p) + 1
    BY <2>2, <2>5, <2>9
  <2>11. b = Append(a, m[2])
    BY <2>8, <2>9, <2>10, SeqEqual
  <2> QED BY <1>9, <2>11 DEF a, b, t
<1> QED BY <1>8, <1>9 DEF t

\* It is a sequence of numbers, no longer than the queue, of just the messages
\* of the channel.
LEMMA OfChannelTyped ==
  ASSUME NEW s \in Seq(Item), NEW ch
  PROVE  /\ OfChannel(s, ch) \in Seq(Nat)
         /\ Len(OfChannel(s, ch)) <= Len(s)
         /\ Range(OfChannel(s, ch)) = {s[i][2] : i \in {j \in DOMAIN s : s[j][1] = ch}}
<1> DEFINE NumbersIn(t) == {t[i][2] : i \in {j \in DOMAIN t : t[j][1] = ch}}
           Good == {t \in Seq(Item) : /\ OfChannel(t, ch) \in Seq(Nat)
                                      /\ Len(OfChannel(t, ch)) <= Len(t)
                                      /\ Range(OfChannel(t, ch)) = NumbersIn(t)}
<1>1. <<>> \in Good
  <2>1. NumbersIn(<<>>) = {} /\ Range(<<>>) = {}
    BY DEF Range
  <2> HIDE DEF Numbers
  <2>2. <<>> \in Seq(Item) /\ <<>> \in Seq(Nat) /\ Len(<<>>) <= Len(<<>>)
    BY EmptySeq
  <2> QED BY <2>1, <2>2, OfChannelEmpty
<1>2. ASSUME NEW t \in Good, NEW e \in Item PROVE Append(t, e) \in Good
  <2> DEFINE u == Append(t, e)
             a == OfChannel(t, ch)
             b == OfChannel(u, ch)
             n == Len(t)
  <2>1. /\ t \in Seq(Item) /\ a \in Seq(Nat) /\ Len(a) <= n /\ Range(a) = NumbersIn(t)
        /\ e[2] \in Nat
    BY DEF Item
  <2>2. /\ u \in Seq(Item) /\ n \in Nat /\ Len(u) = n + 1
        /\ DOMAIN t = 1..n /\ DOMAIN u = 1..(n + 1)
        /\ \A i \in 1..n : u[i] = t[i]
        /\ u[n + 1] = e
    BY <2>1, AppendProperties
  <2>3. b = IF e[1] = ch THEN Append(a, e[2]) ELSE a
    BY <2>1, OfChannelAppend
  <2> HIDE DEF u, a, b, n
  <2>4. NumbersIn(u) = NumbersIn(t) \cup (IF e[1] = ch THEN {e[2]} ELSE {})
    <3>1. ASSUME NEW x \in NumbersIn(u) PROVE x \in NumbersIn(t) \cup (IF e[1] = ch THEN {e[2]} ELSE {})
      <4>1. PICK i \in 1..(n + 1) : u[i][1] = ch /\ x = u[i][2]
        BY <2>2
      <4>2. CASE i \in 1..n
        BY <2>2, <4>1, <4>2
      <4>3. CASE i = n + 1
        BY <2>2, <4>1, <4>3
      <4> QED BY <2>2, <4>2, <4>3
    <3>2. ASSUME NEW x \in NumbersIn(t) PROVE x \in NumbersIn(u)
      <4>1. PICK i \in 1..n : t[i][1] = ch /\ x = t[i][2]
        BY <2>2
      <4>2. i \in 1..(n + 1) /\ u[i] = t[i]
        BY <2>2
      <4> QED BY <2>2, <4>1, <4>2
    <3>3. e[1] = ch => e[2] \in NumbersIn(u)
      <4>1. n + 1 \in DOMAIN u /\ u[n + 1] = e
        BY <2>2
      <4> QED BY <4>1
    <3> QED BY <3>1, <3>2, <3>3
  <2> HIDE DEF NumbersIn
  <2>5. CASE e[1] # ch
    <3>1. b \in Seq(Nat) /\ Len(b) <= Len(u) /\ Range(b) = NumbersIn(u)
      BY <2>1, <2>2, <2>3, <2>4, <2>5
    <3> QED BY <2>2, <3>1 DEF u, b
  <2>6. CASE e[1] = ch
    <3>1. b \in Seq(Nat) /\ Len(b) = Len(a) + 1
      BY <2>1, <2>3, <2>6, AppendProperties
    <3>2. b = a \o <<e[2]>> /\ <<e[2]>> \in Seq(Nat)
      BY <2>1, <2>3, <2>6, AppendIsConcat
    <3>3. Range(b) = Range(a) \cup Range(<<e[2]>>)
      <4>1. Range(a \o <<e[2]>>) = Range(a) \cup Range(<<e[2]>>)
        <5> DEFINE one == <<e[2]>>
        <5>1. one \in Seq(Nat) /\ a \in Seq(Nat)
          BY <2>1, <3>2
        <5> HIDE DEF one
        <5>2. Range(a \o one) = Range(a) \cup Range(one)
          BY <5>1, ConcatRange
        <5> QED BY <5>2 DEF one
      <4> QED BY <3>2, <4>1
    <3>4. Range(<<e[2]>>) = {e[2]}
      BY DEF Range
    <3>5. Len(b) <= Len(u)
      BY <2>1, <2>2, <3>1
    <3>6. Range(b) = NumbersIn(u)
      BY <2>1, <2>4, <2>6, <3>3, <3>4
    <3> QED BY <2>2, <3>1, <3>5, <3>6 DEF u, b
  <2> QED BY <2>5, <2>6
<1>3. Good = Seq(Item)
  <2> HIDE DEF Good
  <2>1. Good \subseteq Seq(Item)
    BY DEF Good
  <2> QED BY <1>1, <1>2, <2>1, AppendInduction
<1> QED BY <1>3

LEMMA OfChannelConcat ==
  ASSUME NEW a \in Seq(Item), NEW b \in Seq(Item), NEW ch
  PROVE  OfChannel(a \o b, ch) = OfChannel(a, ch) \o OfChannel(b, ch)
<1> DEFINE x == OfChannel(a, ch)
           Good == {t \in Seq(Item) : OfChannel(a \o t, ch) = x \o OfChannel(t, ch)}
<1>0. x \in Seq(Nat)
  BY OfChannelTyped
<1> HIDE DEF x
<1>1. <<>> \in Good
  <2>1. a \o <<>> = a /\ x \o <<>> = x
    BY <1>0, ConcatEmptySeq
  <2>2. OfChannel(a \o <<>>, ch) = x \o OfChannel(<<>>, ch)
    BY <2>1, OfChannelEmpty DEF x
  <2>3. <<>> \in Seq(Item)
    BY EmptySeq
  <2> QED BY <2>2, <2>3
<1>2. ASSUME NEW t \in Good, NEW e \in Item PROVE Append(t, e) \in Good
  <2> DEFINE y == OfChannel(t, ch)
             u == Append(t, e)
             at == a \o t
  <2>1. t \in Seq(Item) /\ at \in Seq(Item) /\ u \in Seq(Item) /\ OfChannel(at, ch) = x \o y
    BY ConcatProperties, AppendProperties
  <2>2. y \in Seq(Nat) /\ e[2] \in Nat
    BY <2>1, OfChannelTyped DEF Item
  <2>3. a \o u = Append(at, e)
    BY <2>1, AppendConcat
  <2>4. OfChannel(u, ch) = IF e[1] = ch THEN Append(y, e[2]) ELSE y
    BY <2>1, OfChannelAppend
  <2> HIDE DEF y, u, at
  <2>5. OfChannel(Append(at, e), ch) =
          IF e[1] = ch THEN Append(OfChannel(at, ch), e[2]) ELSE OfChannel(at, ch)
    BY <2>1, OfChannelAppend
  <2>6. x \o Append(y, e[2]) = Append(x \o y, e[2])
    <3> DEFINE number == e[2]
               N == Nat
    <3>1. number \in N /\ x \in Seq(N) /\ y \in Seq(N)
      BY <1>0, <2>2
    <3> HIDE DEF number, N
    <3>2. x \o Append(y, number) = Append(x \o y, number)
      BY <3>1, AppendConcat
    <3> QED BY <3>2 DEF number
  <2>7. OfChannel(a \o u, ch) = x \o OfChannel(u, ch)
    BY <2>1, <2>3, <2>4, <2>5, <2>6
  <2> QED BY <2>1, <2>7 DEF u
<1>3. Good = Seq(Item)
  <2> HIDE DEF Good
  <2>1. Good \subseteq Seq(Item)
    BY DEF Good
  <2> QED BY <1>1, <1>2, <2>1, AppendInduction
<1> QED BY <1>3 DEF x

LEMMA OfChannelSplit ==
  ASSUME NEW s \in Seq(Item), NEW n \in Nat, NEW ch
  PROVE  /\ OfChannel(s, ch) \in Numbers /\ Len(OfChannel(s, ch)) <= Len(s)
         /\ OfChannel(First(s, n), ch) \in Numbers /\ OfChannel(Rest(s, n), ch) \in Numbers
         /\ Then(OfChannel(First(s, n), ch), OfChannel(Rest(s, n), ch)) = OfChannel(s, ch)
<1> DEFINE a == First(s, n)
           b == Rest(s, n)
<1>0. a \in Seq(Item) /\ b \in Seq(Item) /\ a \o b = s
  BY FirstRest
<1>1. a \in Seq(Item) /\ b \in Seq(Item)
  BY <1>0
<1> HIDE DEF a, b
<1>2. OfChannel(a \o b, ch) = OfChannel(a, ch) \o OfChannel(b, ch)
  BY ONLY <1>1, OfChannelConcat
<1>3. OfChannel(a, ch) \in Seq(Nat) /\ OfChannel(b, ch) \in Seq(Nat)
  BY <1>1, OfChannelTyped
<1>4. OfChannel(s, ch) \in Seq(Nat) /\ Len(OfChannel(s, ch)) <= Len(s)
  BY OfChannelTyped
<1> QED BY <1>0, <1>2, <1>3, <1>4 DEF Numbers, Then, a, b

\* A queue without messages of a channel.
LEMMA OfOthers ==
  ASSUME NEW s \in Seq(Item), NEW ch, \A j \in 1..Len(s) : s[j][1] # ch
  PROVE  OfChannel(s, ch) = <<>>
<1> DEFINE p == OfChannel(s, ch)
<1>1. p \in Seq(Nat) /\ Range(p) = {s[i][2] : i \in {j \in DOMAIN s : s[j][1] = ch}}
  BY OfChannelTyped
<1>2. DOMAIN s = 1..Len(s)
  OBVIOUS
<1>3. Range(p) = {}
  BY <1>1, <1>2
<1> HIDE DEF p
<1>4. ASSUME p # <<>> PROVE FALSE
  <2>1. Len(p) \in Nat \ {0} /\ DOMAIN p = 1..Len(p)
    BY <1>1, <1>4, EmptySeq
  <2>2. p[1] \in Range(p)
    BY <2>1 DEF Range
  <2> QED BY <1>3, <2>2
<1> QED BY <1>4 DEF p
-----------------------------------------------------------------------------
(***************************************************************************)
(* Types, and the bounds of the queues.                                    *)
(***************************************************************************)
TransportTypeOK ==
  /\ load \in Loads
  /\ turn \in [Node -> SUBSET Channel]
  /\ sent \in [Channel -> Nat]
  /\ outgoing \in [Channel -> Numbers] /\ buffer \in [Channel -> Numbers]
  /\ wire \in [Channel -> Numbers] /\ chunk \in [Channel -> Numbers]
  /\ inbox \in [Inbox -> Seq(Item)]
  /\ handled \in [Channel -> Numbers]

\* A loop sends on its own channels, a queue holds messages of the channels that
\* lead to it.
Sorted ==
  /\ \A n \in Node : \A ch \in turn[n] : From(ch) = n
  /\ \A q \in Inbox : \A j \in 1..Len(inbox[q]) : InboxOf(inbox[q][j][1]) = q

Bounded ==
  /\ \A ch \in Channel : /\ From(ch) \in Clients => Len(outgoing[ch]) <= BatchSize
                         /\ Len(buffer[ch]) <= BatchSize /\ Len(chunk[ch]) <= BatchSize
                         /\ Len(wire[ch]) <= WireCapacity
  /\ \A q \in Inbox : Len(inbox[q]) <= BatchSize

QueuesInv == TransportTypeOK /\ Sorted /\ Bounded

LEMMA Sizes ==
  ASSUME load \in Loads
  PROVE  /\ BatchSize \in Nat /\ BatchSize >= 1 /\ WireCapacity \in Nat /\ WireCapacity >= 1
         /\ TooLarge \subseteq PeerChannel \X Nat
BY LoadsAssumption DEF BatchSize, WireCapacity, TooLarge

LEMMA InboxTyped ==
  ASSUME NEW ch \in Channel
  PROVE  /\ InboxOf(ch) \in Inbox /\ InboxOf(ch)[1] = To(ch)
         /\ From(ch) \in Node /\ To(ch) \in Node
<1>1. From(ch) \in Node /\ To(ch) \in Node
  BY NodesAssumption DEF Channel, PeerChannel, ClientChannel, From, To, Node
<1> QED BY <1>1 DEF InboxOf, Inbox, Node

LEMMA NumbersAppend ==
  ASSUME NEW s \in Numbers, NEW n \in Nat
  PROVE  Append(s, n) \in Numbers /\ Len(Append(s, n)) = Len(s) + 1
BY AppendProperties DEF Numbers

LEMMA NumbersLen ==
  ASSUME NEW s \in Numbers
  PROVE  Len(s) \in Nat /\ DOMAIN s = 1..Len(s) /\ \A i \in 1..Len(s) : s[i] \in Nat
BY LenProperties DEF Numbers

LEMMA NumbersTail ==
  ASSUME NEW s \in Numbers, s # <<>>
  PROVE  Head(s) \in Nat /\ Tail(s) \in Numbers /\ Len(Tail(s)) = Len(s) - 1
BY HeadTailProperties DEF Numbers

LEMMA NumbersFirst ==
  ASSUME NEW s \in Numbers, NEW n \in Nat
  PROVE  /\ First(s, n) \in Numbers /\ Rest(s, n) \in Numbers
         /\ Len(First(s, n)) = Smaller(n, Len(s))
         /\ Len(Rest(s, n)) = Len(s) - Smaller(n, Len(s))
BY FirstRest DEF Numbers

LEMMA QueuesInit == TransportInit => QueuesInv
<1> SUFFICES ASSUME TransportInit PROVE QueuesInv
  OBVIOUS
<1>1. <<>> \in Numbers /\ <<>> \in Seq(Item) /\ Len(<<>>) = 0
  BY EmptySeq DEF Numbers
<1>2. TransportTypeOK
  BY <1>1 DEF TransportInit, TransportTypeOK, Empty
<1>3. Sorted
  BY <1>1 DEF TransportInit, Sorted
<1>4. Bounded
  BY <1>1, <1>2, Sizes DEF TransportInit, TransportTypeOK, Bounded, Empty
<1> QED BY <1>2, <1>3, <1>4 DEF QueuesInv

LEMMA TimerQueues == ASSUME QueuesInv, NEW n \in Node, TimerFires(n) PROVE QueuesInv'
<1>1. PICK channels \in SUBSET ChannelsFrom(n) : turn' = [turn EXCEPT ![n] = channels]
  BY DEF TimerFires
<1>2. UNCHANGED <<load, sent, handled, outgoing, buffer, wire, chunk, inbox>>
  BY DEF TimerFires
<1>3. channels \subseteq Channel /\ \A ch \in channels : From(ch) = n
  BY DEF ChannelsFrom
<1>4. TransportTypeOK'
  BY <1>1, <1>2, <1>3 DEF QueuesInv, TransportTypeOK
<1>5. Sorted'
  BY <1>1, <1>2, <1>3 DEF QueuesInv, TransportTypeOK, Sorted
<1>6. Bounded'
  BY <1>2 DEF QueuesInv, Bounded, BatchSize, WireCapacity
<1> QED BY <1>4, <1>5, <1>6 DEF QueuesInv

LEMMA SendQueues == ASSUME QueuesInv, NEW n \in Node, Send(n) PROVE QueuesInv'
<1>1. PICK ch \in turn[n] :
        /\ HasRoom(ch)
        /\ turn' = [turn EXCEPT ![n] = @ \ {ch}]
        /\ sent' = [sent EXCEPT ![ch] = @ + 1]
        /\ outgoing' = [outgoing EXCEPT ![ch] = Append(@, sent[ch] + 1)]
        /\ UNCHANGED <<load, handled, buffer, wire, chunk, inbox>>
  BY DEF Send
<1>2. ch \in Channel /\ turn[n] \subseteq Channel
  BY DEF QueuesInv, TransportTypeOK
<1>3. sent[ch] \in Nat /\ sent[ch] + 1 \in Nat /\ outgoing[ch] \in Numbers
  BY <1>2 DEF QueuesInv, TransportTypeOK
<1>4. Append(outgoing[ch], sent[ch] + 1) \in Numbers
      /\ Len(Append(outgoing[ch], sent[ch] + 1)) = Len(outgoing[ch]) + 1 /\ Len(outgoing[ch]) \in Nat
  BY <1>3, NumbersAppend, NumbersLen
<1>5. TransportTypeOK'
  BY <1>1, <1>2, <1>3, <1>4 DEF QueuesInv, TransportTypeOK
<1>6. Sorted'
  BY <1>1, <1>2 DEF QueuesInv, TransportTypeOK, Sorted
<1>7. BatchSize \in Nat
  BY Sizes DEF QueuesInv, TransportTypeOK
<1>8. ASSUME NEW c \in Channel, From(c) \in Clients PROVE Len(outgoing'[c]) <= BatchSize
  <2>1. CASE c = ch
    <3>1. Len(outgoing[ch]) < BatchSize
      BY <1>1, <1>8, <2>1 DEF HasRoom
    <3>2. outgoing'[c] = Append(outgoing[ch], sent[ch] + 1)
      BY <1>1, <1>2, <2>1 DEF QueuesInv, TransportTypeOK
    <3> QED BY <1>4, <1>7, <3>1, <3>2
  <2>2. CASE c # ch
    <3>1. outgoing'[c] = outgoing[c]
      BY <1>1, <2>2 DEF QueuesInv, TransportTypeOK
    <3> QED BY <1>8, <3>1 DEF QueuesInv, Bounded
  <2> QED BY <2>1, <2>2
<1>9. Bounded'
  BY <1>1, <1>8 DEF QueuesInv, Bounded, BatchSize, WireCapacity
<1> QED BY <1>5, <1>6, <1>9 DEF QueuesInv

LEMMA WriterReceivesQueues ==
  ASSUME QueuesInv, NEW ch \in Channel, WriterReceives(ch) PROVE QueuesInv'
<1> DEFINE k == WriterTakes(ch)
<1>1. /\ buffer' = [buffer EXCEPT ![ch] = First(outgoing[ch], k)]
      /\ outgoing' = [outgoing EXCEPT ![ch] = Rest(@, k)]
      /\ UNCHANGED <<loopVars, wire, chunk, inbox>>
  BY DEF WriterReceives
<1>2. outgoing[ch] \in Numbers /\ Len(outgoing[ch]) \in Nat /\ BatchSize \in Nat
  BY NumbersLen, Sizes DEF QueuesInv, TransportTypeOK
<1>3. k \in Nat /\ k <= BatchSize /\ k <= Len(outgoing[ch])
  BY <1>2 DEF WriterTakes, Smaller
<1> HIDE DEF k
<1>4. /\ First(outgoing[ch], k) \in Numbers /\ Rest(outgoing[ch], k) \in Numbers
      /\ Len(First(outgoing[ch], k)) = k /\ Len(Rest(outgoing[ch], k)) = Len(outgoing[ch]) - k
  <2>1. Smaller(k, Len(outgoing[ch])) = k
    BY <1>2, <1>3 DEF Smaller
  <2> QED BY <1>2, <1>3, <2>1, NumbersFirst
<1>5. TransportTypeOK'
  BY <1>1, <1>4 DEF QueuesInv, TransportTypeOK, loopVars
<1>6. Sorted'
  BY <1>1 DEF QueuesInv, Sorted, loopVars
<1>7. \A c \in Channel : /\ Len(buffer'[c]) <= BatchSize
                         /\ From(c) \in Clients => Len(outgoing'[c]) <= BatchSize
  <2> SUFFICES ASSUME NEW c \in Channel
               PROVE  /\ Len(buffer'[c]) <= BatchSize
                      /\ From(c) \in Clients => Len(outgoing'[c]) <= BatchSize
    OBVIOUS
  <2>1. CASE c = ch
    <3>1. buffer'[c] = First(outgoing[ch], k) /\ outgoing'[c] = Rest(outgoing[ch], k)
      BY <1>1, <2>1 DEF QueuesInv, TransportTypeOK
    <3>2. From(ch) \in Clients => Len(outgoing[ch]) <= BatchSize
      BY DEF QueuesInv, Bounded
    <3> QED BY <1>2, <1>3, <1>4, <2>1, <3>1, <3>2
  <2>2. CASE c # ch
    <3>1. buffer'[c] = buffer[c] /\ outgoing'[c] = outgoing[c]
      BY <1>1, <2>2 DEF QueuesInv, TransportTypeOK
    <3> QED BY <3>1 DEF QueuesInv, Bounded
  <2> QED BY <2>1, <2>2
<1>8. Bounded'
  BY <1>1, <1>7 DEF QueuesInv, Bounded, BatchSize, WireCapacity, loopVars
<1> QED BY <1>5, <1>6, <1>8 DEF QueuesInv

LEMMA WriterFeedsQueues ==
  ASSUME QueuesInv, NEW ch \in Channel, WriterFeeds(ch) PROVE QueuesInv'
<1>1. /\ buffer[ch] # <<>> /\ Len(wire[ch]) < WireCapacity
      /\ wire' = [wire EXCEPT ![ch] = Append(@, Head(buffer[ch]))]
      /\ buffer' = [buffer EXCEPT ![ch] = Tail(@)]
      /\ UNCHANGED <<loopVars, outgoing, chunk, inbox>>
  BY DEF WriterFeeds
<1>2. buffer[ch] \in Numbers /\ wire[ch] \in Numbers /\ BatchSize \in Nat /\ WireCapacity \in Nat
  BY Sizes DEF QueuesInv, TransportTypeOK
<1>3. /\ Head(buffer[ch]) \in Nat /\ Tail(buffer[ch]) \in Numbers
      /\ Len(Tail(buffer[ch])) = Len(buffer[ch]) - 1 /\ Len(buffer[ch]) \in Nat
  BY <1>1, <1>2, NumbersTail, NumbersLen
<1>4. /\ Append(wire[ch], Head(buffer[ch])) \in Numbers
      /\ Len(Append(wire[ch], Head(buffer[ch]))) = Len(wire[ch]) + 1 /\ Len(wire[ch]) \in Nat
  BY <1>2, <1>3, NumbersAppend, NumbersLen
<1>5. TransportTypeOK'
  BY <1>1, <1>3, <1>4 DEF QueuesInv, TransportTypeOK, loopVars
<1>6. Sorted'
  BY <1>1 DEF QueuesInv, Sorted, loopVars
<1>7. \A c \in Channel : Len(buffer'[c]) <= BatchSize /\ Len(wire'[c]) <= WireCapacity
  <2> SUFFICES ASSUME NEW c \in Channel
               PROVE  Len(buffer'[c]) <= BatchSize /\ Len(wire'[c]) <= WireCapacity
    OBVIOUS
  <2>1. CASE c = ch
    <3>1. buffer'[c] = Tail(buffer[ch]) /\ wire'[c] = Append(wire[ch], Head(buffer[ch]))
      BY <1>1, <2>1 DEF QueuesInv, TransportTypeOK
    <3>2. Len(buffer[ch]) <= BatchSize
      BY DEF QueuesInv, Bounded
    <3>3. Len(buffer'[c]) <= BatchSize
      BY <1>2, <1>3, <3>1, <3>2
    <3>4. Len(wire'[c]) <= WireCapacity
      BY <1>1, <1>2, <1>4, <3>1
    <3> QED BY <3>3, <3>4
  <2>2. CASE c # ch
    <3>1. buffer'[c] = buffer[c] /\ wire'[c] = wire[c]
      BY <1>1, <2>2 DEF QueuesInv, TransportTypeOK
    <3> QED BY <3>1 DEF QueuesInv, Bounded
  <2> QED BY <2>1, <2>2
<1>8. Bounded'
  BY <1>1, <1>7 DEF QueuesInv, Bounded, BatchSize, WireCapacity, loopVars
<1> QED BY <1>5, <1>6, <1>8 DEF QueuesInv

LEMMA WriterSkipsQueues ==
  ASSUME QueuesInv, NEW ch \in Channel, WriterSkips(ch) PROVE QueuesInv'
<1>1. buffer' = [buffer EXCEPT ![ch] = <<>>] /\ UNCHANGED <<loopVars, outgoing, wire, chunk, inbox>>
  BY DEF WriterSkips
<1>2. <<>> \in Numbers /\ Len(<<>>) = 0 /\ BatchSize \in Nat
  BY EmptySeq, Sizes DEF Numbers, QueuesInv, TransportTypeOK
<1>3. TransportTypeOK'
  BY <1>1, <1>2 DEF QueuesInv, TransportTypeOK, loopVars
<1>4. Sorted'
  BY <1>1 DEF QueuesInv, Sorted, loopVars
<1>5. ASSUME NEW c \in Channel PROVE Len(buffer'[c]) <= BatchSize
  <2>1. CASE c = ch
    BY <1>1, <1>2, <2>1 DEF QueuesInv, TransportTypeOK
  <2>2. CASE c # ch
    BY <1>1, <2>2 DEF QueuesInv, TransportTypeOK, Bounded
  <2> QED BY <2>1, <2>2
<1>6. Bounded'
  BY <1>1, <1>5 DEF QueuesInv, Bounded, BatchSize, WireCapacity, loopVars
<1> QED BY <1>3, <1>4, <1>6 DEF QueuesInv

LEMMA ReaderReceivesQueues ==
  ASSUME QueuesInv, NEW ch \in Channel, ReaderReceives(ch) PROVE QueuesInv'
<1>1. PICK k \in ReadyChunks(ch) : /\ chunk' = [chunk EXCEPT ![ch] = First(wire[ch], k)]
                                   /\ wire' = [wire EXCEPT ![ch] = Rest(@, k)]
  BY DEF ReaderReceives
<1>2. UNCHANGED <<loopVars, outgoing, buffer, inbox>>
  BY DEF ReaderReceives
<1>3. wire[ch] \in Numbers /\ Len(wire[ch]) \in Nat /\ BatchSize \in Nat /\ WireCapacity \in Nat
  BY NumbersLen, Sizes DEF QueuesInv, TransportTypeOK
<1>4. k \in Nat /\ k <= BatchSize /\ k <= Len(wire[ch])
  BY <1>3 DEF ReadyChunks, Smaller
<1>5. /\ First(wire[ch], k) \in Numbers /\ Rest(wire[ch], k) \in Numbers
      /\ Len(First(wire[ch], k)) = k /\ Len(Rest(wire[ch], k)) = Len(wire[ch]) - k
  <2>1. Smaller(k, Len(wire[ch])) = k
    BY <1>3, <1>4 DEF Smaller
  <2> QED BY <1>3, <1>4, <2>1, NumbersFirst
<1>6. TransportTypeOK'
  BY <1>1, <1>2, <1>5 DEF QueuesInv, TransportTypeOK, loopVars
<1>7. Sorted'
  BY <1>2 DEF QueuesInv, Sorted, loopVars
<1>8. \A c \in Channel : Len(chunk'[c]) <= BatchSize /\ Len(wire'[c]) <= WireCapacity
  <2> SUFFICES ASSUME NEW c \in Channel
               PROVE  Len(chunk'[c]) <= BatchSize /\ Len(wire'[c]) <= WireCapacity
    OBVIOUS
  <2>1. CASE c = ch
    <3>1. chunk'[c] = First(wire[ch], k) /\ wire'[c] = Rest(wire[ch], k)
      BY <1>1, <2>1 DEF QueuesInv, TransportTypeOK
    <3>2. Len(wire[ch]) <= WireCapacity
      BY DEF QueuesInv, Bounded
    <3> QED BY <1>3, <1>4, <1>5, <3>1, <3>2
  <2>2. CASE c # ch
    <3>1. chunk'[c] = chunk[c] /\ wire'[c] = wire[c]
      BY <1>1, <2>2 DEF QueuesInv, TransportTypeOK
    <3> QED BY <3>1 DEF QueuesInv, Bounded
  <2> QED BY <2>1, <2>2
<1>9. Bounded'
  BY <1>2, <1>8 DEF QueuesInv, Bounded, BatchSize, WireCapacity, loopVars
<1> QED BY <1>6, <1>7, <1>9 DEF QueuesInv

LEMMA ReaderForwardsQueues ==
  ASSUME QueuesInv, NEW ch \in Channel, ReaderForwards(ch) PROVE QueuesInv'
<1> DEFINE q == InboxOf(ch)
           item == <<ch, Head(chunk[ch])>>
<1>1. /\ chunk[ch] # <<>> /\ Len(inbox[q]) < BatchSize
      /\ inbox' = [inbox EXCEPT ![q] = Append(@, item)]
      /\ chunk' = [chunk EXCEPT ![ch] = Tail(@)]
      /\ UNCHANGED <<loopVars, outgoing, buffer, wire>>
  BY DEF ReaderForwards, PassesOn
<1>2. q \in Inbox /\ chunk[ch] \in Numbers /\ inbox[q] \in Seq(Item) /\ BatchSize \in Nat
  BY InboxTyped, Sizes DEF QueuesInv, TransportTypeOK
<1>3. /\ Head(chunk[ch]) \in Nat /\ Tail(chunk[ch]) \in Numbers
      /\ Len(Tail(chunk[ch])) = Len(chunk[ch]) - 1 /\ Len(chunk[ch]) \in Nat
  BY <1>1, <1>2, NumbersTail, NumbersLen
<1>4. item \in Item /\ item[1] = ch
  BY <1>3 DEF Item
<1> HIDE DEF item
<1>5. /\ Append(inbox[q], item) \in Seq(Item) /\ Len(inbox[q]) \in Nat
      /\ Len(Append(inbox[q], item)) = Len(inbox[q]) + 1
      /\ \A j \in 1..Len(inbox[q]) : Append(inbox[q], item)[j] = inbox[q][j]
      /\ Append(inbox[q], item)[Len(inbox[q]) + 1] = item
  BY <1>2, <1>4, AppendProperties
<1>6. TransportTypeOK'
  BY <1>1, <1>3, <1>5 DEF QueuesInv, TransportTypeOK, loopVars
<1>7. ASSUME NEW r \in Inbox
      PROVE  Len(inbox'[r]) <= BatchSize /\ \A j \in 1..Len(inbox'[r]) : InboxOf(inbox'[r][j][1]) = r
  <2>1. Len(inbox[r]) <= BatchSize /\ \A j \in 1..Len(inbox[r]) : InboxOf(inbox[r][j][1]) = r
    BY DEF QueuesInv, Sorted, Bounded
  <2>2. CASE r = q
    <3>1. inbox'[r] = Append(inbox[q], item)
      BY <1>1, <1>2, <2>2 DEF QueuesInv, TransportTypeOK
    <3>2. ASSUME NEW j \in 1..(Len(inbox[q]) + 1) PROVE InboxOf(inbox'[r][j][1]) = r
      <4>1. CASE j \in 1..Len(inbox[q])
        BY <1>5, <2>1, <2>2, <3>1, <4>1
      <4>2. CASE j = Len(inbox[q]) + 1
        BY <1>4, <1>5, <2>2, <3>1, <4>2
      <4>3. j \in 1..Len(inbox[q]) \/ j = Len(inbox[q]) + 1
        BY <1>5
      <4> QED BY <4>1, <4>2, <4>3
    <3>3. Len(inbox'[r]) = Len(inbox[q]) + 1
      BY <1>5, <3>1
    <3> QED BY <1>1, <1>2, <1>5, <3>2, <3>3
  <2>3. CASE r # q
    <3>1. inbox'[r] = inbox[r]
      BY <1>1, <2>3 DEF QueuesInv, TransportTypeOK
    <3> QED BY <2>1, <3>1
  <2> QED BY <2>2, <2>3
<1>8. Sorted'
  BY <1>1, <1>7 DEF QueuesInv, Sorted, loopVars
<1>9. ASSUME NEW c \in Channel PROVE Len(chunk'[c]) <= BatchSize
  <2>1. Len(chunk[c]) <= BatchSize
    BY DEF QueuesInv, Bounded
  <2>2. CASE c = ch
    <3>1. chunk'[c] = Tail(chunk[ch])
      BY <1>1, <2>2 DEF QueuesInv, TransportTypeOK
    <3> QED BY <1>2, <1>3, <2>1, <2>2, <3>1
  <2>3. CASE c # ch
    <3>1. chunk'[c] = chunk[c]
      BY <1>1, <2>3 DEF QueuesInv, TransportTypeOK
    <3> QED BY <2>1, <3>1
  <2> QED BY <2>2, <2>3
<1>10. Bounded'
  BY <1>1, <1>7, <1>9 DEF QueuesInv, Bounded, BatchSize, WireCapacity, loopVars
<1> QED BY <1>6, <1>8, <1>10 DEF QueuesInv

\* How much a loop takes.
BatchOf(q) == IF q[1] \in Clients THEN 1 ELSE BatchSize

LEMMA TakeQueues == ASSUME QueuesInv, NEW q \in Inbox, Take(q) PROVE QueuesInv'
<1> DEFINE n == q[1]
           size == BatchOf(q)
<1>1. /\ inbox' = [inbox EXCEPT ![q] = Rest(@, size)]
      /\ handled' = [ch \in Channel |-> handled[ch] \o OfChannel(First(inbox[q], size), ch)]
      /\ UNCHANGED <<load, sent, outgoing, buffer, wire, chunk>>
      /\ \E channels \in SUBSET ChannelsFrom(n) : turn' = [turn EXCEPT ![n] = channels]
  BY DEF Take, BatchOf
<1>2. PICK channels \in SUBSET ChannelsFrom(n) : turn' = [turn EXCEPT ![n] = channels]
  BY <1>1
<1>3. n \in Node /\ size \in Nat /\ inbox[q] \in Seq(Item) /\ BatchSize \in Nat
  BY Sizes DEF QueuesInv, TransportTypeOK, Inbox, Node, BatchOf
<1> HIDE DEF size
<1>4. /\ Rest(inbox[q], size) \in Seq(Item) /\ First(inbox[q], size) \in Seq(Item)
      /\ Len(Rest(inbox[q], size)) = Len(inbox[q]) - Smaller(size, Len(inbox[q]))
      /\ \A j \in 1..Len(Rest(inbox[q], size)) :
           Rest(inbox[q], size)[j] = inbox[q][Smaller(size, Len(inbox[q])) + j]
  BY <1>3, FirstRest
<1>5. Smaller(size, Len(inbox[q])) \in Nat /\ Len(inbox[q]) \in Nat
      /\ Smaller(size, Len(inbox[q])) <= Len(inbox[q])
  BY <1>3 DEF Smaller
<1>6. \A ch \in Channel : handled'[ch] \in Numbers
  <2> SUFFICES ASSUME NEW ch \in Channel PROVE handled'[ch] \in Numbers
    OBVIOUS
  <2>1. OfChannel(First(inbox[q], size), ch) \in Numbers /\ handled[ch] \in Numbers
    BY <1>4, OfChannelTyped DEF Numbers, QueuesInv, TransportTypeOK
  <2>2. handled'[ch] = Then(handled[ch], OfChannel(First(inbox[q], size), ch))
    BY <1>1 DEF Then
  <2> QED BY <2>1, <2>2, ThenTyped
<1>7. channels \subseteq Channel /\ \A ch \in channels : From(ch) = n
  BY DEF ChannelsFrom
<1>8. handled' \in [Channel -> Numbers]
  BY <1>1, <1>6
<1>9. TransportTypeOK'
  BY <1>1, <1>2, <1>3, <1>4, <1>7, <1>8 DEF QueuesInv, TransportTypeOK
<1>10. ASSUME NEW r \in Inbox
       PROVE  Len(inbox'[r]) <= BatchSize /\ \A j \in 1..Len(inbox'[r]) : InboxOf(inbox'[r][j][1]) = r
  <2>1. Len(inbox[r]) <= BatchSize /\ \A j \in 1..Len(inbox[r]) : InboxOf(inbox[r][j][1]) = r
    BY DEF QueuesInv, Sorted, Bounded
  <2>2. CASE r = q
    <3>1. inbox'[r] = Rest(inbox[q], size)
      BY <1>1, <2>2 DEF QueuesInv, TransportTypeOK
    <3>2. ASSUME NEW j \in 1..Len(Rest(inbox[q], size)) PROVE InboxOf(inbox'[r][j][1]) = r
      <4>1. Smaller(size, Len(inbox[q])) + j \in 1..Len(inbox[q])
        BY <1>4, <1>5
      <4>2. inbox'[r][j] = inbox[q][Smaller(size, Len(inbox[q])) + j]
        BY <1>4, <3>1
      <4> QED BY <2>1, <2>2, <4>1, <4>2
    <3> QED BY <1>3, <1>4, <1>5, <2>1, <2>2, <3>1, <3>2
  <2>3. CASE r # q
    <3>1. inbox'[r] = inbox[r]
      BY <1>1, <2>3 DEF QueuesInv, TransportTypeOK
    <3> QED BY <2>1, <3>1
  <2> QED BY <2>2, <2>3
<1>11. Sorted'
  <2>1. ASSUME NEW m \in Node, NEW ch \in turn'[m] PROVE From(ch) = m
    <3>1. CASE m = n
      BY <1>2, <1>3, <1>7, <2>1, <3>1 DEF QueuesInv, TransportTypeOK
    <3>2. CASE m # n
      BY <1>2, <2>1, <3>2 DEF QueuesInv, TransportTypeOK, Sorted
    <3> QED BY <3>1, <3>2
  <2> QED BY <1>10, <2>1 DEF Sorted
<1>12. Bounded'
  BY <1>1, <1>10 DEF QueuesInv, Bounded, BatchSize, WireCapacity
<1> QED BY <1>9, <1>11, <1>12 DEF QueuesInv

LEMMA StillQueues == ASSUME QueuesInv, UNCHANGED transportVars PROVE QueuesInv'
<1>1. TransportTypeOK'
  BY DEF QueuesInv, TransportTypeOK, transportVars, loopVars
<1>2. Sorted'
  BY DEF QueuesInv, Sorted, transportVars, loopVars
<1>3. Bounded'
  BY DEF QueuesInv, Bounded, BatchSize, WireCapacity, transportVars, loopVars
<1> QED BY <1>1, <1>2, <1>3 DEF QueuesInv

\* QueuesInv is inductive.
LEMMA QueuesStep == QueuesInv /\ [TransportNext]_transportVars => QueuesInv'
BY TimerQueues, SendQueues, WriterReceivesQueues, WriterFeedsQueues, WriterSkipsQueues,
   ReaderReceivesQueues, ReaderForwardsQueues, TakeQueues, StillQueues
   DEF TransportNext, TaskSteps
-----------------------------------------------------------------------------
(***************************************************************************)
(* Numbers on their way, seen as one sequence: what adding the next one    *)
(* and dropping some of them leave true.                                   *)
(***************************************************************************)
LEMMA ThenAt ==
  ASSUME NEW a \in Numbers, NEW b \in Numbers
  PROVE  /\ Len(Then(a, b)) = Len(a) + Len(b)
         /\ \A i \in 1..Len(a) : Then(a, b)[i] = a[i]
         /\ \A i \in 1..Len(b) : Then(a, b)[Len(a) + i] = b[i]
<1>1. /\ Len(a \o b) = Len(a) + Len(b) /\ Len(a) \in Nat /\ Len(b) \in Nat
      /\ \A i \in 1..(Len(a) + Len(b)) : (a \o b)[i] = IF i <= Len(a) THEN a[i] ELSE b[i - Len(a)]
  BY ConcatProperties, LenProperties DEF Numbers
<1>2. ASSUME NEW i \in 1..Len(a) PROVE (a \o b)[i] = a[i]
  BY <1>1
<1>3. ASSUME NEW i \in 1..Len(b) PROVE (a \o b)[Len(a) + i] = b[i]
  <2>1. Len(a) + i \in 1..(Len(a) + Len(b)) /\ ~ (Len(a) + i <= Len(a)) /\ (Len(a) + i) - Len(a) = i
    BY <1>1
  <2> QED BY <1>1, <2>1
<1> QED BY <1>1, <1>2, <1>3 DEF Then

LEMMA ThenAppend ==
  ASSUME NEW a \in Numbers, NEW b \in Numbers, NEW n \in Nat
  PROVE  Then(a, Append(b, n)) = Append(Then(a, b), n)
<1> DEFINE N == Nat
<1>1. a \in Seq(N) /\ b \in Seq(N) /\ n \in N
  BY DEF Numbers
<1> HIDE DEF N
<1>2. a \o Append(b, n) = Append(a \o b, n)
  BY ONLY <1>1, AppendConcat
<1> QED BY <1>2 DEF Then

LEMMA ThenRange ==
  ASSUME NEW a \in Numbers, NEW b \in Numbers
  PROVE  Range(Then(a, b)) = Range(a) \cup Range(b)
BY ConcatRange DEF Numbers, Then

Rising(p, top) ==
  /\ \A i \in 1..Len(p) : 1 <= p[i] /\ p[i] <= top
  /\ \A i, j \in 1..Len(p) : i < j => p[i] < p[j]
InTurn(p, top) == Len(p) = top /\ \A i \in 1..Len(p) : p[i] = i
Latest(p, top) == \A i \in 1..Len(p) : p[i] = top - Len(p) + i
Covered(p, top, missing) == 1..top \subseteq Range(p) \cup missing

LEMMA NextNumber ==
  ASSUME NEW p \in Numbers, NEW top \in Nat, NEW missing
  PROVE  LET q == Append(p, top + 1) IN
         /\ Rising(p, top) => Rising(q, top + 1)
         /\ InTurn(p, top) => InTurn(q, top + 1)
         /\ Latest(p, top) => Latest(q, top + 1)
         /\ Covered(p, top, missing) => Covered(q, top + 1, missing)
<1> DEFINE q == Append(p, top + 1)
           l == Len(p)
<1>1. /\ l \in Nat /\ Len(q) = l + 1 /\ DOMAIN p = 1..l /\ DOMAIN q = 1..(l + 1)
      /\ \A i \in 1..l : p[i] \in Nat /\ q[i] = p[i]
      /\ q[l + 1] = top + 1
  <2>1. p \in Seq(Nat) /\ top + 1 \in Nat
    BY DEF Numbers
  <2>2. /\ q \in Seq(Nat) /\ Len(q) = Len(p) + 1 /\ q[Len(p) + 1] = top + 1
        /\ \A i \in 1..Len(p) : q[i] = p[i]
    BY <2>1, AppendProperties
  <2> QED BY <2>1, <2>2
<1> HIDE DEF q, l
<1>2. \A i \in 1..(l + 1) : i \in 1..l \/ i = l + 1
  BY <1>1
<1>3. Len(p) = l
  BY DEF l
<1>4. ASSUME Rising(p, top) PROVE Rising(q, top + 1)
  <2>1. (\A i \in 1..l : 1 <= p[i] /\ p[i] <= top) /\ \A i, j \in 1..l : i < j => p[i] < p[j]
    BY <1>3, <1>4 DEF Rising
  <2>2. ASSUME NEW i \in 1..(l + 1) PROVE 1 <= q[i] /\ q[i] <= top + 1
    BY <1>1, <1>2, <2>1
  <2>3. ASSUME NEW i \in 1..(l + 1), NEW j \in 1..(l + 1), i < j PROVE q[i] < q[j]
    <3>1. i \in 1..l
      BY <1>1, <2>3
    <3>2. CASE j \in 1..l
      BY <1>1, <2>1, <2>3, <3>1, <3>2
    <3>3. CASE j = l + 1
      BY <1>1, <2>1, <3>1, <3>3
    <3> QED BY <1>2, <3>2, <3>3
  <2> QED BY <1>1, <2>2, <2>3 DEF Rising
<1>5. ASSUME InTurn(p, top) PROVE InTurn(q, top + 1)
  BY <1>1, <1>2, <1>3, <1>5 DEF InTurn
<1>6. ASSUME Latest(p, top) PROVE Latest(q, top + 1)
  BY <1>1, <1>2, <1>3, <1>6 DEF Latest
<1>7. ASSUME Covered(p, top, missing) PROVE Covered(q, top + 1, missing)
  <2>1. Range(p) \subseteq Range(q) /\ top + 1 \in Range(q)
    BY <1>1 DEF Range
  <2>2. \A n \in 1..(top + 1) : n \in 1..top \/ n = top + 1
    OBVIOUS
  <2> QED BY <1>7, <2>1, <2>2 DEF Covered
<1> QED BY <1>4, <1>5, <1>6, <1>7 DEF q

LEMMA RisingDropped ==
  ASSUME NEW a \in Numbers, NEW b \in Numbers, NEW c \in Numbers, NEW top \in Nat,
         Rising(Then(a, Then(b, c)), top)
  PROVE  Rising(Then(a, c), top)
<1> DEFINE bc == Then(b, c)
           p == Then(a, bc)
           r == Then(a, c)
           at(i) == IF i <= Len(a) THEN i ELSE i + Len(b)
<1>1. Len(a) \in Nat /\ Len(b) \in Nat /\ Len(c) \in Nat
  BY NumbersLen
<1>2. bc \in Numbers /\ Len(bc) = Len(b) + Len(c) /\ \A j \in 1..Len(c) : bc[Len(b) + j] = c[j]
  BY ThenAt, ThenTyped
<1>3. Rising(p, top)
  OBVIOUS
<1> HIDE DEF bc
<1>4. Len(p) = Len(a) + Len(bc) /\ Len(r) = Len(a) + Len(c)
  BY <1>2, ThenAt
<1>5. ASSUME NEW i \in 1..Len(r) PROVE at(i) \in 1..Len(p) /\ r[i] = p[at(i)]
  <2>1. CASE i <= Len(a)
    <3>1. i \in 1..Len(a)
      BY <2>1
    <3>2. r[i] = a[i] /\ p[i] = a[i]
      BY <1>2, <3>1, ThenAt
    <3> QED BY <1>1, <1>2, <1>4, <2>1, <3>1, <3>2
  <2>2. CASE ~ (i <= Len(a))
    <3> DEFINE j == i - Len(a)
    <3>1. j \in 1..Len(c) /\ Len(a) + j = i /\ Len(b) + j \in 1..Len(bc)
          /\ Len(a) + (Len(b) + j) = i + Len(b)
      BY <1>1, <1>2, <1>4, <2>2
    <3> HIDE DEF j
    <3>2. r[Len(a) + j] = c[j]
      BY <3>1, ThenAt
    <3>3. p[Len(a) + (Len(b) + j)] = bc[Len(b) + j]
      BY <1>2, <3>1, ThenAt
    <3> HIDE DEF p, r
    <3> QED BY <1>1, <1>2, <1>4, <2>2, <3>1, <3>2, <3>3
  <2> QED BY <2>1, <2>2
<1>6. \A i, j \in 1..Len(r) : i < j => at(i) < at(j)
  BY <1>1, <1>4
<1> HIDE DEF p, r, at
<1> QED BY <1>3, <1>5, <1>6 DEF Rising, r

\* What is left of the latest numbers when the first ones are taken away, and
\* what those are.
LEMMA LatestAfter ==
  ASSUME NEW a \in Numbers, NEW b \in Numbers, NEW top \in Nat, Latest(Then(a, b), top)
  PROVE  /\ Latest(b, top)
         /\ \A i \in 1..Len(a) : a[i] = a[1] + (i - 1)
<1> DEFINE p == Then(a, b)
<1>1. /\ Len(a) \in Nat /\ Len(b) \in Nat /\ Len(p) = Len(a) + Len(b)
      /\ \A i \in 1..Len(a) : p[i] = a[i]
      /\ \A i \in 1..Len(b) : p[Len(a) + i] = b[i]
  BY NumbersLen, ThenAt
<1> HIDE DEF p
<1>2. \A i \in 1..Len(p) : p[i] = top - Len(p) + i
  BY DEF Latest, p
<1>3. ASSUME NEW i \in 1..Len(b) PROVE b[i] = top - Len(b) + i
  <2>1. Len(a) + i \in 1..Len(p)
    BY <1>1
  <2>2. p[Len(a) + i] = top - Len(p) + (Len(a) + i)
    BY <1>2, <2>1
  <2> QED BY <1>1, <2>2
<1>4. ASSUME NEW i \in 1..Len(a) PROVE a[i] = a[1] + (i - 1)
  <2>1. 1 \in 1..Len(a) /\ 1 \in 1..Len(p) /\ i \in 1..Len(p)
    BY <1>1
  <2>2. a[1] = top - Len(p) + 1 /\ a[i] = top - Len(p) + i
    BY <1>1, <1>2, <2>1
  <2> QED BY <1>1, <2>2
<1> QED BY <1>3, <1>4 DEF Latest
-----------------------------------------------------------------------------
(***************************************************************************)
(* The inductive invariant: a channel, from what is handled back to what   *)
(* was sent last, is one rising sequence; what it lacks was dropped behind *)
(* a message too large; the part before the socket has no gap.             *)
(***************************************************************************)
Incoming(ch) == OfChannel(inbox[InboxOf(ch)], ch)
Behind(ch) == Then(buffer[ch], outgoing[ch])
Pipe(ch) == Then(handled[ch], Then(Incoming(ch), Then(chunk[ch], Then(wire[ch], Behind(ch)))))
Front(ch) == Then(handled[ch], Then(Incoming(ch), Then(chunk[ch], wire[ch])))

Lossy(ch) == ch \in {m[1] : m \in TooLarge}
MayLack(ch) == {n \in Nat : \E k \in 0..(BatchSize - 1) : <<ch, n - k>> \in TooLarge}

PipeInv ==
  \A ch \in Channel :
    /\ Rising(Pipe(ch), sent[ch])
    /\ ~ Lossy(ch) => InTurn(Pipe(ch), sent[ch])
    /\ Covered(Pipe(ch), sent[ch], MayLack(ch))
    /\ Latest(Behind(ch), sent[ch])

TransportInv == QueuesInv /\ PipeInv

LEMMA PartsTyped ==
  ASSUME QueuesInv, NEW ch \in Channel
  PROVE  /\ handled[ch] \in Numbers /\ Incoming(ch) \in Numbers /\ chunk[ch] \in Numbers
         /\ wire[ch] \in Numbers /\ buffer[ch] \in Numbers /\ outgoing[ch] \in Numbers
         /\ Behind(ch) \in Numbers /\ Front(ch) \in Numbers /\ Pipe(ch) \in Numbers
         /\ sent[ch] \in Nat /\ Len(Incoming(ch)) <= Len(inbox[InboxOf(ch)])
<1>1. /\ handled[ch] \in Numbers /\ chunk[ch] \in Numbers /\ wire[ch] \in Numbers
      /\ buffer[ch] \in Numbers /\ outgoing[ch] \in Numbers /\ sent[ch] \in Nat
  BY DEF QueuesInv, TransportTypeOK
<1>2. inbox[InboxOf(ch)] \in Seq(Item)
  BY InboxTyped DEF QueuesInv, TransportTypeOK
<1>3. Incoming(ch) \in Numbers /\ Len(Incoming(ch)) <= Len(inbox[InboxOf(ch)])
  BY <1>2, OfChannelTyped DEF Incoming, Numbers
<1>4. Behind(ch) \in Numbers
  BY <1>1, ThenTyped DEF Behind
<1>5. Front(ch) \in Numbers /\ Pipe(ch) \in Numbers
  BY <1>1, <1>3, <1>4, ThenTyped DEF Front, Pipe
<1> QED BY <1>1, <1>3, <1>4, <1>5

LEMMA FourThen ==
  ASSUME NEW a \in Numbers, NEW b \in Numbers, NEW c \in Numbers, NEW d \in Numbers, NEW e \in Numbers
  PROVE  Then(a, Then(b, Then(c, Then(d, e)))) = Then(Then(a, Then(b, Then(c, d))), e)
<1>1. Then(c, d) \in Numbers /\ Then(b, Then(c, d)) \in Numbers
  BY ThenTyped
<1>2. Then(Then(c, d), e) = Then(c, Then(d, e))
  BY ThenRegroups
<1>3. Then(Then(b, Then(c, d)), e) = Then(b, Then(Then(c, d), e))
  BY <1>1, ThenRegroups
<1>4. Then(Then(a, Then(b, Then(c, d))), e) = Then(a, Then(Then(b, Then(c, d)), e))
  BY <1>1, ThenRegroups
<1> QED BY <1>2, <1>3, <1>4

LEMMA PipeFront ==
  ASSUME QueuesInv, NEW ch \in Channel
  PROVE  Pipe(ch) = Then(Front(ch), Behind(ch))
<1> DEFINE a == handled[ch]
           b == Incoming(ch)
           c == chunk[ch]
           d == wire[ch]
           e == Behind(ch)
<1>1. a \in Numbers /\ b \in Numbers /\ c \in Numbers /\ d \in Numbers /\ e \in Numbers
  BY PartsTyped
<1>2. Pipe(ch) = Then(a, Then(b, Then(c, Then(d, e)))) /\ Front(ch) = Then(a, Then(b, Then(c, d)))
  BY DEF Pipe, Front
<1> HIDE DEF a, b, c, d, e
<1>3. Then(a, Then(b, Then(c, Then(d, e)))) = Then(Then(a, Then(b, Then(c, d))), e)
  BY <1>1, FourThen
<1> QED BY <1>2, <1>3 DEF e

LEMMA PipeInit == TransportInit => PipeInv
<1> SUFFICES ASSUME TransportInit, NEW ch \in Channel
             PROVE  /\ Rising(Pipe(ch), sent[ch])
                    /\ InTurn(Pipe(ch), sent[ch])
                    /\ Covered(Pipe(ch), sent[ch], MayLack(ch))
                    /\ Latest(Behind(ch), sent[ch])
  BY DEF PipeInv
<1>1. <<>> \in Numbers /\ Then(<<>>, <<>>) = <<>>
  BY EmptySeq, NothingThen DEF Numbers
<1>2. /\ handled[ch] = <<>> /\ chunk[ch] = <<>> /\ wire[ch] = <<>>
      /\ buffer[ch] = <<>> /\ outgoing[ch] = <<>> /\ sent[ch] = 0
      /\ inbox[InboxOf(ch)] = <<>>
  BY InboxTyped DEF TransportInit, Empty
<1>3. Incoming(ch) = <<>> /\ Behind(ch) = <<>>
  BY <1>1, <1>2, OfChannelEmpty DEF Incoming, Behind
<1>4. Pipe(ch) = <<>>
  BY <1>1, <1>2, <1>3 DEF Pipe
<1>5. Len(<<>>) = 0 /\ 1..0 = {}
  BY EmptySeq
<1> QED BY <1>2, <1>3, <1>4, <1>5 DEF Rising, InTurn, Covered, Latest

\* A step that moves numbers along.
LEMMA PipeKept ==
  ASSUME PipeInv, load' = load, sent' = sent,
         \A ch \in Channel : Pipe(ch)' = Pipe(ch) /\ Latest(Behind(ch), sent[ch])'
  PROVE  PipeInv'
BY DEF PipeInv, Lossy, MayLack, BatchSize, TooLarge
LEMMA TimerPipe == ASSUME TransportInv, NEW n \in Node, TimerFires(n) PROVE PipeInv'
<1>1. UNCHANGED <<load, sent, handled, outgoing, buffer, wire, chunk, inbox>>
  BY DEF TimerFires
<1>2. \A ch \in Channel : Pipe(ch)' = Pipe(ch) /\ Latest(Behind(ch), sent[ch])'
  BY <1>1 DEF Pipe, Behind, Incoming, TransportInv, PipeInv
<1> QED BY <1>1, <1>2, PipeKept DEF TransportInv

LEMMA StillPipe == ASSUME TransportInv, UNCHANGED transportVars PROVE PipeInv'
<1>1. UNCHANGED <<load, sent, handled, outgoing, buffer, wire, chunk, inbox>>
  BY DEF transportVars, loopVars
<1>2. \A ch \in Channel : Pipe(ch)' = Pipe(ch) /\ Latest(Behind(ch), sent[ch])'
  BY <1>1 DEF Pipe, Behind, Incoming, TransportInv, PipeInv
<1> QED BY <1>1, <1>2, PipeKept DEF TransportInv

LEMMA SendPipe == ASSUME TransportInv, NEW n \in Node, Send(n) PROVE PipeInv'
<1>1. PICK ch \in turn[n] :
        /\ sent' = [sent EXCEPT ![ch] = @ + 1]
        /\ outgoing' = [outgoing EXCEPT ![ch] = Append(@, sent[ch] + 1)]
        /\ UNCHANGED <<load, handled, buffer, wire, chunk, inbox>>
  BY DEF Send
<1>2. ch \in Channel
  BY DEF TransportInv, QueuesInv, TransportTypeOK
<1>3. QueuesInv
  BY DEF TransportInv
<1>4. ASSUME NEW c \in Channel
      PROVE  /\ Rising(Pipe(c)', sent'[c])
             /\ ~ Lossy(c)' => InTurn(Pipe(c)', sent'[c])
             /\ Covered(Pipe(c)', sent'[c], MayLack(c)')
             /\ Latest(Behind(c)', sent'[c])
  <2>1. /\ Rising(Pipe(c), sent[c])
        /\ ~ Lossy(c) => InTurn(Pipe(c), sent[c])
        /\ Covered(Pipe(c), sent[c], MayLack(c))
        /\ Latest(Behind(c), sent[c])
    BY DEF TransportInv, PipeInv
  <2>2. Lossy(c)' = Lossy(c) /\ MayLack(c)' = MayLack(c)
    BY <1>1 DEF Lossy, MayLack, TooLarge, BatchSize
  <2>3. CASE c = ch
    <3> DEFINE top == sent[c]
    <3>1. sent'[c] = top + 1 /\ outgoing'[c] = Append(outgoing[c], top + 1)
      BY <1>1, <1>3, <2>3 DEF QueuesInv, TransportTypeOK
    <3>2. /\ buffer[c] \in Numbers /\ outgoing[c] \in Numbers /\ Front(c) \in Numbers
          /\ Behind(c) \in Numbers /\ Pipe(c) \in Numbers /\ top \in Nat /\ top + 1 \in Nat
      BY <1>3, PartsTyped
    <3> HIDE DEF top
    <3>3. Behind(c)' = Append(Behind(c), top + 1)
      <4>1. Behind(c)' = Then(buffer[c], Append(outgoing[c], top + 1))
        BY <1>1, <3>1 DEF Behind
      <4>2. Then(buffer[c], Append(outgoing[c], top + 1)) = Append(Then(buffer[c], outgoing[c]), top + 1)
        BY <3>2, ThenAppend
      <4> QED BY <4>1, <4>2 DEF Behind
    <3>4. Pipe(c)' = Append(Pipe(c), top + 1)
      <4> DEFINE w == handled[c]
                 x == Incoming(c)
                 y == chunk[c]
                 z == wire[c]
                 b == Behind(c)
                 e == Append(b, top + 1)
      <4>1. w \in Numbers /\ x \in Numbers /\ y \in Numbers /\ z \in Numbers /\ b \in Numbers
        BY <1>3, PartsTyped
      <4>2. Pipe(c)' = Then(w, Then(x, Then(y, Then(z, e))))
        BY <1>1, <3>3 DEF Pipe, Incoming
      <4>3. Front(c) = Then(w, Then(x, Then(y, z)))
        BY DEF Front
      <4>4. Pipe(c) = Then(Front(c), b)
        BY <1>3, PipeFront
      <4>5. e \in Numbers
        BY <3>2, <4>1, NumbersAppend
      <4>6. Then(Front(c), e) = Append(Then(Front(c), b), top + 1)
        BY <3>2, <4>1, ThenAppend
      <4> HIDE DEF w, x, y, z, b, e
      <4>7. Then(w, Then(x, Then(y, Then(z, e)))) = Then(Then(w, Then(x, Then(y, z))), e)
        BY <4>1, <4>5, FourThen
      <4> QED BY <4>2, <4>3, <4>4, <4>6, <4>7
    <3>5. /\ Rising(Append(Pipe(c), top + 1), top + 1)
          /\ ~ Lossy(c) => InTurn(Append(Pipe(c), top + 1), top + 1)
          /\ Covered(Append(Pipe(c), top + 1), top + 1, MayLack(c))
      <4>1. Rising(Pipe(c), top) /\ Covered(Pipe(c), top, MayLack(c)) /\ (~ Lossy(c) => InTurn(Pipe(c), top))
        BY <2>1 DEF top
      <4> QED BY <3>2, <4>1, NextNumber
    <3>6. Latest(Append(Behind(c), top + 1), top + 1)
      <4>1. Latest(Behind(c), top)
        BY <2>1 DEF top
      <4> QED BY <3>2, <4>1, NextNumber
    <3> QED BY <2>2, <3>1, <3>3, <3>4, <3>5, <3>6
  <2>4. CASE c # ch
    <3>1. sent'[c] = sent[c] /\ outgoing'[c] = outgoing[c]
      BY <1>1, <1>3, <2>4 DEF QueuesInv, TransportTypeOK
    <3>2. Behind(c)' = Behind(c)
      BY <1>1, <3>1 DEF Behind
    <3>3. Pipe(c)' = Pipe(c)
      BY <1>1, <3>2 DEF Pipe, Incoming
    <3> QED BY <2>1, <2>2, <3>1, <3>2, <3>3
  <2> QED BY <2>3, <2>4
<1> QED BY <1>4 DEF PipeInv

LEMMA WriterReceivesPipe ==
  ASSUME TransportInv, NEW ch \in Channel, WriterReceives(ch) PROVE PipeInv'
<1> DEFINE k == WriterTakes(ch)
<1>1. /\ buffer[ch] = <<>>
      /\ buffer' = [buffer EXCEPT ![ch] = First(outgoing[ch], k)]
      /\ outgoing' = [outgoing EXCEPT ![ch] = Rest(@, k)]
      /\ UNCHANGED <<load, sent, handled, wire, chunk, inbox>>
  BY DEF WriterReceives, loopVars
<1>2. QueuesInv /\ PipeInv
  BY DEF TransportInv
<1>3. outgoing[ch] \in Numbers /\ k \in Nat
  BY <1>2, NumbersLen, Sizes DEF QueuesInv, TransportTypeOK, WriterTakes, Smaller
<1> HIDE DEF k
<1>4. ASSUME NEW c \in Channel PROVE Behind(c)' = Behind(c)
  <2>1. CASE c = ch
    <3>1. buffer'[c] = First(outgoing[ch], k) /\ outgoing'[c] = Rest(outgoing[ch], k)
      BY <1>1, <1>2, <2>1 DEF QueuesInv, TransportTypeOK
    <3>2. Then(First(outgoing[ch], k), Rest(outgoing[ch], k)) = outgoing[ch]
      BY <1>3, FirstThenRest
    <3>3. Then(<<>>, outgoing[ch]) = outgoing[ch]
      BY <1>3, NothingThen
    <3> QED BY <1>1, <2>1, <3>1, <3>2, <3>3 DEF Behind
  <2>2. CASE c # ch
    BY <1>1, <1>2, <2>2 DEF QueuesInv, TransportTypeOK, Behind
  <2> QED BY <2>1, <2>2
<1>5. \A c \in Channel : Pipe(c)' = Pipe(c) /\ Latest(Behind(c), sent[c])'
  BY <1>1, <1>2, <1>4 DEF Pipe, Incoming, PipeInv
<1> QED BY <1>1, <1>2, <1>5, PipeKept

LEMMA WriterFeedsPipe ==
  ASSUME TransportInv, NEW ch \in Channel, WriterFeeds(ch) PROVE PipeInv'
<1>1. /\ buffer[ch] # <<>>
      /\ wire' = [wire EXCEPT ![ch] = Append(@, Head(buffer[ch]))]
      /\ buffer' = [buffer EXCEPT ![ch] = Tail(@)]
      /\ UNCHANGED <<load, sent, handled, outgoing, chunk, inbox>>
  BY DEF WriterFeeds, loopVars
<1>2. QueuesInv /\ PipeInv
  BY DEF TransportInv
<1>3. ASSUME NEW c \in Channel PROVE Pipe(c)' = Pipe(c) /\ Latest(Behind(c)', sent[c])
  <2>0. Latest(Behind(c), sent[c]) /\ sent[c] \in Nat
    BY <1>2, PartsTyped DEF PipeInv
  <2>1. CASE c = ch
    <3> DEFINE b == buffer[ch]
               r == outgoing[ch]
               w == wire[ch]
    <3>1. b \in Numbers /\ r \in Numbers /\ w \in Numbers /\ b # <<>>
      BY <1>1, <1>2, PartsTyped
    <3>2. buffer'[c] = Tail(b) /\ wire'[c] = Append(w, Head(b))
      BY <1>1, <1>2, <2>1 DEF QueuesInv, TransportTypeOK
    <3>3. Behind(c) = Then(b, r) /\ Behind(c)' = Then(Tail(b), r)
      BY <1>1, <2>1, <3>2 DEF Behind
    <3>4. Pipe(c)' = Then(handled[ch], Then(Incoming(ch), Then(chunk[ch], Then(Append(w, Head(b)), Then(Tail(b), r)))))
      BY <1>1, <2>1, <3>2, <3>3 DEF Pipe, Incoming
    <3>5. Pipe(c) = Then(handled[ch], Then(Incoming(ch), Then(chunk[ch], Then(w, Then(b, r)))))
      BY <2>1, <3>3 DEF Pipe
    <3> HIDE DEF b, r, w
    <3>6. Then(Append(w, Head(b)), Then(Tail(b), r)) = Then(w, Then(b, r))
      BY <3>1, HeadMoved
    <3>7. Latest(Then(Tail(b), r), sent[c])
      <4> DEFINE one == <<Head(b)>>
                 rest == Tail(b)
      <4>1. one \in Numbers /\ rest \in Numbers /\ b = Then(one, rest)
        BY <3>1, HeadThenTail
      <4> HIDE DEF one, rest
      <4>2. Then(rest, r) \in Numbers /\ Then(Then(one, rest), r) = Then(one, Then(rest, r))
        BY <3>1, <4>1, ThenTyped, ThenRegroups
      <4>3. Latest(Then(one, Then(rest, r)), sent[c])
        BY <2>0, <3>3, <4>1, <4>2
      <4>4. Latest(Then(rest, r), sent[c])
        BY <2>0, <4>1, <4>2, <4>3, LatestAfter
      <4> QED BY <4>4 DEF rest
    <3> QED BY <3>3, <3>4, <3>5, <3>6, <3>7
  <2>2. CASE c # ch
    <3>1. buffer'[c] = buffer[c] /\ wire'[c] = wire[c]
      BY <1>1, <1>2, <2>2 DEF QueuesInv, TransportTypeOK
    <3>2. Behind(c)' = Behind(c)
      BY <1>1, <3>1 DEF Behind
    <3>3. Pipe(c)' = Pipe(c)
      BY <1>1, <3>1, <3>2 DEF Pipe, Incoming
    <3> QED BY <2>0, <3>2, <3>3
  <2> QED BY <2>1, <2>2
<1>4. \A c \in Channel : Pipe(c)' = Pipe(c) /\ Latest(Behind(c), sent[c])'
  BY <1>1, <1>3
<1> QED BY <1>1, <1>2, <1>4, PipeKept
\* The dropped numbers follow the one too large, by less than a batch.
LEMMA SkippedFollow ==
  ASSUME TransportInv, NEW ch \in Channel, WriterSkips(ch)
  PROVE  Lossy(ch) /\ Range(buffer[ch]) \subseteq MayLack(ch)
<1> DEFINE b == buffer[ch]
<1>1. b # <<>> /\ <<ch, Head(b)>> \in TooLarge
  BY DEF WriterSkips
<1>2. /\ b \in Numbers /\ outgoing[ch] \in Numbers /\ sent[ch] \in Nat
      /\ Latest(Then(b, outgoing[ch]), sent[ch])
  BY PartsTyped DEF TransportInv, PipeInv, Behind
<1>3. Len(b) <= BatchSize /\ BatchSize \in Nat
  BY Sizes DEF TransportInv, QueuesInv, TransportTypeOK, Bounded
<1> HIDE DEF b
<1>4. \A i \in 1..Len(b) : b[i] = b[1] + (i - 1)
  BY <1>2, LatestAfter
<1>5. Head(b) = b[1] /\ Len(b) \in Nat /\ DOMAIN b = 1..Len(b)
  BY <1>1, <1>2, NumbersLen, HeadTailProperties DEF Numbers
<1>6. ASSUME NEW n \in Range(b) PROVE n \in MayLack(ch)
  <2>1. PICK i \in 1..Len(b) : n = b[i]
    BY <1>5 DEF Range
  <2>2. i - 1 \in 0..(BatchSize - 1) /\ b[1] \in Nat /\ n \in Nat
    BY <1>2, <1>3, <1>5, <2>1, NumbersLen
  <2>3. n - (i - 1) = b[1]
    BY <1>4, <2>1, <2>2
  <2> QED BY <1>1, <1>5, <2>2, <2>3 DEF MayLack
<1>7. Lossy(ch)
  BY <1>1 DEF Lossy
<1> QED BY <1>6, <1>7 DEF b

LEMMA WriterSkipsPipe ==
  ASSUME TransportInv, NEW ch \in Channel, WriterSkips(ch) PROVE PipeInv'
<1>1. /\ buffer' = [buffer EXCEPT ![ch] = <<>>]
      /\ UNCHANGED <<load, sent, handled, outgoing, wire, chunk, inbox>>
  BY DEF WriterSkips, loopVars
<1>2. QueuesInv /\ PipeInv
  BY DEF TransportInv
<1>3. ASSUME NEW c \in Channel
      PROVE  /\ Rising(Pipe(c)', sent'[c])
             /\ ~ Lossy(c)' => InTurn(Pipe(c)', sent'[c])
             /\ Covered(Pipe(c)', sent'[c], MayLack(c)')
             /\ Latest(Behind(c)', sent'[c])
  <2>1. /\ Rising(Pipe(c), sent[c])
        /\ ~ Lossy(c) => InTurn(Pipe(c), sent[c])
        /\ Covered(Pipe(c), sent[c], MayLack(c))
        /\ Latest(Behind(c), sent[c])
        /\ sent[c] \in Nat
    BY <1>2, PartsTyped DEF PipeInv
  <2>2. Lossy(c)' = Lossy(c) /\ MayLack(c)' = MayLack(c) /\ sent'[c] = sent[c]
    BY <1>1 DEF Lossy, MayLack, TooLarge, BatchSize
  <2>3. CASE c = ch
    <3> DEFINE f == Front(c)
               b == buffer[c]
               o == outgoing[c]
    <3>1. f \in Numbers /\ b \in Numbers /\ o \in Numbers /\ <<>> \in Numbers
      BY <1>2, PartsTyped, EmptySeq DEF Numbers
    <3>2. Behind(c) = Then(b, o)
      BY DEF Behind
    <3>3. Behind(c)' = o
      <4>1. buffer'[c] = <<>>
        BY <1>1, <1>2, <2>3 DEF QueuesInv, TransportTypeOK
      <4>2. Then(<<>>, o) = o
        BY <3>1, NothingThen
      <4> QED BY <1>1, <4>1, <4>2 DEF Behind
    <3>4. Pipe(c) = Then(f, Then(b, o))
      BY <1>2, <3>2, PipeFront
    <3>5. Pipe(c)' = Then(f, o)
      <4> DEFINE w == handled[c]
                 x == Incoming(c)
                 y == chunk[c]
                 z == wire[c]
      <4>1. w \in Numbers /\ x \in Numbers /\ y \in Numbers /\ z \in Numbers
        BY <1>2, PartsTyped
      <4>2. Pipe(c)' = Then(w, Then(x, Then(y, Then(z, o))))
        BY <1>1, <3>3 DEF Pipe, Incoming
      <4>3. f = Then(w, Then(x, Then(y, z)))
        BY DEF Front
      <4> HIDE DEF w, x, y, z, f, o
      <4>4. Then(w, Then(x, Then(y, Then(z, o)))) = Then(Then(w, Then(x, Then(y, z))), o)
        BY <3>1, <4>1, FourThen
      <4> QED BY <4>2, <4>3, <4>4
    <3>6. Lossy(c) /\ Range(b) \subseteq MayLack(c)
      BY <2>3, SkippedFollow
    <3> HIDE DEF f, b, o
    <3>7. Then(b, o) \in Numbers
      BY <3>1, ThenTyped
    <3>8. Rising(Then(f, o), sent[c])
      BY <2>1, <3>1, <3>4, RisingDropped
    <3>9. Latest(o, sent[c])
      BY <2>1, <3>1, <3>2, LatestAfter
    <3>10. Range(Then(f, Then(b, o))) = Range(f) \cup (Range(b) \cup Range(o))
           /\ Range(Then(f, o)) = Range(f) \cup Range(o)
      BY <3>1, <3>7, ThenRange
    <3>11. Covered(Then(f, o), sent[c], MayLack(c))
      BY <2>1, <3>4, <3>6, <3>10 DEF Covered
    <3> QED BY <2>2, <3>3, <3>5, <3>6, <3>8, <3>9, <3>11
  <2>4. CASE c # ch
    <3>1. buffer'[c] = buffer[c]
      BY <1>1, <1>2, <2>4 DEF QueuesInv, TransportTypeOK
    <3>2. Behind(c)' = Behind(c)
      BY <1>1, <3>1 DEF Behind
    <3>3. Pipe(c)' = Pipe(c)
      BY <1>1, <3>2 DEF Pipe, Incoming
    <3> QED BY <2>1, <2>2, <3>2, <3>3
  <2> QED BY <2>3, <2>4
<1> QED BY <1>3 DEF PipeInv

LEMMA ReaderReceivesPipe ==
  ASSUME TransportInv, NEW ch \in Channel, ReaderReceives(ch) PROVE PipeInv'
<1>1. PICK k \in ReadyChunks(ch) : /\ chunk' = [chunk EXCEPT ![ch] = First(wire[ch], k)]
                                   /\ wire' = [wire EXCEPT ![ch] = Rest(@, k)]
  BY DEF ReaderReceives
<1>2. chunk[ch] = <<>> /\ UNCHANGED <<load, sent, handled, outgoing, buffer, inbox>>
  BY DEF ReaderReceives, loopVars
<1>3. QueuesInv /\ PipeInv
  BY DEF TransportInv
<1>4. k \in Nat
  BY <1>3, NumbersLen, Sizes DEF QueuesInv, TransportTypeOK, ReadyChunks, Smaller
<1>5. ASSUME NEW c \in Channel PROVE Behind(c)' = Behind(c) /\ Pipe(c)' = Pipe(c)
  <2>1. Behind(c)' = Behind(c)
    BY <1>2 DEF Behind
  <2>2. CASE c = ch
    <3> DEFINE w == wire[ch]
               r == Behind(ch)
    <3>1. w \in Numbers /\ r \in Numbers /\ Then(w, r) \in Numbers
      BY <1>3, PartsTyped, ThenTyped
    <3>2. chunk'[c] = First(w, k) /\ wire'[c] = Rest(w, k)
      BY <1>1, <1>3, <2>2 DEF QueuesInv, TransportTypeOK
    <3>3. Pipe(c)' = Then(handled[ch], Then(Incoming(ch), Then(First(w, k), Then(Rest(w, k), r))))
      BY <1>2, <2>1, <2>2, <3>2 DEF Pipe, Incoming
    <3>4. Pipe(c) = Then(handled[ch], Then(Incoming(ch), Then(<<>>, Then(w, r))))
      BY <1>2, <2>2 DEF Pipe
    <3> HIDE DEF w, r
    <3>5. Then(First(w, k), Then(Rest(w, k), r)) = Then(w, r)
      BY <1>4, <3>1, FirstMoved
    <3>6. Then(<<>>, Then(w, r)) = Then(w, r)
      BY <3>1, NothingThen
    <3> QED BY <2>1, <3>3, <3>4, <3>5, <3>6
  <2>3. CASE c # ch
    <3>1. chunk'[c] = chunk[c] /\ wire'[c] = wire[c]
      BY <1>1, <1>3, <2>3 DEF QueuesInv, TransportTypeOK
    <3> QED BY <1>2, <2>1, <3>1 DEF Pipe, Incoming
  <2> QED BY <2>2, <2>3
<1>6. \A c \in Channel : Pipe(c)' = Pipe(c) /\ Latest(Behind(c), sent[c])'
  BY <1>2, <1>3, <1>5 DEF PipeInv
<1> QED BY <1>2, <1>3, <1>6, PipeKept

LEMMA ReaderForwardsPipe ==
  ASSUME TransportInv, NEW ch \in Channel, ReaderForwards(ch) PROVE PipeInv'
<1> DEFINE q == InboxOf(ch)
           item == <<ch, Head(chunk[ch])>>
<1>1. /\ chunk[ch] # <<>>
      /\ inbox' = [inbox EXCEPT ![q] = Append(@, item)]
      /\ chunk' = [chunk EXCEPT ![ch] = Tail(@)]
      /\ UNCHANGED <<load, sent, handled, outgoing, buffer, wire>>
  BY DEF ReaderForwards, PassesOn, loopVars
<1>2. QueuesInv /\ PipeInv
  BY DEF TransportInv
<1>3. q \in Inbox /\ chunk[ch] \in Numbers /\ inbox[q] \in Seq(Item)
  BY <1>2, InboxTyped DEF QueuesInv, TransportTypeOK
<1>4. item \in Item /\ item[1] = ch /\ item[2] = Head(chunk[ch])
  BY <1>1, <1>3, NumbersTail DEF Item
<1> HIDE DEF item
<1>5. \A c \in Channel : OfChannel(Append(inbox[q], item), c) =
                           IF c = ch THEN Append(OfChannel(inbox[q], c), Head(chunk[ch]))
                           ELSE OfChannel(inbox[q], c)
  BY <1>3, <1>4, OfChannelAppend
<1>6. ASSUME NEW c \in Channel PROVE Behind(c)' = Behind(c) /\ Pipe(c)' = Pipe(c)
  <2>1. Behind(c)' = Behind(c)
    BY <1>1 DEF Behind
  <2>2. InboxOf(c) \in Inbox
    BY InboxTyped
  <2>3. inbox'[InboxOf(c)] = IF InboxOf(c) = q THEN Append(inbox[q], item) ELSE inbox[InboxOf(c)]
    BY <1>1, <1>2, <2>2 DEF QueuesInv, TransportTypeOK
  <2>4. CASE c = ch
    <3> DEFINE i == Incoming(ch)
               d == chunk[ch]
               r == Then(wire[ch], Behind(ch))
    <3>1. i \in Numbers /\ d \in Numbers /\ r \in Numbers /\ d # <<>>
      BY <1>1, <1>2, PartsTyped, ThenTyped
    <3>2. Incoming(c)' = Append(i, Head(d))
      BY <1>5, <2>3, <2>4 DEF Incoming
    <3>3. chunk'[c] = Tail(d)
      BY <1>1, <1>2, <2>4 DEF QueuesInv, TransportTypeOK
    <3>4. Pipe(c)' = Then(handled[ch], Then(Append(i, Head(d)), Then(Tail(d), r)))
      BY <1>1, <2>1, <2>4, <3>2, <3>3 DEF Pipe
    <3>5. Pipe(c) = Then(handled[ch], Then(i, Then(d, r)))
      BY <2>4 DEF Pipe
    <3> HIDE DEF i, d, r
    <3>6. Then(Append(i, Head(d)), Then(Tail(d), r)) = Then(i, Then(d, r))
      BY <3>1, HeadMoved
    <3> QED BY <2>1, <3>4, <3>5, <3>6
  <2>5. CASE c # ch
    <3>1. Incoming(c)' = Incoming(c)
      BY <1>5, <2>3, <2>5 DEF Incoming
    <3>2. chunk'[c] = chunk[c]
      BY <1>1, <1>2, <2>5 DEF QueuesInv, TransportTypeOK
    <3> QED BY <1>1, <2>1, <3>1, <3>2 DEF Pipe
  <2> QED BY <2>4, <2>5
<1>7. \A c \in Channel : Pipe(c)' = Pipe(c) /\ Latest(Behind(c), sent[c])'
  BY <1>1, <1>2, <1>6 DEF PipeInv
<1> QED BY <1>1, <1>2, <1>7, PipeKept

\* What a loop handles of a channel is the front of what waits for it.
LEMMA TakenFront ==
  ASSUME QueuesInv, NEW q \in Inbox, Take(q), NEW c \in Channel
  PROVE  LET its == OfChannel(First(inbox[q], BatchOf(q)), c) IN
         /\ its \in Numbers
         /\ handled'[c] = Then(handled[c], its)
         /\ Incoming(c)' \in Numbers
         /\ Incoming(c) = Then(its, Incoming(c)')
<1> DEFINE size == BatchOf(q)
           its == OfChannel(First(inbox[q], size), c)
           r == InboxOf(c)
<1>1. /\ inbox' = [inbox EXCEPT ![q] = Rest(@, size)]
      /\ handled' = [ch \in Channel |-> handled[ch] \o OfChannel(First(inbox[q], size), ch)]
  BY DEF Take, BatchOf
<1>2. size \in Nat /\ inbox[q] \in Seq(Item) /\ r \in Inbox /\ inbox[r] \in Seq(Item)
  BY Sizes, InboxTyped DEF QueuesInv, TransportTypeOK, BatchOf
<1>3. handled'[c] = Then(handled[c], its)
  BY <1>1 DEF Then
<1>4. First(inbox[q], size) \in Seq(Item) /\ its \in Numbers
  BY <1>2, FirstRest, OfChannelTyped DEF Numbers
<1>5. CASE r = q
  <2>1. Incoming(c) = OfChannel(inbox[q], c) /\ Incoming(c)' = OfChannel(Rest(inbox[q], size), c)
    BY <1>1, <1>5 DEF Incoming, QueuesInv, TransportTypeOK
  <2>2. /\ OfChannel(Rest(inbox[q], size), c) \in Numbers
        /\ Then(its, OfChannel(Rest(inbox[q], size), c)) = OfChannel(inbox[q], c)
    BY <1>2, OfChannelSplit
  <2> QED BY <1>3, <1>4, <2>1, <2>2
<1>6. CASE r # q
  <2>1. Incoming(c)' = Incoming(c)
    BY <1>1, <1>2, <1>6 DEF Incoming, QueuesInv, TransportTypeOK
  <2>2. \A j \in 1..Len(inbox[q]) : inbox[q][j][1] # c
    BY <1>6 DEF QueuesInv, Sorted
  <2>3. /\ \A i \in 1..Len(First(inbox[q], size)) : First(inbox[q], size)[i] = inbox[q][i]
        /\ Len(First(inbox[q], size)) = Smaller(size, Len(inbox[q]))
    BY <1>2, FirstRest
  <2>4. \A j \in 1..Len(First(inbox[q], size)) : First(inbox[q], size)[j][1] # c
    <3>1. Smaller(size, Len(inbox[q])) <= Len(inbox[q]) /\ Len(inbox[q]) \in Nat
          /\ Smaller(size, Len(inbox[q])) \in Nat
      BY <1>2 DEF Smaller
    <3> QED BY <2>2, <2>3, <3>1
  <2>5. its = <<>>
    BY <1>4, <2>4, OfOthers
  <2>6. Incoming(c) \in Numbers
    BY PartsTyped
  <2>7. Then(<<>>, Incoming(c)) = Incoming(c)
    BY <2>6, NothingThen
  <2> QED BY <1>3, <1>4, <2>1, <2>5, <2>6, <2>7
<1> QED BY <1>5, <1>6

LEMMA TakePipe == ASSUME TransportInv, NEW q \in Inbox, Take(q) PROVE PipeInv'
<1>1. UNCHANGED <<load, sent, outgoing, buffer, wire, chunk>>
  BY DEF Take
<1>2. QueuesInv /\ PipeInv
  BY DEF TransportInv
<1>3. ASSUME NEW c \in Channel PROVE Behind(c)' = Behind(c) /\ Pipe(c)' = Pipe(c)
  <2> DEFINE its == OfChannel(First(inbox[q], BatchOf(q)), c)
             h == handled[c]
             i == Incoming(c)'
             r == Then(chunk[c], Then(wire[c], Behind(c)))
  <2>1. Behind(c)' = Behind(c)
    BY <1>1 DEF Behind
  <2>2. h \in Numbers /\ r \in Numbers
    BY <1>2, PartsTyped, ThenTyped
  <2>3. its \in Numbers /\ handled'[c] = Then(h, its) /\ i \in Numbers /\ Incoming(c) = Then(its, i)
    BY <1>2, TakenFront
  <2>4. Pipe(c) = Then(h, Then(Then(its, i), r))
    BY <2>3 DEF Pipe
  <2>5. Pipe(c)' = Then(Then(h, its), Then(i, r))
    BY <1>1, <2>1, <2>3 DEF Pipe
  <2> HIDE DEF its, h, i, r
  <2>6. Then(i, r) \in Numbers
    BY <2>2, <2>3, ThenTyped
  <2>7. Then(Then(its, i), r) = Then(its, Then(i, r))
    BY <2>2, <2>3, ThenRegroups
  <2>8. Then(Then(h, its), Then(i, r)) = Then(h, Then(its, Then(i, r)))
    BY <2>2, <2>3, <2>6, ThenRegroups
  <2> QED BY <2>1, <2>4, <2>5, <2>7, <2>8
<1>4. \A c \in Channel : Pipe(c)' = Pipe(c) /\ Latest(Behind(c), sent[c])'
  BY <1>1, <1>2, <1>3 DEF PipeInv
<1> QED BY <1>1, <1>2, <1>4, PipeKept

\* TransportInv is inductive.
LEMMA InvStep == TransportInv /\ [TransportNext]_transportVars => TransportInv'
<1>1. TransportInv /\ [TransportNext]_transportVars => PipeInv'
  BY TimerPipe, SendPipe, WriterReceivesPipe, WriterFeedsPipe, WriterSkipsPipe,
     ReaderReceivesPipe, ReaderForwardsPipe, TakePipe, StillPipe
     DEF TransportNext, TaskSteps
<1> QED BY <1>1, QueuesStep DEF TransportInv

LEMMA InvHolds == TransportSpec => []TransportInv
<1>1. TransportInit => TransportInv
  BY QueuesInit, PipeInit DEF TransportInv
<1> QED BY <1>1, InvStep, PTL DEF TransportSpec
-----------------------------------------------------------------------------
(***************************************************************************)
(* What follows.                                                           *)
(***************************************************************************)
LEMMA PipeLength ==
  ASSUME QueuesInv, NEW ch \in Channel
  PROVE  Len(Pipe(ch)) = Len(handled[ch]) + Len(Incoming(ch)) + Len(chunk[ch])
                         + Len(wire[ch]) + Len(buffer[ch]) + Len(outgoing[ch])
<1> DEFINE w == handled[ch]
           x == Incoming(ch)
           y == chunk[ch]
           z == wire[ch]
           b == buffer[ch]
           o == outgoing[ch]
<1>1. /\ w \in Numbers /\ x \in Numbers /\ y \in Numbers /\ z \in Numbers /\ b \in Numbers
      /\ o \in Numbers
  BY PartsTyped
<1>2. Pipe(ch) = Then(w, Then(x, Then(y, Then(z, Then(b, o)))))
  BY DEF Pipe, Behind
<1> HIDE DEF w, x, y, z, b, o
<1>3. Then(b, o) \in Numbers /\ Len(Then(b, o)) = Len(b) + Len(o)
  BY <1>1, ThenTyped, ThenAt
<1>4. Then(z, Then(b, o)) \in Numbers /\ Len(Then(z, Then(b, o))) = Len(z) + Len(Then(b, o))
  BY <1>1, <1>3, ThenTyped, ThenAt
<1> DEFINE zs == Then(z, Then(b, o))
<1> HIDE DEF zs
<1>5. zs \in Numbers /\ Len(zs) = Len(z) + Len(b) + Len(o)
  BY <1>1, <1>3, <1>4, NumbersLen DEF zs
<1>6. Then(y, zs) \in Numbers /\ Len(Then(y, zs)) = Len(y) + Len(zs)
  BY <1>1, <1>5, ThenTyped, ThenAt
<1> DEFINE ys == Then(y, zs)
<1> HIDE DEF ys
<1>7. ys \in Numbers /\ Len(ys) = Len(y) + Len(zs)
  BY <1>6 DEF ys
<1>8. Then(x, ys) \in Numbers /\ Len(Then(x, ys)) = Len(x) + Len(ys)
  BY <1>1, <1>7, ThenTyped, ThenAt
<1>9. Len(Then(w, Then(x, ys))) = Len(w) + Len(Then(x, ys))
  BY <1>1, <1>8, ThenAt
<1>10. Pipe(ch) = Then(w, Then(x, ys))
  BY <1>2 DEF zs, ys
<1>11. /\ Len(w) \in Nat /\ Len(x) \in Nat /\ Len(y) \in Nat /\ Len(z) \in Nat /\ Len(b) \in Nat
       /\ Len(o) \in Nat
  BY <1>1, NumbersLen
<1>12. Len(Pipe(ch)) = Len(w) + Len(x) + Len(y) + Len(z) + Len(b) + Len(o)
  BY <1>5, <1>7, <1>8, <1>9, <1>10, <1>11
<1> QED BY <1>12 DEF w, x, y, z, b, o

LEMMA HeldBack == TransportInv => ClientHeldBack
<1> SUFFICES ASSUME TransportInv, NEW ch \in ClientChannel, From(ch) \in Clients
             PROVE  sent[ch] - Len(handled[ch]) <= 4 * BatchSize + WireCapacity
  BY DEF ClientHeldBack
<1>1. QueuesInv /\ ch \in Channel /\ load \in Loads
  BY DEF TransportInv, Channel, QueuesInv, TransportTypeOK
<1>2. ~ Lossy(ch)
  <2>1. From(ch) \notin Servers
    BY NodesAssumption
  <2>2. \A m \in TooLarge : From(m[1]) \in Servers
    <3> SUFFICES ASSUME NEW m \in TooLarge PROVE From(m[1]) \in Servers
      OBVIOUS
    <3>1. m[1] \in PeerChannel
      BY <1>1, Sizes
    <3> QED BY <3>1 DEF PeerChannel, From
  <2> QED BY <2>1, <2>2 DEF Lossy
<1>3. Len(Pipe(ch)) = sent[ch]
  BY <1>1, <1>2 DEF TransportInv, PipeInv, InTurn
<1>4. /\ Len(outgoing[ch]) <= BatchSize /\ Len(buffer[ch]) <= BatchSize
      /\ Len(chunk[ch]) <= BatchSize /\ Len(wire[ch]) <= WireCapacity
      /\ Len(inbox[InboxOf(ch)]) <= BatchSize
  BY <1>1, InboxTyped DEF QueuesInv, Bounded
<1>5. /\ Len(Incoming(ch)) <= Len(inbox[InboxOf(ch)]) /\ BatchSize \in Nat /\ WireCapacity \in Nat
      /\ Len(handled[ch]) \in Nat /\ Len(Incoming(ch)) \in Nat /\ Len(chunk[ch]) \in Nat
      /\ Len(wire[ch]) \in Nat /\ Len(buffer[ch]) \in Nat /\ Len(outgoing[ch]) \in Nat
  BY <1>1, PartsTyped, NumbersLen, Sizes
<1>6. Len(inbox[InboxOf(ch)]) \in Nat
  <2>1. inbox[InboxOf(ch)] \in Seq(Item)
    BY <1>1, InboxTyped DEF QueuesInv, TransportTypeOK
  <2> QED BY <2>1, LenProperties
<1>7. sent[ch] = Len(handled[ch]) + Len(Incoming(ch)) + Len(chunk[ch])
                 + Len(wire[ch]) + Len(buffer[ch]) + Len(outgoing[ch])
  BY <1>1, <1>3, PipeLength
<1> DEFINE h == Len(handled[ch])
           i == Len(Incoming(ch))
           c == Len(chunk[ch])
           w == Len(wire[ch])
           b == Len(buffer[ch])
           o == Len(outgoing[ch])
<1>8. /\ h \in Nat /\ i \in Nat /\ c \in Nat /\ w \in Nat /\ b \in Nat /\ o \in Nat
      /\ sent[ch] = h + i + c + w + b + o
      /\ c <= BatchSize /\ b <= BatchSize /\ o <= BatchSize /\ w <= WireCapacity
  BY <1>4, <1>5, <1>7
<1>9. i <= BatchSize
  BY <1>4, <1>5, <1>6
<1> HIDE DEF h, i, c, w, b, o
<1>10. sent[ch] - h <= 4 * BatchSize + WireCapacity
  BY <1>5, <1>8, <1>9
<1> QED BY <1>10 DEF h

\* What a channel holds is what its parts hold.
LEMMA PipeRange ==
  ASSUME QueuesInv, NEW ch \in Channel
  PROVE  Range(Pipe(ch)) = Handled(ch) \cup InTransit(ch) \cup {outgoing[ch][i] : i \in DOMAIN outgoing[ch]}
<1> DEFINE w == handled[ch]
           x == Incoming(ch)
           y == chunk[ch]
           z == wire[ch]
           b == buffer[ch]
           o == outgoing[ch]
<1>1. /\ w \in Numbers /\ x \in Numbers /\ y \in Numbers /\ z \in Numbers /\ b \in Numbers
      /\ o \in Numbers
  BY PartsTyped
<1>2. Pipe(ch) = Then(w, Then(x, Then(y, Then(z, Then(b, o)))))
  BY DEF Pipe, Behind
<1>3. inbox[InboxOf(ch)] \in Seq(Item)
  BY InboxTyped DEF QueuesInv, TransportTypeOK
<1>4. Range(x) = {inbox[InboxOf(ch)][i][2] : i \in {j \in DOMAIN inbox[InboxOf(ch)] : inbox[InboxOf(ch)][j][1] = ch}}
  BY <1>3, OfChannelTyped DEF Incoming
<1>5. /\ InTransit(ch) = Range(b) \cup Range(z) \cup Range(y) \cup Range(x)
      /\ Handled(ch) = Range(w)
      /\ {outgoing[ch][i] : i \in DOMAIN outgoing[ch]} = Range(o)
  BY <1>4 DEF InTransit, Handled, Range
<1> HIDE DEF w, x, y, z, b, o
<1>6. Then(b, o) \in Numbers /\ Range(Then(b, o)) = Range(b) \cup Range(o)
  BY <1>1, ThenTyped, ThenRange
<1> DEFINE bs == Then(b, o)
<1> HIDE DEF bs
<1>7. bs \in Numbers
  BY <1>6 DEF bs
<1>8. Then(z, bs) \in Numbers /\ Range(Then(z, bs)) = Range(z) \cup Range(bs)
  BY <1>1, <1>7, ThenTyped, ThenRange
<1> DEFINE zs == Then(z, bs)
<1> HIDE DEF zs
<1>9. zs \in Numbers
  BY <1>8 DEF zs
<1>10. Then(y, zs) \in Numbers /\ Range(Then(y, zs)) = Range(y) \cup Range(zs)
  BY <1>1, <1>9, ThenTyped, ThenRange
<1> DEFINE ys == Then(y, zs)
<1> HIDE DEF ys
<1>11. ys \in Numbers
  BY <1>10 DEF ys
<1>12. Then(x, ys) \in Numbers /\ Range(Then(x, ys)) = Range(x) \cup Range(ys)
  BY <1>1, <1>11, ThenTyped, ThenRange
<1>13. Range(Then(w, Then(x, ys))) = Range(w) \cup Range(Then(x, ys))
  BY <1>1, <1>12, ThenRange
<1>14. Pipe(ch) = Then(w, Then(x, ys))
  BY <1>2 DEF bs, zs, ys
<1>15. Range(Pipe(ch)) = Range(w) \cup (Range(x) \cup (Range(y) \cup (Range(z) \cup (Range(b) \cup Range(o)))))
  BY <1>6, <1>8, <1>10, <1>12, <1>13, <1>14 DEF bs, zs, ys
<1> QED BY <1>5, <1>15

LEMMA LossLocal == TransportInv => LossIsLocal
<1> SUFFICES ASSUME TransportInv, NEW ch \in Channel, NEW n \in Lost(ch)
             PROVE  \E k \in 0..(BatchSize - 1) : <<ch, n - k>> \in TooLarge
  BY DEF LossIsLocal
<1>1. QueuesInv /\ Covered(Pipe(ch), sent[ch], MayLack(ch))
  BY DEF TransportInv, PipeInv
<1>2. n \in 1..sent[ch] /\ n \notin Range(Pipe(ch))
  BY <1>1, PipeRange DEF Lost
<1>3. n \in MayLack(ch)
  BY <1>1, <1>2 DEF Covered
<1> QED BY <1>3 DEF MayLack

\* A client is never ahead of its server by more requests than the bounded
\* queues between them hold, whatever their sizes (client/network.rs:152).
THEOREM ClientsHeldBack == TransportSpec => []ClientHeldBack
BY InvHolds, HeldBack, PTL

\* Whatever a channel has lost was dropped together with a message that cannot
\* be framed, of the same batch (server/network.rs:337).
THEOREM LossesAreLocal == TransportSpec => []LossIsLocal
BY InvHolds, LossLocal, PTL
-----------------------------------------------------------------------------
(***************************************************************************)
(* Channels implement FifoChannels.                                        *)
(***************************************************************************)
LEMMA ThenCut ==
  ASSUME NEW h \in Numbers, NEW b \in Numbers
  PROVE  /\ SubSeq(Then(h, b), 1, Len(h)) = h
         /\ SubSeq(Then(h, b), Len(h) + 1, Len(Then(h, b))) = b
<1> DEFINE p == Then(h, b)
           l == Len(h)
           k == Len(b)
<1>1. /\ p \in Seq(Nat) /\ h \in Seq(Nat) /\ b \in Seq(Nat)
      /\ l \in Nat /\ k \in Nat /\ Len(p) = l + k
      /\ \A i \in 1..l : p[i] = h[i]
      /\ \A i \in 1..k : p[l + i] = b[i]
      /\ \A i \in 1..(l + k) : p[i] \in Nat
  <2>1. p \in Numbers
    BY ThenTyped
  <2> QED BY <2>1, NumbersLen, ThenAt DEF Numbers
<1>2. Len(h) = l /\ Len(b) = k
  OBVIOUS
<1> HIDE DEF p, l, k
<1>3. SubSeq(p, 1, l) = h
  <2>1. 1 \in Int /\ l \in Int /\ \A i \in 1..l : p[i] \in Nat
    BY <1>1
  <2>2. /\ SubSeq(p, 1, l) \in Seq(Nat)
        /\ Len(SubSeq(p, 1, l)) = IF 1 <= l THEN l - 1 + 1 ELSE 0
        /\ \A i \in 1..(l - 1 + 1) : SubSeq(p, 1, l)[i] = p[1 + i - 1]
    BY <1>1, <2>1, SubSeqProperties
  <2>3. Len(SubSeq(p, 1, l)) = l /\ \A i \in 1..l : SubSeq(p, 1, l)[i] = h[i]
    BY <1>1, <2>2
  <2> QED BY <1>1, <1>2, <2>2, <2>3, SeqEqual
<1>4. SubSeq(p, l + 1, l + k) = b
  <2>1. l + 1 \in Int /\ l + k \in Int /\ \A i \in (l + 1)..(l + k) : p[i] \in Nat
    BY <1>1
  <2>2. /\ SubSeq(p, l + 1, l + k) \in Seq(Nat)
        /\ Len(SubSeq(p, l + 1, l + k)) = IF l + 1 <= l + k THEN (l + k) - (l + 1) + 1 ELSE 0
        /\ \A i \in 1..((l + k) - (l + 1) + 1) : SubSeq(p, l + 1, l + k)[i] = p[(l + 1) + i - 1]
    BY <1>1, <2>1, SubSeqProperties
  <2>3. Len(SubSeq(p, l + 1, l + k)) = k /\ \A i \in 1..k : SubSeq(p, l + 1, l + k)[i] = b[i]
    BY <1>1, <2>2
  <2> QED BY <1>1, <1>2, <2>2, <2>3, SeqEqual
<1> QED BY <1>1, <1>3, <1>4 DEF p, l

\* Numbers b that come after h in a rising sequence, or in one without gaps.
LEMMA BatchFollows ==
  ASSUME NEW h \in Numbers, NEW b \in Numbers, NEW r \in Numbers, NEW top \in Nat,
         Rising(Then(Then(h, b), r), top), NEW i \in 1..Len(b)
  PROVE  LET before == IF i = 1 THEN IF h = <<>> THEN 0 ELSE h[Len(h)] ELSE b[i - 1] IN
         /\ b[i] <= top /\ b[i] > before
         /\ InTurn(Then(Then(h, b), r), top) => b[i] = before + 1
<1> DEFINE g == Then(h, b)
           p == Then(g, r)
           l == Len(h)
           before == IF i = 1 THEN IF h = <<>> THEN 0 ELSE h[Len(h)] ELSE b[i - 1]
<1>1. /\ g \in Numbers /\ l \in Nat /\ Len(b) \in Nat /\ Len(g) = l + Len(b) /\ Len(r) \in Nat
      /\ \A j \in 1..l : g[j] = h[j]
      /\ \A j \in 1..Len(b) : g[l + j] = b[j]
  BY ThenTyped, ThenAt, NumbersLen
<1>2. Rising(p, top)
  OBVIOUS
<1>3. Len(h) = l
  OBVIOUS
<1> HIDE DEF g, l
<1>4. Len(p) = Len(g) + Len(r) /\ \A j \in 1..Len(g) : p[j] = g[j]
  BY <1>1, ThenAt
<1> HIDE DEF p
<1>5. /\ \A j \in 1..(l + Len(b)) : j \in 1..Len(p)
      /\ l + i \in 1..(l + Len(b)) /\ p[l + i] = b[i]
  <2>1. l + i \in 1..Len(g) /\ \A j \in 1..(l + Len(b)) : j \in 1..Len(p)
    BY <1>1, <1>4
  <2> QED BY <1>1, <1>4, <2>1
<1>6. /\ 1 <= b[i] /\ b[i] <= top
      /\ InTurn(p, top) => b[i] = l + i
  BY <1>2, <1>5 DEF Rising, InTurn
<1>7. CASE i = 1 /\ h = <<>>
  <2>1. l = 0
    BY <1>3, <1>7, EmptySeq
  <2>2. before = 0
    BY <1>7
  <2>3. b[i] \in Nat
    BY NumbersLen
  <2> HIDE DEF before
  <2>4. b[i] > before /\ (InTurn(p, top) => b[i] = before + 1)
    BY <1>6, <1>7, <2>1, <2>2, <2>3
  <2> QED BY <1>6, <2>4 DEF before, p, g
<1>8. ASSUME ~ (i = 1 /\ h = <<>>)
      PROVE  l + i - 1 \in 1..(l + Len(b)) /\ p[l + i - 1] = before
  <2>1. CASE i = 1
    <3>1. l >= 1
      BY <1>1, <1>3, <1>8, <2>1, EmptySeq DEF Numbers
    <3>2. l \in 1..l /\ l \in 1..Len(g) /\ l + i - 1 = l
      BY <1>1, <2>1, <3>1
    <3>3. p[l] = h[l]
      BY <1>1, <1>4, <3>2
    <3> QED BY <1>1, <1>3, <1>8, <2>1, <3>1, <3>2, <3>3
  <2>2. CASE i # 1
    <3>1. i - 1 \in 1..Len(b) /\ l + (i - 1) \in 1..Len(g) /\ l + (i - 1) = l + i - 1
      BY <1>1, <2>2
    <3>2. p[l + (i - 1)] = b[i - 1]
      BY <1>1, <1>4, <3>1
    <3> QED BY <1>1, <2>2, <3>1, <3>2
  <2> QED BY <2>1, <2>2
<1>9. CASE ~ (i = 1 /\ h = <<>>)
  <2> HIDE DEF before
  <2>1. l + i - 1 \in 1..Len(p) /\ l + i \in 1..Len(p) /\ l + i - 1 < l + i
    BY <1>1, <1>5, <1>8, <1>9
  <2>2. p[l + i - 1] < p[l + i] /\ (InTurn(p, top) => p[l + i - 1] = l + i - 1)
    BY <1>2, <2>1 DEF Rising, InTurn
  <2>3. b[i] > before /\ (InTurn(p, top) => b[i] = before + 1)
    <3>1. before \in Int /\ b[i] \in Int
      <4>1. \A j \in 1..Len(p) : p[j] \in Nat
        <5>1. p \in Numbers
          BY <1>1, ThenTyped DEF p
        <5> QED BY <5>1, NumbersLen
      <4> QED BY <1>5, <1>8, <1>9, <2>1, <4>1
    <3> QED BY <1>1, <1>5, <1>6, <1>8, <1>9, <2>2, <3>1
  <2> QED BY <1>6, <2>3 DEF before, p, g
<1> QED BY <1>7, <1>9
\* A batch is handled as FifoChannels allows.
LEMMA TakeHandles == ASSUME TransportInv, NEW q \in Inbox, Take(q) PROVE Fifo!Handles
<1>1. UNCHANGED <<load, sent>>
  BY DEF Take
<1>2. QueuesInv /\ PipeInv
  BY DEF TransportInv
<1>3. ASSUME NEW c \in Channel
      PROVE  /\ Len(handled'[c]) >= Len(handled[c])
             /\ SubSeq(handled'[c], 1, Len(handled[c])) = handled[c]
             /\ Fifo!Follows(c, SubSeq(handled'[c], Len(handled[c]) + 1, Len(handled'[c])))
  <2> DEFINE b == OfChannel(First(inbox[q], BatchOf(q)), c)
             h == handled[c]
             i == Incoming(c)'
             r == Then(chunk[c], Then(wire[c], Behind(c)))
  <2>1. h \in Numbers /\ r \in Numbers /\ sent[c] \in Nat
    BY <1>2, PartsTyped, ThenTyped
  <2>2. b \in Numbers /\ handled'[c] = Then(h, b) /\ i \in Numbers /\ Incoming(c) = Then(b, i)
    BY <1>2, TakenFront
  <2>3. Pipe(c) = Then(h, Then(Then(b, i), r))
    BY <2>2 DEF Pipe
  <2>4. Rising(Pipe(c), sent[c]) /\ (~ Lossy(c) => InTurn(Pipe(c), sent[c]))
    BY <1>2 DEF PipeInv
  <2>5. Fifo!LastHandled(c) = IF h = <<>> THEN 0 ELSE h[Len(h)]
    BY DEF Fifo!LastHandled
  <2> HIDE DEF b, h, i, r
  <2>6. Then(i, r) \in Numbers
    BY <2>1, <2>2, ThenTyped
  <2>7. Pipe(c) = Then(Then(h, b), Then(i, r))
    <3>1. Then(Then(b, i), r) = Then(b, Then(i, r))
      BY <2>1, <2>2, ThenRegroups
    <3>2. Then(Then(h, b), Then(i, r)) = Then(h, Then(b, Then(i, r)))
      BY <2>1, <2>2, <2>6, ThenRegroups
    <3> QED BY <2>3, <3>1, <3>2
  <2>8. ASSUME NEW j \in 1..Len(b)
        PROVE  LET before == IF j = 1 THEN IF h = <<>> THEN 0 ELSE h[Len(h)] ELSE b[j - 1] IN
               /\ b[j] <= sent[c] /\ b[j] > before
               /\ ~ Lossy(c) => b[j] = before + 1
    BY <2>1, <2>2, <2>4, <2>6, <2>7, BatchFollows
  <2>9. DOMAIN b = 1..Len(b) /\ Len(b) \in Nat /\ Len(h) \in Nat
    BY <2>1, <2>2, NumbersLen
  <2>10. Fifo!Follows(c, b)
    BY <2>5, <2>8, <2>9 DEF Fifo!Follows, Lossy
  <2>11. Len(Then(h, b)) >= Len(h)
    BY <2>1, <2>2, <2>9, ThenAt
  <2>12. SubSeq(Then(h, b), 1, Len(h)) = h /\ SubSeq(Then(h, b), Len(h) + 1, Len(Then(h, b))) = b
    BY <2>1, <2>2, ThenCut
  <2> QED BY <2>2, <2>10, <2>11, <2>12 DEF h
<1> QED BY <1>1, <1>3 DEF Fifo!Handles, TooLarge

LEMMA SendSends ==
  ASSUME TransportInv, NEW n \in Node, Send(n)
  PROVE  \E ch \in Channel : Fifo!Sends(ch)
<1>1. PICK ch \in turn[n] : /\ sent' = [sent EXCEPT ![ch] = @ + 1]
                            /\ UNCHANGED <<load, handled>>
  BY DEF Send
<1>2. ch \in Channel
  BY DEF TransportInv, QueuesInv, TransportTypeOK
<1> QED BY <1>1, <1>2 DEF Fifo!Sends, TooLarge

LEMMA FifoStep ==
  TransportInv /\ [TransportNext]_transportVars =>
    [Fifo!FifoNext]_<<{m[1] : m \in TooLarge}, sent, handled>>
<1> SUFFICES ASSUME TransportInv, [TransportNext]_transportVars
             PROVE  \/ Fifo!FifoNext
                    \/ UNCHANGED <<{m[1] : m \in TooLarge}, sent, handled>>
  OBVIOUS
<1>1. ASSUME NEW n \in Node, Send(n) PROVE Fifo!FifoNext
  BY <1>1, SendSends DEF Fifo!FifoNext
<1>2. ASSUME NEW q \in Inbox, Take(q) PROVE Fifo!FifoNext
  BY <1>2, TakeHandles DEF Fifo!FifoNext
<1>3. ASSUME UNCHANGED <<load, sent, handled>>
      PROVE  UNCHANGED <<{m[1] : m \in TooLarge}, sent, handled>>
  BY <1>3 DEF TooLarge
<1>4. ASSUME NEW ch \in Channel,
             \/ WriterReceives(ch) \/ WriterFeeds(ch) \/ WriterSkips(ch)
             \/ ReaderReceives(ch) \/ ReaderForwards(ch)
      PROVE  UNCHANGED <<load, sent, handled>>
  BY <1>4 DEF WriterReceives, WriterFeeds, WriterSkips, ReaderReceives, ReaderForwards, loopVars
<1>5. ASSUME NEW n \in Node, TimerFires(n) PROVE UNCHANGED <<load, sent, handled>>
  BY <1>5 DEF TimerFires
<1>6. CASE UNCHANGED transportVars
  BY <1>3, <1>6 DEF transportVars, loopVars
<1>7. CASE TransportNext
  BY <1>1, <1>2, <1>3, <1>4, <1>5, <1>7 DEF TransportNext, TaskSteps
<1> QED BY <1>6, <1>7

LEMMA FifoStart == TransportInit => Fifo!FifoInit
<1> SUFFICES ASSUME TransportInit PROVE Fifo!FifoInit
  OBVIOUS
<1>1. TooLarge \subseteq PeerChannel \X Nat
  BY Sizes DEF TransportInit
<1>2. {m[1] : m \in TooLarge} \subseteq Channel
  BY <1>1 DEF Channel
<1> QED BY <1>2 DEF TransportInit, Empty, Fifo!FifoInit

\* Through every queue, batch and buffer, and past dropped batches, a channel
\* stays FIFO: the transport implements FifoChannels (server/network.rs:308-356).
THEOREM TransportIsFifo == TransportSpec => ChannelsAreFifo
<1>1. TransportInit /\ []TransportInv /\ [][TransportNext]_transportVars
      => Fifo!FifoInit /\ [][Fifo!FifoNext]_<<{m[1] : m \in TooLarge}, sent, handled>>
  BY FifoStart, FifoStep, PTL
<1> QED BY <1>1, InvHolds, PTL DEF TransportSpec, ChannelsAreFifo, Fifo!FifoSpec
-----------------------------------------------------------------------------
(***************************************************************************)
(* No circle of full queues.  Backwards from a full queue, each task waits *)
(* for the next one, until a server's loop, which never waits to send.     *)
(***************************************************************************)
LEMMA ServerSends ==
  ASSUME QueuesInv, ~ TaskReady, NEW n \in Node, turn[n] # {}
  PROVE  n \in Clients /\ \E ch \in turn[n] : ch \in Channel /\ From(ch) = n /\ ~ HasRoom(ch)
<1>1. PICK ch \in turn[n] : TRUE
  OBVIOUS
<1>2. ch \in Channel /\ From(ch) = n
  BY <1>1 DEF QueuesInv, TransportTypeOK, Sorted
<1>3. ~ HasRoom(ch)
  BY <1>1 DEF TaskReady
<1> QED BY <1>1, <1>2, <1>3 DEF HasRoom

LEMMA NumbersThere ==
  ASSUME NEW s \in Numbers
  PROVE  (s = <<>> <=> Len(s) = 0) /\ (s = <<>> => DOMAIN s = {})
BY EmptySeq, NumbersLen DEF Numbers

\* The tasks of one connection: what waits there, waits for the loop at its end.
LEMMA TasksOfChannel ==
  ASSUME QueuesInv, ~ TaskReady, NEW ch \in Channel
  PROVE  /\ chunk[ch] # <<>> => inbox[InboxOf(ch)] # <<>>
         /\ wire[ch] # <<>> => chunk[ch] # <<>>
         /\ buffer[ch] # <<>> => wire[ch] # <<>>
         /\ outgoing[ch] # <<>> => buffer[ch] # <<>>
<1>1. /\ BatchSize \in Nat /\ BatchSize >= 1 /\ WireCapacity \in Nat /\ WireCapacity >= 1
  BY Sizes DEF QueuesInv, TransportTypeOK
<1>2. wire[ch] \in Numbers /\ inbox[InboxOf(ch)] \in Seq(Item)
  BY InboxTyped DEF QueuesInv, TransportTypeOK
<1>3. chunk[ch] # <<>> => ~ (Len(inbox[InboxOf(ch)]) < BatchSize)
  BY DEF TaskReady
<1>4. wire[ch] # <<>> => chunk[ch] # <<>>
  BY DEF TaskReady
<1>5. buffer[ch] # <<>> => ~ (Len(wire[ch]) < WireCapacity)
  BY DEF TaskReady
<1>6. outgoing[ch] # <<>> => buffer[ch] # <<>>
  BY DEF TaskReady
<1>7. Len(wire[ch]) = 0 => Len(wire[ch]) < WireCapacity
  BY <1>1
<1>8. wire[ch] = <<>> => Len(wire[ch]) = 0
  BY <1>2, NumbersThere
<1>9. inbox[InboxOf(ch)] = <<>> => Len(inbox[InboxOf(ch)]) < BatchSize
  BY <1>1, EmptySeq
<1> QED BY <1>3, <1>4, <1>5, <1>6, <1>7, <1>8, <1>9

LEMMA LoopsIdle ==
  ASSUME QueuesInv, ~ TaskReady
  PROVE  \A n \in Node : turn[n] = {}
<1>1. ASSUME NEW q \in Inbox, inbox[q] # <<>>, q[1] \in Servers PROVE FALSE
  <2>1. q[1] \in Node
    BY <1>1 DEF Node
  <2>2. turn[q[1]] # {}
    BY <1>1 DEF TaskReady
  <2>3. q[1] \in Clients
    BY <2>1, <2>2, ServerSends
  <2> QED BY <1>1, <2>3, NodesAssumption
<1>2. SUFFICES ASSUME NEW n \in Node, turn[n] # {} PROVE FALSE
  OBVIOUS
<1>3. n \in Clients
  BY <1>2, ServerSends
<1>4. PICK ch \in turn[n] : ch \in Channel /\ From(ch) = n /\ ~ HasRoom(ch)
  BY <1>2, ServerSends
<1>5. ch \in Channel /\ From(ch) \in Clients /\ To(ch) \in Servers
  BY <1>3, <1>4, NodesAssumption DEF Channel, PeerChannel, ClientChannel, From, To
<1>6. outgoing[ch] # <<>>
  <2>1. BatchSize \in Nat /\ BatchSize >= 1
    BY Sizes DEF QueuesInv, TransportTypeOK
  <2>2. ~ (Len(outgoing[ch]) < BatchSize)
    BY <1>3, <1>4 DEF HasRoom
  <2> QED BY <2>1, <2>2, EmptySeq
<1>7. inbox[InboxOf(ch)] # <<>>
  BY <1>5, <1>6, TasksOfChannel
<1>8. InboxOf(ch) \in Inbox /\ InboxOf(ch)[1] \in Servers
  BY <1>5, InboxTyped
<1> QED BY <1>1, <1>7, <1>8

LEMMA ReadyWhenBusy == QueuesInv => (Busy => TaskReady)
<1> SUFFICES ASSUME QueuesInv, ~ TaskReady PROVE ~ Busy
  OBVIOUS
<1>1. \A n \in Node : turn[n] = {}
  BY LoopsIdle
<1>2. ASSUME NEW ch \in Channel PROVE outgoing[ch] = <<>> /\ InTransit(ch) = {}
  <2>1. InboxOf(ch) \in Inbox /\ InboxOf(ch)[1] \in Node
    BY InboxTyped
  <2>2. inbox[InboxOf(ch)] = <<>>
    BY <1>1, <2>1 DEF TaskReady
  <2>3. outgoing[ch] = <<>> /\ buffer[ch] = <<>> /\ wire[ch] = <<>> /\ chunk[ch] = <<>>
    BY <2>2, TasksOfChannel
  <2>4. DOMAIN <<>> = {}
    OBVIOUS
  <2> QED BY <2>2, <2>3, <2>4 DEF InTransit
<1> QED BY <1>1, <1>2 DEF Busy

\* While a loop waits in a send or a message is under way, what some task waits
\* for is there, however small the queues are: it rests on the queues that
\* servers send through having no bound (server/network.rs:333).
THEOREM SomeTaskIsReady == TransportSpec => [](Busy => TaskReady)
<1>1. TransportInv => (Busy => TaskReady)
  BY ReadyWhenBusy DEF TransportInv
<1> QED BY <1>1, InvHolds, PTL
-----------------------------------------------------------------------------
(***************************************************************************)
(* Every step of a task but a send brings some message closer to the loop  *)
(* it is for, and takes none further away: between sends, tasks run for a  *)
(* while only.                                                             *)
(***************************************************************************)
\* How many moves the messages of a channel have before them at most.
Moves(o, b, w, c, i) == 5 * o + 4 * b + 3 * w + 2 * c + i
Distance(ch) ==
  Moves(Len(outgoing[ch]), Len(buffer[ch]), Len(wire[ch]), Len(chunk[ch]), Len(Incoming(ch)))


\* The tasks of a connection, a message moved by one.
ChannelStep(ch) ==
  WriterReceives(ch) \/ WriterFeeds(ch) \/ WriterSkips(ch) \/ ReaderReceives(ch) \/ ReaderForwards(ch)

Closer(ch) ==
  /\ Distance(ch)' < Distance(ch)
  /\ \A c \in Channel \ {ch} : Distance(c)' = Distance(c)

LEMMA Lengths ==
  ASSUME QueuesInv, NEW ch \in Channel
  PROVE  /\ Len(outgoing[ch]) \in Nat /\ Len(buffer[ch]) \in Nat /\ Len(wire[ch]) \in Nat
         /\ Len(chunk[ch]) \in Nat /\ Len(Incoming(ch)) \in Nat /\ BatchSize \in Nat
         /\ outgoing[ch] # <<>> => Len(outgoing[ch]) >= 1
         /\ buffer[ch] # <<>> => Len(buffer[ch]) >= 1
         /\ wire[ch] # <<>> => Len(wire[ch]) >= 1
         /\ buffer[ch] = <<>> => Len(buffer[ch]) = 0
         /\ chunk[ch] = <<>> => Len(chunk[ch]) = 0
<1>1. /\ outgoing[ch] \in Numbers /\ buffer[ch] \in Numbers /\ wire[ch] \in Numbers
      /\ chunk[ch] \in Numbers /\ Incoming(ch) \in Numbers /\ load \in Loads
  BY PartsTyped DEF QueuesInv, TransportTypeOK
<1>2. \A s \in Numbers : Len(s) \in Nat /\ (s = <<>> <=> Len(s) = 0)
  BY NumbersLen, NumbersThere
<1>3. \A s \in Numbers : s # <<>> => Len(s) >= 1
  BY <1>2
<1> QED BY <1>1, <1>2, <1>3, Sizes

LEMMA WriterReceivesCloser ==
  ASSUME QueuesInv, NEW ch \in Channel, WriterReceives(ch) PROVE Closer(ch)
<1> DEFINE k == WriterTakes(ch)
           o == outgoing[ch]
<1>1. /\ buffer[ch] = <<>> /\ o # <<>>
      /\ buffer' = [buffer EXCEPT ![ch] = First(o, k)]
      /\ outgoing' = [outgoing EXCEPT ![ch] = Rest(@, k)]
      /\ UNCHANGED <<wire, chunk, inbox>>
  BY DEF WriterReceives
<1>2. buffer'[ch] = First(o, k) /\ outgoing'[ch] = Rest(o, k)
  BY <1>1 DEF QueuesInv, TransportTypeOK
<1>3. o \in Numbers /\ Len(o) \in Nat /\ Len(o) >= 1 /\ BatchSize \in Nat /\ BatchSize >= 1
  BY <1>1, Lengths, Sizes DEF QueuesInv, TransportTypeOK
<1>4. k \in Nat /\ k >= 1 /\ k <= Len(o) /\ Smaller(k, Len(o)) = k
  BY <1>3 DEF WriterTakes, Smaller
<1> HIDE DEF k, o
<1>5. Len(First(o, k)) = k /\ Len(Rest(o, k)) = Len(o) - k
  BY <1>3, <1>4, NumbersFirst
<1>6. Incoming(ch)' = Incoming(ch) /\ wire'[ch] = wire[ch] /\ chunk'[ch] = chunk[ch]
  BY <1>1 DEF Incoming
<1>7. Distance(ch)' = Moves(Len(o) - k, k, Len(wire[ch]), Len(chunk[ch]), Len(Incoming(ch)))
  BY <1>2, <1>5, <1>6 DEF Distance
<1>8. Distance(ch) = Moves(Len(o), 0, Len(wire[ch]), Len(chunk[ch]), Len(Incoming(ch)))
  BY <1>1, Lengths DEF Distance, o
<1>20. /\ Len(wire[ch]) \in Nat /\ Len(chunk[ch]) \in Nat /\ Len(Incoming(ch)) \in Nat
      /\ BatchSize \in Nat
  BY Lengths
<1>21. \A x, y, z \in Nat : Moves(Len(o) - k, k, x, y, z) < Moves(Len(o), 0, x, y, z)
  BY <1>3, <1>4 DEF Moves
<1>9. Distance(ch)' < Distance(ch)
  BY <1>7, <1>8, <1>20, <1>21
<1>10. \A c \in Channel \ {ch} : Distance(c)' = Distance(c)
  BY <1>1 DEF QueuesInv, TransportTypeOK, Distance, Incoming
<1> QED BY <1>9, <1>10 DEF Closer

LEMMA WriterFeedsCloser ==
  ASSUME QueuesInv, NEW ch \in Channel, WriterFeeds(ch) PROVE Closer(ch)
<1> DEFINE b == buffer[ch]
           w == wire[ch]
<1>1. /\ b # <<>>
      /\ wire' = [wire EXCEPT ![ch] = Append(@, Head(b))]
      /\ buffer' = [buffer EXCEPT ![ch] = Tail(@)]
      /\ UNCHANGED <<outgoing, chunk, inbox>>
  BY DEF WriterFeeds
<1>2. buffer'[ch] = Tail(b) /\ wire'[ch] = Append(w, Head(b))
  BY <1>1 DEF QueuesInv, TransportTypeOK
<1>3. b \in Numbers /\ w \in Numbers /\ Len(b) \in Nat /\ Len(w) \in Nat /\ Len(b) >= 1
  BY <1>1, Lengths DEF QueuesInv, TransportTypeOK
<1> HIDE DEF b, w
<1>4. Len(Tail(b)) = Len(b) - 1 /\ Len(Append(w, Head(b))) = Len(w) + 1
  BY <1>1, <1>3, NumbersTail, NumbersAppend
<1>5. Incoming(ch)' = Incoming(ch) /\ outgoing'[ch] = outgoing[ch] /\ chunk'[ch] = chunk[ch]
  BY <1>1 DEF Incoming
<1>6. Distance(ch)' = Moves(Len(outgoing[ch]), Len(b) - 1, Len(w) + 1, Len(chunk[ch]), Len(Incoming(ch)))
  BY <1>2, <1>4, <1>5 DEF Distance
<1>7. Distance(ch) = Moves(Len(outgoing[ch]), Len(b), Len(w), Len(chunk[ch]), Len(Incoming(ch)))
  BY DEF Distance, b, w
<1>20. /\ Len(outgoing[ch]) \in Nat /\ Len(chunk[ch]) \in Nat /\ Len(Incoming(ch)) \in Nat
  BY Lengths
<1>21. \A x, y, z \in Nat : Moves(x, Len(b) - 1, Len(w) + 1, y, z) < Moves(x, Len(b), Len(w), y, z)
  BY <1>3 DEF Moves
<1>8. Distance(ch)' < Distance(ch)
  BY <1>6, <1>7, <1>20, <1>21
<1>9. \A c \in Channel \ {ch} : Distance(c)' = Distance(c)
  BY <1>1 DEF QueuesInv, TransportTypeOK, Distance, Incoming
<1> QED BY <1>8, <1>9 DEF Closer

LEMMA WriterSkipsCloser ==
  ASSUME QueuesInv, NEW ch \in Channel, WriterSkips(ch) PROVE Closer(ch)
<1>1. /\ buffer[ch] # <<>>
      /\ buffer' = [buffer EXCEPT ![ch] = <<>>]
      /\ UNCHANGED <<outgoing, wire, chunk, inbox>>
  BY DEF WriterSkips
<1>2. Len(buffer'[ch]) = 0
  BY <1>1, EmptySeq DEF QueuesInv, TransportTypeOK
<1>3. Incoming(ch)' = Incoming(ch)
  BY <1>1 DEF Incoming
<1>4. Distance(ch)' = Moves(Len(outgoing[ch]), 0, Len(wire[ch]), Len(chunk[ch]), Len(Incoming(ch)))
  BY <1>1, <1>2, <1>3 DEF Distance
<1>20. /\ Len(outgoing[ch]) \in Nat /\ Len(wire[ch]) \in Nat /\ Len(chunk[ch]) \in Nat
      /\ Len(Incoming(ch)) \in Nat /\ Len(buffer[ch]) \in Nat /\ Len(buffer[ch]) >= 1
  BY <1>1, Lengths
<1>21. \A x, b, y, z, i \in Nat : b >= 1 => Moves(x, 0, y, z, i) < Moves(x, b, y, z, i)
  BY DEF Moves
<1>5. Distance(ch)' < Distance(ch)
  BY <1>4, <1>20, <1>21 DEF Distance
<1>6. \A c \in Channel \ {ch} : Distance(c)' = Distance(c)
  BY <1>1 DEF QueuesInv, TransportTypeOK, Distance, Incoming
<1> QED BY <1>5, <1>6 DEF Closer

LEMMA ReaderReceivesCloser ==
  ASSUME QueuesInv, NEW ch \in Channel, ReaderReceives(ch) PROVE Closer(ch)
<1> DEFINE w == wire[ch]
<1>1. PICK k \in ReadyChunks(ch) : /\ chunk' = [chunk EXCEPT ![ch] = First(wire[ch], k)]
                                   /\ wire' = [wire EXCEPT ![ch] = Rest(@, k)]
  BY DEF ReaderReceives
<1>2. chunk[ch] = <<>> /\ UNCHANGED <<outgoing, buffer, inbox>>
  BY DEF ReaderReceives
<1>3. w \in Numbers /\ Len(w) \in Nat /\ BatchSize \in Nat
  BY Lengths DEF QueuesInv, TransportTypeOK
<1>4. k \in Nat /\ k >= 1 /\ k <= Len(w) /\ Smaller(k, Len(w)) = k
  BY <1>3 DEF ReadyChunks, Smaller
<1>5. chunk'[ch] = First(w, k) /\ wire'[ch] = Rest(w, k)
  BY <1>1 DEF QueuesInv, TransportTypeOK
<1> HIDE DEF w
<1>6. Len(First(w, k)) = k /\ Len(Rest(w, k)) = Len(w) - k
  BY <1>3, <1>4, NumbersFirst
<1>7. Incoming(ch)' = Incoming(ch)
  BY <1>2 DEF Incoming
<1>8. Distance(ch)' = Moves(Len(outgoing[ch]), Len(buffer[ch]), Len(w) - k, k, Len(Incoming(ch)))
  BY <1>2, <1>5, <1>6, <1>7 DEF Distance
<1>9. Distance(ch) = Moves(Len(outgoing[ch]), Len(buffer[ch]), Len(w), 0, Len(Incoming(ch)))
  BY <1>2, Lengths DEF Distance, w
<1>20. /\ Len(outgoing[ch]) \in Nat /\ Len(buffer[ch]) \in Nat /\ Len(Incoming(ch)) \in Nat
  BY Lengths
<1>21. \A x, y, z \in Nat : Moves(x, y, Len(w) - k, k, z) < Moves(x, y, Len(w), 0, z)
  BY <1>3, <1>4 DEF Moves
<1>10. Distance(ch)' < Distance(ch)
  BY <1>8, <1>9, <1>20, <1>21
<1>11. \A c \in Channel \ {ch} : Distance(c)' = Distance(c)
  BY <1>1, <1>2 DEF QueuesInv, TransportTypeOK, Distance, Incoming
<1> QED BY <1>10, <1>11 DEF Closer

LEMMA ReaderForwardsCloser ==
  ASSUME QueuesInv, NEW ch \in Channel, ReaderForwards(ch) PROVE Closer(ch)
<1> DEFINE q == InboxOf(ch)
           item == <<ch, Head(chunk[ch])>>
           d == chunk[ch]
           i == Incoming(ch)
<1>1. /\ chunk[ch] # <<>>
      /\ inbox' = [inbox EXCEPT ![q] = Append(@, item)]
      /\ chunk' = [chunk EXCEPT ![ch] = Tail(@)]
      /\ UNCHANGED <<outgoing, buffer, wire>>
  BY DEF ReaderForwards, PassesOn
<1>2. q \in Inbox /\ inbox[q] \in Seq(Item) /\ d \in Numbers /\ i \in Numbers
  BY InboxTyped, PartsTyped DEF QueuesInv, TransportTypeOK
<1>3. item \in Item /\ item[1] = ch /\ item[2] = Head(d)
  BY <1>1, <1>2, NumbersTail DEF Item
<1>4. chunk'[ch] = Tail(d)
  BY <1>1 DEF QueuesInv, TransportTypeOK
<1> HIDE DEF item
<1>5. \A c \in Channel :
        Incoming(c)' = IF c = ch THEN Append(i, Head(d)) ELSE Incoming(c)
  <2>1. SUFFICES ASSUME NEW c \in Channel
                 PROVE  Incoming(c)' = IF c = ch THEN Append(i, Head(d)) ELSE Incoming(c)
    OBVIOUS
  <2>2. inbox'[InboxOf(c)] = IF InboxOf(c) = q THEN Append(inbox[q], item) ELSE inbox[InboxOf(c)]
    BY <1>1, InboxTyped DEF QueuesInv, TransportTypeOK
  <2>3. OfChannel(Append(inbox[q], item), c) =
          IF c = ch THEN Append(OfChannel(inbox[q], c), Head(d)) ELSE OfChannel(inbox[q], c)
    BY <1>2, <1>3, OfChannelAppend
  <2> QED BY <2>2, <2>3 DEF Incoming
<1>6. \A c \in Channel \ {ch} : Distance(c)' = Distance(c)
  BY <1>1, <1>5 DEF QueuesInv, TransportTypeOK, Distance
<1>7. Incoming(ch)' = Append(i, Head(d))
  BY <1>5
<1> HIDE DEF d, i
<1>8. /\ Len(Tail(d)) = Len(d) - 1 /\ Len(Append(i, Head(d))) = Len(i) + 1
      /\ Len(d) \in Nat /\ Len(i) \in Nat
  BY <1>1, <1>2, NumbersTail, NumbersAppend, NumbersLen DEF d
<1>9. Distance(ch)' = Moves(Len(outgoing[ch]), Len(buffer[ch]), Len(wire[ch]), Len(d) - 1, Len(i) + 1)
  BY <1>1, <1>4, <1>7, <1>8 DEF Distance
<1>10. Distance(ch) = Moves(Len(outgoing[ch]), Len(buffer[ch]), Len(wire[ch]), Len(d), Len(i))
  BY DEF Distance, d, i
<1>11. Len(outgoing[ch]) \in Nat /\ Len(buffer[ch]) \in Nat /\ Len(wire[ch]) \in Nat
  BY Lengths
<1>12. \A x, y, z \in Nat : Moves(x, y, z, Len(d) - 1, Len(i) + 1) < Moves(x, y, z, Len(d), Len(i))
  BY <1>8 DEF Moves
<1>13. Distance(ch)' < Distance(ch)
  BY <1>9, <1>10, <1>11, <1>12
<1> QED BY <1>6, <1>13 DEF Closer

\* No message of any channel is further away, and one is closer.
Forward ==
  /\ \A c \in Channel : Distance(c)' <= Distance(c)
  /\ \E c \in Channel : Distance(c)' < Distance(c)

LEMMA DistanceTyped == ASSUME QueuesInv, NEW ch \in Channel PROVE Distance(ch) \in Nat
<1>1. \A o, b, w, c, i \in Nat : Moves(o, b, w, c, i) \in Nat
  BY DEF Moves
<1> QED BY <1>1, Lengths DEF Distance

DistancesNatural == \A ch \in Channel : Distance(ch) \in Nat

LEMMA DistancesTyped == QueuesInv => DistancesNatural
BY DistanceTyped DEF DistancesNatural

LEMMA DistancesTypedNext == QueuesInv' => DistancesNatural'
BY DistancesTyped, PTL

LEMMA CloserForward ==
  ASSUME QueuesInv, QueuesInv', NEW ch \in Channel, Closer(ch) PROVE Forward
<1>2. \A c \in Channel : Distance(c) \in Nat /\ Distance(c)' \in Nat
  BY DistancesTypedNext, DistanceTyped DEF DistancesNatural
<1>3. Distance(ch)' < Distance(ch) /\ \A c \in Channel \ {ch} : Distance(c)' = Distance(c)
  BY DEF Closer
<1>4. ASSUME NEW c \in Channel PROVE Distance(c)' <= Distance(c)
  <2>1. CASE c = ch
    BY <2>1, <1>2, <1>3
  <2>2. CASE c # ch
    BY <2>2, <1>2, <1>3
  <2> QED BY <2>1, <2>2
<1> QED BY <1>3, <1>4 DEF Forward

LEMMA TakeForward == ASSUME QueuesInv, NEW q \in Inbox, Take(q) PROVE Forward
<1> DEFINE its(c) == OfChannel(First(inbox[q], BatchOf(q)), c)
<1>1. inbox[q] # <<>> /\ UNCHANGED <<outgoing, buffer, wire, chunk>>
  BY DEF Take
<1>2. inbox[q] \in Seq(Item) /\ BatchOf(q) \in Nat /\ BatchOf(q) >= 1
  BY Sizes DEF QueuesInv, TransportTypeOK, BatchOf
<1>3. ASSUME NEW c \in Channel
      PROVE  /\ its(c) \in Numbers /\ Len(its(c)) \in Nat /\ Distance(c) \in Nat
             /\ Distance(c)' = Distance(c) - Len(its(c))
  <2> DEFINE a == its(c)
             r == Incoming(c)'
  <2>1. a \in Numbers /\ r \in Numbers /\ Incoming(c) = Then(a, r)
    BY TakenFront
  <2>2. Distance(c)' = Moves(Len(outgoing[c]), Len(buffer[c]), Len(wire[c]), Len(chunk[c]), Len(r))
    BY <1>1 DEF Distance
  <2> HIDE DEF a, r
  <2>3. Len(Incoming(c)) = Len(a) + Len(r) /\ Len(a) \in Nat /\ Len(r) \in Nat
    BY <2>1, ThenAt, NumbersLen
  <2>4. Distance(c) = Moves(Len(outgoing[c]), Len(buffer[c]), Len(wire[c]), Len(chunk[c]), Len(a) + Len(r))
    BY <2>3 DEF Distance
  <2>5. /\ Len(outgoing[c]) \in Nat /\ Len(buffer[c]) \in Nat /\ Len(wire[c]) \in Nat
        /\ Len(chunk[c]) \in Nat
    BY Lengths
  <2>6. \A o, b, w, k \in Nat : Moves(o, b, w, k, Len(r)) = Moves(o, b, w, k, Len(a) + Len(r)) - Len(a)
    BY <2>3 DEF Moves
  <2>7. Distance(c)' = Distance(c) - Len(a)
    BY <2>2, <2>4, <2>5, <2>6
  <2> QED BY <2>1, <2>3, <2>7, DistanceTyped DEF a
<1>4. PICK c \in Channel : Len(its(c)) >= 1
  <2> DEFINE f == First(inbox[q], BatchOf(q))
             c == inbox[q][1][1]
             a == its(c)
  <2>1. Len(inbox[q]) \in Nat /\ Len(inbox[q]) >= 1 /\ inbox[q][1] \in Item
    BY <1>1, <1>2, EmptySeq
  <2>2. /\ f \in Seq(Item) /\ Len(f) = Smaller(BatchOf(q), Len(inbox[q]))
        /\ \A i \in 1..Len(f) : f[i] = inbox[q][i]
    BY <1>2, FirstRest
  <2>3. Len(f) \in Nat /\ Len(f) >= 1
    BY <1>2, <2>1, <2>2 DEF Smaller
  <2>4. c \in Channel
    BY <2>1 DEF Item
  <2> HIDE DEF f, c
  <2>5. f[1][1] = c
    BY <2>2, <2>3 DEF c
  <2>6. a \in Numbers /\ Range(a) = {f[i][2] : i \in {j \in DOMAIN f : f[j][1] = c}}
    BY <2>2, OfChannelTyped DEF Numbers, f
  <2>7. f[1][2] \in Range(a)
    BY <2>2, <2>3, <2>5, <2>6
  <2>8. Len(a) \in Nat /\ DOMAIN a = 1..Len(a)
    BY <2>6, NumbersLen
  <2> HIDE DEF a
  <2>9. Len(a) >= 1
    BY <2>7, <2>8 DEF Range
  <2> QED BY <2>4, <2>9 DEF a
<1> HIDE DEF its
<1>5. Distance(c)' < Distance(c)
  BY <1>3, <1>4
<1>6. ASSUME NEW ch \in Channel PROVE Distance(ch)' <= Distance(ch)
  BY <1>3
<1> QED BY <1>5, <1>6 DEF Forward

LEMMA StepForward ==
  ASSUME QueuesInv, QueuesInv',
         (\E ch \in Channel : ChannelStep(ch)) \/ \E q \in Inbox : Take(q)
  PROVE  Forward
<1>1. ASSUME NEW ch \in Channel, ChannelStep(ch) PROVE Closer(ch)
  BY <1>1, WriterReceivesCloser, WriterFeedsCloser, WriterSkipsCloser, ReaderReceivesCloser,
     ReaderForwardsCloser DEF ChannelStep
<1> QED BY <1>1, CloserForward, TakeForward

\* Whatever is not a send brings a message closer to the loop it is for and takes
\* none further away; the distances are natural numbers.  So between two sends
\* the writers, the readers and the loops do a bounded amount of work, then
\* (SomeTaskIsReady) all that was sent is handled or, after a message no frame can hold,
\* dropped (server/network.rs:328-372, client/network.rs:126-173).
THEOREM StepsMoveForward ==
  TransportSpec =>
    /\ []DistancesNatural
    /\ [][(\E ch \in Channel : ChannelStep(ch)) \/ (\E q \in Inbox : Take(q)) => Forward]_transportVars
<1>1. TransportInv => DistancesNatural
  BY DistancesTyped DEF TransportInv
<1>2. TransportInv /\ [TransportNext]_transportVars =>
        [(\E ch \in Channel : ChannelStep(ch)) \/ (\E q \in Inbox : Take(q)) => Forward]_transportVars
  BY StepForward, InvStep DEF TransportInv
<1> QED BY <1>1, <1>2, InvHolds, PTL DEF TransportSpec
=============================================================================
