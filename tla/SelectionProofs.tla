-------------------------- MODULE SelectionProofs ---------------------------
(***************************************************************************)
(* Induction, and what it says about Picked.                               *)
(***************************************************************************)
EXTENDS Selection, SequenceTheorems, WellFoundedInduction, TLAPS

(***************************************************************************)
(* Induction on natural numbers, for a set instead of a predicate.         *)
(***************************************************************************)
LEMMA SetInduction ==
  ASSUME NEW S \in SUBSET Nat, 0 \in S, \A n \in S : n + 1 \in S
  PROVE  S = Nat
<1> DEFINE T == Nat \ S
<1> SUFFICES ASSUME T # {} PROVE FALSE
  OBVIOUS
<1>1. PICK x \in T : \A y \in T : ~ (<<y, x>> \in OpToRel(<, Nat))
  <2> HIDE DEF T
  <2>1. T \subseteq Nat
    BY DEF T
  <2> QED BY <2>1, NatLessThanWellFounded, WFMin
<1>2. \A y \in T : ~ (y < x)
  BY <1>1 DEF OpToRel
<1>3. x - 1 \in Nat /\ x - 1 < x
  OBVIOUS
<1>4. x - 1 \in S
  BY <1>2, <1>3
<1>5. (x - 1) + 1 \in S
  BY <1>4
<1> QED BY <1>5

\* The same for sequences, built by appending.
LEMMA AppendInduction ==
  ASSUME NEW S, NEW T \in SUBSET Seq(S), <<>> \in T,
         \A s \in T, e \in S : Append(s, e) \in T
  PROVE  T = Seq(S)
<1> DEFINE Good == {m \in Nat : \A s \in Seq(S) : Len(s) = m => s \in T}
<1>1. 0 \in Good
  BY EmptySeq
<1>2. ASSUME NEW m \in Good PROVE m + 1 \in Good
  <2> SUFFICES ASSUME NEW s \in Seq(S), Len(s) = m + 1 PROVE s \in T
    OBVIOUS
  <2>1. s # <<>>
    OBVIOUS
  <2>2. PICK front \in Seq(S), e \in S : s = Append(front, e)
    BY <2>1, SequenceEmptyOrAppend
  <2>3. Len(front) \in Nat /\ Len(s) = Len(front) + 1
    BY <2>2, AppendProperties
  <2>4. front \in T
    BY <2>3
  <2> QED BY <2>2, <2>4
<1>3. Good = Nat
  BY <1>1, <1>2, SetInduction
<1> QED BY <1>3, LenProperties
-----------------------------------------------------------------------------
(***************************************************************************)
(* Picking elements of a sequence.                                         *)
(***************************************************************************)
PickOne(p, seq, I, i) == IF i \in I THEN Append(p, seq[i]) ELSE p

Picks(seq, I, upto) ==
  /\ Picked(seq, I) = upto[Len(seq)]
  /\ upto[0] = <<>>
  /\ \A m \in Nat : m + 1 <= Len(seq) => upto[m + 1] = PickOne(upto[m], seq, I, m + 1)

LEMMA PickedUnfolds ==
  ASSUME NEW seq, NEW I, Len(seq) \in Nat
  PROVE  \E upto : Picks(seq, I, upto)
<1> DEFINE Step(f, i) == IF i = 0 THEN <<>> ELSE PickOne(f[i - 1], seq, I, i)
           Exists == {m \in Nat : \E h : h = [i \in 0..m |-> Step(h, i)]}
<1>1. 0 \in Exists
  <2> DEFINE f == [i \in 0..0 |-> <<>>]
  <2>1. f = [i \in 0..0 |-> Step(f, i)]
    OBVIOUS
  <2> QED BY <2>1
<1>2. ASSUME NEW m \in Exists PROVE m + 1 \in Exists
  <2>1. PICK f : f = [i \in 0..m |-> Step(f, i)]
    OBVIOUS
  <2> DEFINE g == [i \in 0..(m + 1) |-> IF i <= m THEN f[i] ELSE PickOne(f[m], seq, I, m + 1)]
  <2>2. ASSUME NEW i \in 0..(m + 1) PROVE g[i] = Step(g, i)
    <3>1. CASE i = 0
      BY <2>1, <3>1
    <3>2. CASE i # 0 /\ i <= m
      <4>1. g[i] = f[i] /\ g[i - 1] = f[i - 1]
        BY <3>2
      <4>2. f[i] = Step(f, i)
        BY <2>1, <3>2
      <4> QED BY <3>2, <4>1, <4>2
    <3>3. CASE i = m + 1
      BY <3>3
    <3> QED BY <3>1, <3>2, <3>3
  <2>3. g = [i \in 0..(m + 1) |-> Step(g, i)]
    BY <2>2
  <2> HIDE DEF g
  <2>4. \E h : h = [i \in 0..(m + 1) |-> Step(h, i)]
    BY <2>3
  <2>5. m + 1 \in Nat
    OBVIOUS
  <2> QED BY <2>4, <2>5
<1>3. Exists = Nat
  BY <1>1, <1>2, SetInduction
<1> DEFINE upto == CHOOSE f : f = [i \in 0..Len(seq) |-> Step(f, i)]
<1>4. upto = [i \in 0..Len(seq) |-> Step(upto, i)]
  <2>1. \E f : f = [i \in 0..Len(seq) |-> Step(f, i)]
    BY <1>3
  <2> QED BY <2>1
<1>5. Picked(seq, I) = upto[Len(seq)]
  BY DEF Picked, PickOne
<1> HIDE DEF upto
<1>6. upto[0] = <<>>
  BY <1>4
<1>7. \A m \in Nat : m + 1 <= Len(seq) =>
        upto[m + 1] = PickOne(upto[m], seq, I, m + 1)
  BY <1>4
<1>8. Picks(seq, I, upto)
  BY <1>5, <1>6, <1>7 DEF Picks
<1> QED BY <1>8

LEMMA PickedEmpty ==
  ASSUME NEW seq, NEW I, Len(seq) = 0
  PROVE  Picked(seq, I) = <<>>
<1>1. Len(seq) \in Nat
  OBVIOUS
<1>2. PICK upto : Picks(seq, I, upto)
  BY <1>1, PickedUnfolds
<1> QED BY <1>2 DEF Picks

\* What is picked depends on what is there and which of it is wanted.
LEMMA PickedSame ==
  ASSUME NEW s, NEW t, NEW I, NEW J, NEW n \in Nat, Len(s) = n, Len(t) = n,
         \A i \in 1..n : t[i] = s[i] /\ (i \in J <=> i \in I)
  PROVE  Picked(t, J) = Picked(s, I)
<1>1. PICK f : Picks(s, I, f)
  BY PickedUnfolds
<1>2. PICK g : Picks(t, J, g)
  BY PickedUnfolds
<1> DEFINE Same == {m \in Nat : m <= n => g[m] = f[m]}
<1>3. 0 \in Same
  BY <1>1, <1>2 DEF Picks
<1>4. ASSUME NEW m \in Same PROVE m + 1 \in Same
  <2> SUFFICES ASSUME m + 1 <= n PROVE g[m + 1] = f[m + 1]
    OBVIOUS
  <2>1. g[m] = f[m] /\ m + 1 \in 1..n
    OBVIOUS
  <2> QED BY <1>1, <1>2, <2>1 DEF Picks, PickOne
<1>5. Same = Nat
  BY <1>3, <1>4, SetInduction
<1>6. g[n] = f[n]
  BY <1>5
<1> HIDE DEF Same
<1> QED BY <1>1, <1>2, <1>6 DEF Picks

\* One element more.
LEMMA PickedOneMore ==
  ASSUME NEW s, NEW t, NEW I, NEW J, NEW n \in Nat, Len(s) = n, Len(t) = n + 1,
         \A i \in 1..n : t[i] = s[i] /\ (i \in J <=> i \in I)
  PROVE  Picked(t, J) = IF n + 1 \in J THEN Append(Picked(s, I), t[n + 1]) ELSE Picked(s, I)
<1>1. PICK f : Picks(s, I, f)
  BY PickedUnfolds
<1>2. PICK g : Picks(t, J, g)
  BY PickedUnfolds
<1> DEFINE Same == {m \in Nat : m <= n => g[m] = f[m]}
<1>3. 0 \in Same
  BY <1>1, <1>2 DEF Picks
<1>4. ASSUME NEW m \in Same PROVE m + 1 \in Same
  <2> SUFFICES ASSUME m + 1 <= n PROVE g[m + 1] = f[m + 1]
    OBVIOUS
  <2>1. g[m] = f[m] /\ m + 1 \in 1..n
    OBVIOUS
  <2> QED BY <1>1, <1>2, <2>1 DEF Picks, PickOne
<1>5. Same = Nat
  BY <1>3, <1>4, SetInduction
<1>6. g[n] = f[n]
  BY <1>5
<1> HIDE DEF Same
<1> QED BY <1>1, <1>2, <1>6 DEF Picks, PickOne

\* What is picked is a sequence, of just what is wanted.
Held(p, s, I, m) == \A x : (\E j \in 1..Len(p) : x = p[j]) <=> (\E i \in 1..m : i \in I /\ x = s[i])

LEMMA PickedRange ==
  ASSUME NEW S, NEW s \in Seq(S), NEW I
  PROVE  Picked(s, I) \in Seq(S) /\ Held(Picked(s, I), s, I, Len(s))
<1>1. Len(s) \in Nat /\ \A i \in 1..Len(s) : s[i] \in S
  OBVIOUS
<1>2. PICK f : Picks(s, I, f)
  BY <1>1, PickedUnfolds
<1> DEFINE Good == {m \in Nat : m <= Len(s) => f[m] \in Seq(S) /\ Held(f[m], s, I, m)}
<1>3. 0 \in Good
  <2>1. f[0] = <<>>
    BY <1>2 DEF Picks
  <2>2. Len(<<>>) = 0 /\ 1..0 = {}
    OBVIOUS
  <2>3. Held(<<>>, s, I, 0)
    BY <2>2, Zenon DEF Held
  <2>4. <<>> \in Seq(S)
    OBVIOUS
  <2> QED BY <2>1, <2>3, <2>4
<1>4. ASSUME NEW m \in Good PROVE m + 1 \in Good
  <2> SUFFICES ASSUME m + 1 <= Len(s) PROVE f[m + 1] \in Seq(S) /\ Held(f[m + 1], s, I, m + 1)
    OBVIOUS
  <2>1. f[m] \in Seq(S) /\ Held(f[m], s, I, m)
    BY <1>1
  <2>2. f[m + 1] = PickOne(f[m], s, I, m + 1)
    BY <1>2 DEF Picks
  <2>3. CASE m + 1 \notin I
    <3>1. f[m + 1] = f[m]
      BY <2>2, <2>3 DEF PickOne
    <3>2. \A x : (\E i \in 1..(m + 1) : i \in I /\ x = s[i]) <=> (\E i \in 1..m : i \in I /\ x = s[i])
      BY <2>3
    <3>3. Held(f[m], s, I, m + 1)
      BY <2>1, <3>2 DEF Held
    <3> QED BY <2>1, <3>1, <3>3
  <2>4. CASE m + 1 \in I
    <3> DEFINE p == f[m]
               q == f[m + 1]
    <3>1. s[m + 1] \in S /\ q = Append(p, s[m + 1]) /\ p \in Seq(S)
      BY <1>1, <2>1, <2>2, <2>4 DEF PickOne
    <3> HIDE DEF p, q
    <3>2. /\ q \in Seq(S) /\ Len(q) = Len(p) + 1 /\ Len(p) \in Nat
          /\ \A j \in 1..Len(p) : q[j] = p[j]
          /\ q[Len(p) + 1] = s[m + 1]
      BY <3>1, AppendProperties
    <3>3. ASSUME NEW x PROVE (\E j \in 1..Len(q) : x = q[j])
                               <=> (\E j \in 1..Len(p) : x = p[j]) \/ x = s[m + 1]
      <4>1. \A j \in 1..Len(q) : j \in 1..Len(p) \/ j = Len(p) + 1
        BY <3>2
      <4>2. 1..Len(p) \subseteq 1..Len(q) /\ Len(p) + 1 \in 1..Len(q)
        BY <3>2
      <4> QED BY <3>2, <4>1, <4>2
    <3>4. ASSUME NEW x PROVE (\E i \in 1..(m + 1) : i \in I /\ x = s[i])
                               <=> (\E i \in 1..m : i \in I /\ x = s[i]) \/ x = s[m + 1]
      <4>1. 1..(m + 1) = 1..m \cup {m + 1}
        OBVIOUS
      <4> QED BY <2>4, <4>1
    <3>5. Held(p, s, I, m)
      BY <2>1 DEF p
    <3>6. Held(q, s, I, m + 1)
      <4> SUFFICES ASSUME NEW x
                   PROVE  (\E j \in 1..Len(q) : x = q[j]) <=> (\E i \in 1..(m + 1) : i \in I /\ x = s[i])
        BY Zenon DEF Held
      <4>1. (\E j \in 1..Len(p) : x = p[j]) <=> (\E i \in 1..m : i \in I /\ x = s[i])
        BY <3>5, Zenon DEF Held
      <4> QED BY <3>3, <3>4, <4>1
    <3> QED BY <3>2, <3>6 DEF q
  <2> QED BY <2>3, <2>4
<1>5. Good = Nat
  BY <1>3, <1>4, SetInduction
<1>6. f[Len(s)] \in Seq(S) /\ Held(f[Len(s)], s, I, Len(s))
  BY <1>1, <1>5
<1> HIDE DEF Good
<1> QED BY <1>2, <1>6 DEF Picks
-----------------------------------------------------------------------------
(***************************************************************************)
(* Where what is picked comes from: g maps the places of the one sequence  *)
(* to the places of the other, one to one.                                 *)
(***************************************************************************)
Places(p, s, I, m, g) ==
  /\ g \in [1..Len(p) -> {i \in 1..m : i \in I}]
  /\ \A k \in 1..Len(p) : p[k] = s[g[k]]
  /\ \A k, j \in 1..Len(p) : g[k] = g[j] => k = j
  /\ \A i \in 1..m : i \in I => \E k \in 1..Len(p) : g[k] = i

LEMMA PickedPlaces ==
  ASSUME NEW S, NEW s \in Seq(S), NEW I
  PROVE  Picked(s, I) \in Seq(S) /\ \E g : Places(Picked(s, I), s, I, Len(s), g)
<1>1. Len(s) \in Nat /\ \A i \in 1..Len(s) : s[i] \in S
  OBVIOUS
<1>2. PICK f : Picks(s, I, f)
  BY <1>1, PickedUnfolds
<1> DEFINE Good == {m \in Nat : m <= Len(s) => f[m] \in Seq(S) /\ \E g : Places(f[m], s, I, m, g)}
<1>3. 0 \in Good
  <2>1. f[0] = <<>> /\ Len(<<>>) = 0 /\ 1..0 = {}
    BY <1>2 DEF Picks
  <2>2. Places(<<>>, s, I, 0, [k \in {} |-> 0])
    BY <2>1 DEF Places
  <2>3. <<>> \in Seq(S)
    OBVIOUS
  <2> QED BY <2>1, <2>2, <2>3
<1>4. ASSUME NEW m \in Good PROVE m + 1 \in Good
  <2> SUFFICES ASSUME m + 1 <= Len(s)
               PROVE  f[m + 1] \in Seq(S) /\ \E g : Places(f[m + 1], s, I, m + 1, g)
    OBVIOUS
  <2> DEFINE p == f[m]
             q == f[m + 1]
  <2>1. p \in Seq(S) /\ Len(p) \in Nat /\ m \in Nat
    BY <1>1
  <2>2. PICK g : Places(p, s, I, m, g)
    BY <1>1
  <2>3. q = PickOne(p, s, I, m + 1)
    BY <1>2 DEF Picks
  <2> HIDE DEF p, q
  <2>4. CASE m + 1 \notin I
    <3>1. q = p
      BY <2>3, <2>4 DEF PickOne
    <3>2. {i \in 1..(m + 1) : i \in I} = {i \in 1..m : i \in I}
      BY <2>1, <2>4
    <3>3. Places(p, s, I, m + 1, g)
      BY <2>2, <3>2 DEF Places
    <3> QED BY <2>1, <3>1, <3>3 DEF q
  <2>5. CASE m + 1 \in I
    <3> DEFINE n == Len(p)
               h == [k \in 1..(n + 1) |-> IF k <= n THEN g[k] ELSE m + 1]
    <3>1. s[m + 1] \in S /\ q = Append(p, s[m + 1])
      BY <1>1, <2>1, <2>3, <2>5 DEF PickOne
    <3>2. /\ q \in Seq(S) /\ Len(q) = n + 1 /\ n \in Nat
          /\ \A k \in 1..n : q[k] = p[k]
          /\ q[n + 1] = s[m + 1]
      BY <2>1, <3>1, AppendProperties
    <3>3. /\ g \in [1..n -> {i \in 1..m : i \in I}]
          /\ \A k \in 1..n : p[k] = s[g[k]]
          /\ \A k, j \in 1..n : g[k] = g[j] => k = j
          /\ \A i \in 1..m : i \in I => \E k \in 1..n : g[k] = i
      BY <2>2 DEF Places
    <3> HIDE DEF n
    <3>4. \A k \in 1..(n + 1) : k \in 1..n \/ k = n + 1
      BY <3>2
    <3>5. /\ \A k \in 1..n : k \in 1..(n + 1) /\ h[k] = g[k] /\ g[k] \in 1..m /\ g[k] \in I
          /\ n + 1 \in 1..(n + 1) /\ h[n + 1] = m + 1
      BY <3>2, <3>3
    <3>6. h \in [1..(n + 1) -> {i \in 1..(m + 1) : i \in I}]
      <4>1. h = [k \in 1..(n + 1) |-> h[k]]
        OBVIOUS
      <4> HIDE DEF h
      <4>2. \A k \in 1..n : h[k] \in 1..(m + 1) /\ h[k] \in I
        BY <2>1, <3>5
      <4>3. h[n + 1] \in 1..(m + 1) /\ h[n + 1] \in I
        BY <2>1, <2>5, <3>5
      <4> QED BY <3>4, <4>1, <4>2, <4>3
    <3> HIDE DEF h
    <3>7. \A k \in 1..(n + 1) : q[k] = s[h[k]]
      BY <3>2, <3>3, <3>4, <3>5
    <3>8. \A k, j \in 1..(n + 1) : h[k] = h[j] => k = j
      BY <2>1, <3>3, <3>4, <3>5
    <3>9. ASSUME NEW i \in 1..(m + 1), i \in I PROVE \E k \in 1..(n + 1) : h[k] = i
      <4>1. CASE i \in 1..m
        BY <3>3, <3>5, <3>9, <4>1
      <4>2. CASE i = m + 1
        BY <3>5, <4>2
      <4> QED BY <2>1, <4>1, <4>2
    <3>10. Places(q, s, I, m + 1, h)
      BY <3>2, <3>6, <3>7, <3>8, <3>9 DEF Places
    <3> QED BY <3>2, <3>10 DEF q
  <2> QED BY <2>4, <2>5
<1>5. Good = Nat
  BY <1>3, <1>4, SetInduction
<1>6. f[Len(s)] \in Seq(S) /\ \E g : Places(f[Len(s)], s, I, Len(s), g)
  BY <1>1, <1>5
<1> HIDE DEF Good
<1> QED BY <1>2, <1>6 DEF Picks
=============================================================================
