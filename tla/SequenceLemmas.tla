---------------------------- MODULE SequenceLemmas ----------------------------
(***************************************************************************)
(* What the operators of the community modules that the models use return, *)
(* where that takes an induction.                                          *)
(***************************************************************************)
EXTENDS SequencesExt, SequenceTheorems, FiniteSetTheorems, WellFoundedInduction, TLAPS

\* Induction over the natural numbers, with a set in the place of a predicate:
\* of the intervals 0..n that leave S, one is the least.
LEMMA SetInduction ==
  ASSUME NEW S, 0 \in S, \A n \in Nat : n \in S => n + 1 \in S
  PROVE  Nat \subseteq S
<1>. SUFFICES ASSUME NEW k \in Nat, k \notin S PROVE FALSE
  OBVIOUS
<1>. DEFINE K == 0..k
            T == {0..n : n \in K \ S}
            R == StrictSubsetOrdering(K)
<1>1. IsFiniteSet(K)
  BY FS_Interval
<1>2. IsWellFoundedOn(R, FiniteSubsetsOf(K))
  BY <1>1, FS_StrictSubsetOrderingWellFounded
<1>3. T # {} /\ T \subseteq FiniteSubsetsOf(K)
  <2>1. 0..k \in T
    OBVIOUS
  <2>2. ASSUME NEW n \in K PROVE 0..n \in FiniteSubsetsOf(K)
    BY FS_Interval DEF FiniteSubsetsOf
  <2>. QED
    BY <2>1, <2>2
<1>4. PICK x \in T : \A y \in T : ~(<<y, x>> \in R)
  <2>. HIDE DEF T, R
  <2>. QED
    BY <1>2, <1>3, WFMin
<1>5. PICK n \in K \ S : x = 0..n
  OBVIOUS
<1>6. n - 1 \in K \ S
  OBVIOUS
<1>7. 0..(n - 1) \in T
  BY <1>6
<1>8. <<0..(n - 1), 0..n>> \in R
  BY <1>5, <1>6 DEF StrictSubsetOrdering
<1>. QED
  BY <1>4, <1>5, <1>7, <1>8

(***************************************************************************)
(* FlattenSeq.                                                             *)
(***************************************************************************)
\* The function FlattenSeq is defined by, up to n.
Joins(seqs, n, f) == f = [i \in 1..n |-> IF i = 1 THEN seqs[i] ELSE f[i - 1] \o seqs[i]]

\* There is one.
LEMMA JoinsExists ==
  ASSUME NEW seqs, NEW n \in Nat
  PROVE  \E f : Joins(seqs, n, f)
<1>. DEFINE S == {m \in Nat : \E f : Joins(seqs, m, f)}
<1>1. 0 \in S
  <2>1. Joins(seqs, 0, [i \in 1..0 |-> 0])
    BY DEF Joins
  <2>. QED
    BY <2>1
<1>2. ASSUME NEW m \in Nat, m \in S
      PROVE  m + 1 \in S
  <2>1. PICK f : Joins(seqs, m, f)
    BY <1>2
  <2>. DEFINE g == [i \in 1..(m + 1) |->
                      IF i = 1 THEN seqs[i] ELSE
                      IF i = m + 1 THEN f[m] \o seqs[i] ELSE f[i]]
  <2>2. ASSUME NEW i \in 1..(m + 1)
        PROVE  g[i] = IF i = 1 THEN seqs[i] ELSE g[i - 1] \o seqs[i]
    <3>1. \A j \in 1..m : f[j] = IF j = 1 THEN seqs[j] ELSE f[j - 1] \o seqs[j]
      BY <2>1 DEF Joins
    <3>2. \A j \in 1..m : g[j] = f[j]
      BY <3>1
    <3>3. CASE i = 1
      BY <3>3
    <3>4. CASE i = m + 1 /\ i # 1
      <4>1. m \in 1..m
        BY <3>4
      <4>2. g[i] = f[m] \o seqs[i]
        BY <3>4
      <4>. HIDE DEF g
      <4>3. g[i - 1] = f[m]
        BY <3>2, <3>4, <4>1
      <4>. QED
        BY <3>4, <4>2, <4>3
    <3>5. CASE i \in 1..m /\ i # 1
      <4>1. i - 1 \in 1..m
        BY <3>5
      <4>2. g[i] = f[i] /\ g[i - 1] = f[i - 1] /\ f[i] = f[i - 1] \o seqs[i]
        BY <3>1, <3>2, <3>5, <4>1
      <4>. QED
        BY <3>5, <4>2
    <3>. QED
      BY <3>3, <3>4, <3>5
  <2>3. Joins(seqs, m + 1, g)
    BY <2>2 DEF Joins
  <2>. HIDE DEF g
  <2>. QED
    BY <2>3
<1>3. Nat \subseteq S
  <2>. HIDE DEF S
  <2>. QED
    BY <1>1, <1>2, SetInduction
<1>. QED
  BY <1>3

\* Joining sequences: the elements of the result are those of its parts.
LEMMA FlattenProperties ==
  ASSUME NEW X, NEW seqs \in Seq(Seq(X))
  PROVE  /\ FlattenSeq(seqs) \in Seq(X)
         /\ \A x : x \in Range(FlattenSeq(seqs)) <=> \E i \in DOMAIN seqs : x \in Range(seqs[i])
<1>. DEFINE n == Len(seqs)
<1>1. n \in Nat /\ DOMAIN seqs = 1..n
  OBVIOUS
<1>2. CASE n = 0
  <2>1. FlattenSeq(seqs) = <<>> /\ seqs = <<>>
    BY <1>2 DEF FlattenSeq
  <2>. QED
    BY <2>1 DEF Range
<1>3. CASE n > 0
  <2>. DEFINE flatten == CHOOSE f : Joins(seqs, n, f)
  <2>1. FlattenSeq(seqs) = flatten[n]
    BY <1>1, <1>3 DEF FlattenSeq, Joins
  <2>2. Joins(seqs, n, flatten)
    BY <1>1, JoinsExists
  <2>. HIDE DEF flatten
  <2>3. \A i \in 1..n : flatten[i] = IF i = 1 THEN seqs[i] ELSE flatten[i - 1] \o seqs[i]
    BY <2>2 DEF Joins
  <2>. DEFINE Joined(i) ==
                /\ flatten[i] \in Seq(X)
                /\ \A x : x \in Range(flatten[i]) <=> \E j \in 1..i : x \in Range(seqs[j])
              S == {i \in Nat : i \in 1..n => Joined(i)}
  <2>4. 0 \in S
    OBVIOUS
  <2>5. ASSUME NEW i \in Nat, i \in S, i + 1 \in 1..n
        PROVE  Joined(i + 1)
    <3>1. seqs[i + 1] \in Seq(X)
      BY <1>1, <2>5
    <3>2. CASE i = 0
      <4>1. flatten[1] = seqs[1]
        BY <2>3, <2>5, <3>2
      <4>. QED
        BY <3>1, <3>2, <4>1
    <3>3. CASE i > 0
      <4>1. Joined(i)
        BY <2>5, <3>3
      <4>2. flatten[i + 1] = flatten[i] \o seqs[i + 1]
        <5>1. (i + 1) - 1 = i /\ i + 1 # 1
          BY <3>3
        <5>. QED
          BY <2>3, <2>5, <5>1
      <4>3. flatten[i + 1] \in Seq(X)
        BY <3>1, <4>1, <4>2
      <4>4. Range(flatten[i + 1]) = Range(flatten[i]) \cup Range(seqs[i + 1])
        <5>. HIDE DEF n
        <5>. QED
          BY <3>1, <4>1, <4>2, RangeConcatenation
      <4>5. ASSUME NEW x
            PROVE  x \in Range(flatten[i + 1]) <=> \E j \in 1..(i + 1) : x \in Range(seqs[j])
        <5>1. x \in Range(flatten[i]) <=> \E j \in 1..i : x \in Range(seqs[j])
          BY <4>1
        <5>2. 1..(i + 1) = 1..i \cup {i + 1}
          OBVIOUS
        <5>. HIDE DEF Joined
        <5>. QED
          BY <4>4, <5>1, <5>2
      <4>. QED
        BY <4>3, <4>5
    <3>. QED
      BY <3>2, <3>3
  <2>6. Nat \subseteq S
    <3>1. \A i \in Nat : i \in S => i + 1 \in S
      <4>. HIDE DEF Joined
      <4>1. ASSUME NEW i \in Nat, i \in S PROVE i + 1 \in S
        <5>1. i + 1 \in 1..n => Joined(i + 1)
          BY <2>5, <4>1
        <5>. QED
          BY <5>1
      <4>. QED
        BY <4>1
    <3>. HIDE DEF S
    <3>. QED
      BY <2>4, <3>1, SetInduction
  <2>7. Joined(n)
    <3>. HIDE DEF Joined
    <3>. QED
      BY <1>1, <1>3, <2>6
  <2>. QED
    BY <1>1, <2>1, <2>7
<1>. QED
  BY <1>1, <1>2, <1>3

\* Joining sequences that are not empty: as many elements as there are sequences.
LEMMA FlattenLength ==
  ASSUME NEW X, NEW seqs \in Seq(Seq(X)), \A i \in DOMAIN seqs : seqs[i] # <<>>
  PROVE  Len(seqs) <= Len(FlattenSeq(seqs))
<1>. DEFINE n == Len(seqs)
<1>1. n \in Nat /\ DOMAIN seqs = 1..n
  OBVIOUS
<1>4. \A i \in 1..n : seqs[i] \in Seq(X) /\ seqs[i] # <<>>
  <2>1. \A i \in 1..n : seqs[i] \in Seq(X)
    OBVIOUS
  <2>2. \A i \in 1..n : seqs[i] # <<>>
    BY <1>1
  <2>. QED
    BY <2>1, <2>2
<1>2. CASE n = 0
  <2>1. FlattenSeq(seqs) = <<>> /\ seqs = <<>>
    BY <1>2 DEF FlattenSeq
  <2>. QED
    BY <2>1
<1>3. CASE n > 0
  <2>. DEFINE flatten == CHOOSE f : Joins(seqs, n, f)
  <2>1. FlattenSeq(seqs) = flatten[n]
    BY <1>1, <1>3 DEF FlattenSeq, Joins
  <2>2. Joins(seqs, n, flatten)
    BY <1>1, JoinsExists
  <2>. HIDE DEF flatten
  <2>3. \A i \in 1..n : flatten[i] = IF i = 1 THEN seqs[i] ELSE flatten[i - 1] \o seqs[i]
    BY <2>2 DEF Joins
  <2>. DEFINE Joined(i) == flatten[i] \in Seq(X) /\ i <= Len(flatten[i])
              S == {i \in Nat : i \in 1..n => Joined(i)}
  <2>4. 0 \in S
    OBVIOUS
  <2>5. ASSUME NEW i \in Nat, i \in S, i + 1 \in 1..n
        PROVE  Joined(i + 1)
    <3>1. seqs[i + 1] \in Seq(X) /\ Len(seqs[i + 1]) >= 1
      <4>1. seqs[i + 1] \in Seq(X) /\ seqs[i + 1] # <<>>
        BY <1>4, <2>5
      <4>2. \A s \in Seq(X) : s # <<>> => Len(s) >= 1
        OBVIOUS
      <4>. QED
        BY <4>1, <4>2
    <3>2. CASE i = 0
      <4>1. flatten[1] = seqs[1]
        BY <2>3, <2>5, <3>2
      <4>. QED
        BY <3>1, <3>2, <4>1
    <3>3. CASE i > 0
      <4>1. Joined(i)
        BY <2>5, <3>3
      <4>2. flatten[i + 1] = flatten[i] \o seqs[i + 1]
        <5>1. (i + 1) - 1 = i /\ i + 1 # 1
          BY <3>3
        <5>. QED
          BY <2>3, <2>5, <5>1
      <4>. HIDE DEF n
      <4>3. /\ flatten[i + 1] \in Seq(X)
            /\ Len(flatten[i + 1]) = Len(flatten[i]) + Len(seqs[i + 1])
        BY <3>1, <4>1, <4>2
      <4>4. Len(flatten[i]) \in Nat /\ Len(seqs[i + 1]) \in Nat
        BY <3>1, <4>1
      <4>5. Len(flatten[i]) + Len(seqs[i + 1]) >= i + 1
        <5>1. \A a, b \in Nat : a >= i /\ b >= 1 => a + b >= i + 1
          OBVIOUS
        <5>2. Len(flatten[i]) >= i
          BY <4>1
        <5>. HIDE DEF Joined
        <5>. QED
          BY <3>1, <4>4, <5>1, <5>2
      <4>. QED
        BY <4>3, <4>5
    <3>. QED
      BY <3>2, <3>3
  <2>6. Nat \subseteq S
    <3>1. ASSUME NEW i \in Nat, i \in S PROVE i + 1 \in S
      <4>. HIDE DEF Joined
      <4>1. i + 1 \in 1..n => Joined(i + 1)
        BY <2>5, <3>1
      <4>. QED
        BY <4>1
    <3>. HIDE DEF S
    <3>. QED
      BY <2>4, <3>1, SetInduction
  <2>7. Joined(n)
    <3>. HIDE DEF Joined
    <3>. QED
      BY <1>1, <1>3, <2>6
  <2>. QED
    BY <1>1, <2>1, <2>7
<1>. QED
  BY <1>1, <1>2, <1>3

\* One sequence alone.
LEMMA FlattenOne ==
  ASSUME NEW s
  PROVE  FlattenSeq(<<s>>) = s
<1>. DEFINE flatten == CHOOSE f : Joins(<<s>>, 1, f)
<1>1. FlattenSeq(<<s>>) = flatten[1]
  BY DEF FlattenSeq, Joins
<1>2. Joins(<<s>>, 1, flatten)
  BY JoinsExists
<1>. HIDE DEF flatten
<1>. QED
  BY <1>1, <1>2 DEF Joins

\* The function is the same as far as the sequences are.
SameUpTo(n, s, t) == \A i \in 1..n : s[i] = t[i]
LEMMA JoinsAgree ==
  ASSUME NEW n \in Nat, NEW m \in Nat, n <= m, NEW s, NEW t, SameUpTo(n, s, t),
         NEW f, NEW g, Joins(s, n, f), Joins(t, m, g)
  PROVE  SameUpTo(n, f, g)
<1>. DEFINE S == {i \in Nat : i \in 1..n => f[i] = g[i]}
<1>1. /\ \A i \in 1..n : f[i] = IF i = 1 THEN s[i] ELSE f[i - 1] \o s[i]
      /\ \A i \in 1..n : g[i] = IF i = 1 THEN t[i] ELSE g[i - 1] \o t[i]
  <2>1. \A i \in 1..n : f[i] = IF i = 1 THEN s[i] ELSE f[i - 1] \o s[i]
    BY DEF Joins
  <2>2. \A i \in 1..m : g[i] = IF i = 1 THEN t[i] ELSE g[i - 1] \o t[i]
    BY DEF Joins
  <2>3. \A i \in 1..n : i \in 1..m
    OBVIOUS
  <2>. QED
    BY <2>1, <2>2, <2>3
<1>2. 0 \in S
  OBVIOUS
<1>3. ASSUME NEW i \in Nat, i \in S PROVE i + 1 \in S
  <2>1. CASE i = 0
    <3>1. 1 \in 1..n => f[1] = g[1]
      BY <1>1 DEF SameUpTo
    <3>. QED
      BY <2>1, <3>1
  <2>2. CASE i # 0 /\ i + 1 \in 1..n
    <3>1. i \in 1..n /\ (i + 1) - 1 = i /\ i + 1 # 1
      BY <2>2
    <3>2. f[i] = g[i]
      BY <1>3, <3>1
    <3>3. f[i + 1] = f[i] \o s[i + 1] /\ g[i + 1] = g[i] \o t[i + 1]
      BY <1>1, <2>2, <3>1
    <3>4. s[i + 1] = t[i + 1]
      BY <2>2 DEF SameUpTo
    <3>5. f[i + 1] = g[i + 1]
      BY <3>2, <3>3, <3>4
    <3>. QED
      BY <3>5
  <2>3. CASE i + 1 \notin 1..n
    BY <2>3
  <2>. QED
    BY <2>1, <2>2, <2>3
<1>4. Nat \subseteq S
  <2>. HIDE DEF S
  <2>. QED
    BY <1>2, <1>3, SetInduction
<1>. QED
  BY <1>4 DEF SameUpTo

\* What FlattenSeq returns, by that function.
LEMMA FlattenBy ==
  ASSUME NEW n \in Nat, n > 0, NEW s, Len(s) = n
  PROVE  \E f : Joins(s, n, f) /\ FlattenSeq(s) = f[n]
<1>. DEFINE flatten == CHOOSE f : Joins(s, n, f)
<1>1. FlattenSeq(s) = flatten[n]
  BY DEF FlattenSeq, Joins
<1>2. Joins(s, n, flatten)
  BY JoinsExists
<1>. HIDE DEF flatten
<1>. QED
  BY <1>1, <1>2

LEMMA FlattenNone == FlattenSeq(<<>>) = <<>>
BY DEF FlattenSeq

\* One sequence more at the end, and at the beginning.
LEMMA FlattenAppend ==
  ASSUME NEW X, NEW s \in Seq(Seq(X)), NEW x \in Seq(X)
  PROVE  FlattenSeq(Append(s, x)) = FlattenSeq(s) \o x
<1>1. PICK n \in Nat : n = Len(s)
  OBVIOUS
<1>2. CASE n = 0
  <2>1. s = <<>> /\ Append(s, x) = <<x>>
    <3>1. s = <<>>
      BY <1>1, <1>2, EmptySeq
    <3>2. Append(<<>>, x) = <<x>>
      OBVIOUS
    <3>. QED
      BY <3>1, <3>2
  <2>2. <<>> \o x = x
    OBVIOUS
  <2>. QED
    BY <2>1, <2>2, FlattenOne, FlattenNone
<1>3. CASE n > 0
  <2>1. PICK t : t = Append(s, x)
    OBVIOUS
  <2>2. Len(t) = n + 1 /\ t[n + 1] = x /\ \A i \in 1..n : s[i] = t[i]
    BY <1>1, <2>1
  <2>3. PICK f : Joins(s, n, f) /\ FlattenSeq(s) = f[n]
    BY <1>1, <1>3, FlattenBy
  <2>4. PICK g : Joins(t, n + 1, g) /\ FlattenSeq(t) = g[n + 1]
    <3>1. n + 1 \in Nat /\ n + 1 > 0
      OBVIOUS
    <3>. QED
      BY <2>2, <3>1, FlattenBy
  <2>5. f[n] = g[n]
    <3>1. n + 1 \in Nat /\ n <= n + 1 /\ n \in 1..n
      BY <1>3
    <3>2. PICK m \in Nat : m = n + 1 /\ n <= m
      BY <3>1
    <3>3. Joins(t, m, g)
      BY <2>4, <3>2
    <3>4. \A i \in 1..n : f[i] = g[i]
      <4>1. SameUpTo(n, s, t)
        BY <2>2 DEF SameUpTo
      <4>2. SameUpTo(n, f, g)
        BY <2>3, <3>2, <3>3, <4>1, JoinsAgree
      <4>. QED
        BY <4>2 DEF SameUpTo
    <3>. QED
      BY <3>1, <3>4
  <2>6. g[n + 1] = g[n] \o t[n + 1]
    <3>1. n + 1 \in 1..(n + 1) /\ n + 1 # 1 /\ (n + 1) - 1 = n
      BY <1>3
    <3>2. \A i \in 1..(n + 1) : g[i] = IF i = 1 THEN t[i] ELSE g[i - 1] \o t[i]
      BY <2>4 DEF Joins
    <3>3. g[n + 1] = IF n + 1 = 1 THEN t[n + 1] ELSE g[(n + 1) - 1] \o t[n + 1]
      BY <3>1, <3>2
    <3>. QED
      BY <3>1, <3>3
  <2>. QED
    BY <2>1, <2>2, <2>3, <2>4, <2>5, <2>6
<1>. QED
  BY <1>2, <1>3

LEMMA FlattenHead ==
  ASSUME NEW X, NEW s \in Seq(Seq(X)), s # <<>>
  PROVE  FlattenSeq(s) = Head(s) \o FlattenSeq(Tail(s))
<1>0. \A a, b, c \in Seq(X) : (a \o b) \o c = a \o (b \o c)
  BY ConcatAssociative
<1>1. PICK n \in Nat, x \in Seq(X), t \in Seq(Seq(X)) :
        /\ Len(s) = n + 1 /\ x = Head(s) /\ t = Tail(s) /\ Len(t) = n
        /\ s[1] = x /\ \A i \in 1..n : t[i] = s[i + 1] /\ t[i] \in Seq(X)
  <2>1. Len(s) - 1 \in Nat /\ Head(s) \in Seq(X) /\ Tail(s) \in Seq(Seq(X))
    OBVIOUS
  <2>2. Len(Tail(s)) = Len(s) - 1 /\ s[1] = Head(s)
    OBVIOUS
  <2>3. \A i \in 1..(Len(s) - 1) : Tail(s)[i] = s[i + 1] /\ Tail(s)[i] \in Seq(X)
    OBVIOUS
  <2>4. Len(s) = (Len(s) - 1) + 1
    OBVIOUS
  <2>. QED
    BY <2>1, <2>2, <2>3, <2>4
<1>2. CASE n = 0
  <2>1. s = <<x>> /\ t = <<>>
    BY <1>1, <1>2
  <2>2. x \o <<>> = x
    OBVIOUS
  <2>. QED
    BY <1>1, <2>1, <2>2, FlattenOne, FlattenNone
<1>3. CASE n > 0
  <2>1. PICK g : Joins(s, n + 1, g) /\ FlattenSeq(s) = g[n + 1]
    <3>1. n + 1 \in Nat /\ n + 1 > 0
      OBVIOUS
    <3>. QED
      BY <1>1, <3>1, FlattenBy
  <2>2. PICK f : Joins(t, n, f) /\ FlattenSeq(t) = f[n]
    BY ZenonT(60), <1>1, <1>3, FlattenBy
  <2>3. \A i \in 1..n : f[i] = IF i = 1 THEN t[i] ELSE f[i - 1] \o t[i]
    BY <2>2 DEF Joins
  <2>4. \A i \in 1..(n + 1) : g[i] = IF i = 1 THEN s[i] ELSE g[i - 1] \o s[i]
    BY <2>1 DEF Joins
  <2>. DEFINE Good(i) == f[i] \in Seq(X) /\ g[i + 1] = x \o f[i]
              S == {i \in Nat : i \in 1..n => Good(i)}
  <2>5. 0 \in S
    OBVIOUS
  <2>6. g[2] = x \o f[1] /\ f[1] = t[1]
    <3>1. 1 \in 1..n /\ 1 \in 1..(n + 1) /\ 2 \in 1..(n + 1) /\ 2 - 1 = 1
      BY <1>3
    <3>2. g[1] = x
      BY <1>1, <2>4, <3>1
    <3>3. f[1] = t[1]
      BY <2>3, <3>1
    <3>4. g[2] = g[1] \o s[2]
      <4>1. g[2] = IF 2 = 1 THEN s[2] ELSE g[2 - 1] \o s[2]
        BY <2>4, <3>1
      <4>2. 2 # 1
        OBVIOUS
      <4>. QED
        BY <3>1, <4>1, <4>2
    <3>5. s[2] = t[1]
      <4>1. t[1] = s[1 + 1]
        BY <1>1, <3>1
      <4>. QED
        BY <4>1
    <3>. QED
      BY <3>2, <3>3, <3>4, <3>5
  <2>7. ASSUME NEW i \in Nat, i \in S PROVE i + 1 \in S
    <3>1. CASE i = 0 /\ 1 \in 1..n
      <4>1. Good(1)
        <5>1. t[1] \in Seq(X) /\ 1 + 1 = 2
          BY <1>1, <3>1
        <5>. QED
          BY <2>6, <5>1
      <4>. HIDE DEF Good
      <4>. QED
        BY <3>1, <4>1
    <3>2. CASE i # 0 /\ i + 1 \in 1..n
      <4>1. /\ i \in 1..n /\ (i + 1) - 1 = i /\ i + 1 # 1
            /\ (i + 1) + 1 \in 1..(n + 1) /\ (i + 1) + 1 # 1 /\ ((i + 1) + 1) - 1 = i + 1
        BY <3>2
      <4>2. Good(i)
        BY <2>7, <4>1
      <4>3. f[i + 1] = f[i] \o t[i + 1]
        BY <2>3, <3>2, <4>1
      <4>4. g[(i + 1) + 1] = g[i + 1] \o s[(i + 1) + 1]
        BY <2>4, <4>1
      <4>5. t[i + 1] = s[(i + 1) + 1] /\ t[i + 1] \in Seq(X)
        BY <1>1, <3>2
      <4>6. PICK a \in Seq(X), b \in Seq(X) : a = f[i] /\ b = t[i + 1]
        BY <4>2, <4>5
      <4>7. a \o b \in Seq(X) /\ (x \o a) \o b = x \o (a \o b)
        BY SMTT(30), <1>0
      <4>8. Good(i + 1)
        BY <4>2, <4>3, <4>4, <4>5, <4>6, <4>7
      <4>. HIDE DEF Good
      <4>. QED
        BY <4>8
    <3>3. CASE i + 1 \notin 1..n
      BY <3>3
    <3>. QED
      BY <3>1, <3>2, <3>3
  <2>8. Nat \subseteq S
    <3>. HIDE DEF S
    <3>. QED
      BY <2>5, <2>7, SetInduction
  <2>9. Good(n)
    <3>1. n \in 1..n
      BY <1>3
    <3>. HIDE DEF Good
    <3>. QED
      BY <2>8, <3>1
  <2>. QED
    BY <1>1, <2>1, <2>2, <2>9
<1>. QED
  BY <1>2, <1>3

\* An element that only one of the sequences has, and that once, is not twice in their join.
NotTwice(s, x) == \A i, k \in DOMAIN s : s[i] = x /\ s[k] = x => i = k
NotTwiceAmong(seqs, x) ==
    /\ \A i \in DOMAIN seqs : NotTwice(seqs[i], x)
    /\ \A i, k \in DOMAIN seqs : x \in Range(seqs[i]) /\ x \in Range(seqs[k]) => i = k

LEMMA NotTwiceConcat ==
  ASSUME NEW X, NEW x, NEW a \in Seq(X), NEW b \in Seq(X), NotTwice(a, x), NotTwice(b, x),
         x \notin Range(a) \/ x \notin Range(b)
  PROVE  NotTwice(a \o b, x)
<1>1. PICK c : c = a \o b
  OBVIOUS
<1>2. /\ Len(a) \in Nat /\ Len(b) \in Nat /\ Len(c) = Len(a) + Len(b) /\ c \in Seq(X)
      /\ \A i \in 1..Len(a) : c[i] = a[i]
      /\ \A i \in 1..Len(b) : c[Len(a) + i] = b[i]
  BY <1>1
<1>3. DOMAIN a = 1..Len(a) /\ DOMAIN b = 1..Len(b) /\ DOMAIN c = 1..(Len(a) + Len(b))
  BY <1>2
<1>4. ASSUME NEW i \in DOMAIN c, c[i] = x
      PROVE  \/ i \in DOMAIN a /\ a[i] = x
             \/ i - Len(a) \in DOMAIN b /\ b[i - Len(a)] = x
  <2>1. CASE i \in 1..Len(a)
    BY <1>2, <1>3, <1>4, <2>1
  <2>2. CASE i \notin 1..Len(a)
    <3>1. i - Len(a) \in 1..Len(b) /\ i = Len(a) + (i - Len(a))
      BY <1>2, <1>3, <2>2
    <3>. QED
      BY <1>2, <1>3, <1>4, <3>1
  <2>. QED
    BY <2>1, <2>2
<1>5. ASSUME NEW i \in DOMAIN c, NEW k \in DOMAIN c, c[i] = x, c[k] = x
      PROVE  i = k
  <2>1. i \in Int /\ k \in Int
    BY <1>2, <1>3
  <2>2. /\ (\E j \in DOMAIN a : a[j] = x) => x \in Range(a)
        /\ (\E j \in DOMAIN b : b[j] = x) => x \in Range(b)
    BY DEF Range
  <2>. QED
    BY <1>2, <1>4, <1>5, <2>1, <2>2 DEF NotTwice
<1>. QED
  BY <1>1, <1>5 DEF NotTwice

LEMMA FlattenNotTwice ==
  ASSUME NEW X, NEW x, NEW seqs \in Seq(Seq(X)), NotTwiceAmong(seqs, x)
  PROVE  NotTwice(FlattenSeq(seqs), x)
<1>. DEFINE Good(s) == NotTwiceAmong(s, x) => NotTwice(FlattenSeq(s), x)
            S == {n \in Nat : \A s \in Seq(Seq(X)) : Len(s) = n => Good(s)}
<1>1. 0 \in S
  <2>1. \A s \in Seq(Seq(X)) : Len(s) = 0 => FlattenSeq(s) = <<>>
    BY EmptySeq, FlattenNone
  <2>2. NotTwice(<<>>, x)
    BY DEF NotTwice
  <2>. QED
    BY <2>1, <2>2
<1>2. ASSUME NEW n \in Nat, n \in S
      PROVE  n + 1 \in S
  <2>. SUFFICES ASSUME NEW s \in Seq(Seq(X)), Len(s) = n + 1, NotTwiceAmong(s, x)
                PROVE  NotTwice(FlattenSeq(s), x)
    OBVIOUS
  <2>1. PICK f : f = SubSeq(s, 1, n)
    OBVIOUS
  <2>2. PICK y : y = s[n + 1]
    OBVIOUS
  <2>3. /\ f \in Seq(Seq(X)) /\ Len(f) = n /\ y \in Seq(X)
        /\ \A i \in 1..n : f[i] = s[i]
    BY <2>1, <2>2
  <2>4. s = Append(f, y)
    <3>1. PICK z : z = Append(f, y)
      OBVIOUS
    <3>2. z \in Seq(Seq(X)) /\ Len(z) = n + 1 /\ \A i \in 1..(n + 1) : z[i] = s[i]
      BY <2>2, <2>3, <3>1
    <3>. QED
      BY <3>1, <3>2, SeqEqual
  <2>5. /\ DOMAIN f = 1..n /\ DOMAIN s = 1..(n + 1)
        /\ \A i \in 1..n : i \in 1..(n + 1) /\ i # n + 1
        /\ n + 1 \in 1..(n + 1)
    BY <2>3
  <2>6. NotTwiceAmong(f, x) /\ NotTwice(y, x) /\ \A i \in 1..n : x \in Range(f[i]) => x \notin Range(y)
    BY <2>2, <2>3, <2>5 DEF NotTwiceAmong
  <2>7. NotTwice(FlattenSeq(f), x)
    <3>. HIDE DEF Good
    <3>1. Good(f)
      BY <1>2, <2>3
    <3>. QED
      BY <2>6, <3>1 DEF Good
  <2>8. PICK g \in Seq(X) : g = FlattenSeq(f)
    BY <2>3, FlattenProperties
  <2>9. x \in Range(g) => x \notin Range(y)
    <3>1. x \in Range(g) <=> \E i \in DOMAIN f : x \in Range(f[i])
      BY <2>3, <2>8, FlattenProperties
    <3>. QED
      BY <2>5, <2>6, <3>1
  <2>10. NotTwice(g \o y, x)
    BY <2>3, <2>6, <2>7, <2>8, <2>9, NotTwiceConcat
  <2>11. FlattenSeq(s) = g \o y
    BY <2>3, <2>4, <2>8, FlattenAppend
  <2>. QED
    BY <2>10, <2>11
<1>3. Nat \subseteq S
  <2>. HIDE DEF S
  <2>. QED
    BY <1>1, <1>2, SetInduction
<1>. HIDE DEF Good
<1>4. Good(seqs)
  BY <1>3
<1>. QED
  BY <1>4 DEF Good

\* The order in which a finite set happens to be visited.
LEMMA SetToSeqProperties ==
  ASSUME NEW S, IsFiniteSet(S)
  PROVE  SetToSeq(S) \in Seq(S)
<1>1. PICK n \in Nat : ExistsBijection(1..n, S)
  BY FS_NatBijection
<1>2. Cardinality(S) = n
  BY <1>1, FS_CountingElements
<1>3. \E f \in [1..Cardinality(S) -> S] : IsInjective(f)
  BY <1>1, <1>2 DEF ExistsBijection, Bijection, Injection, IsInjective
<1>. QED
  BY <1>2, <1>3 DEF SetToSeq

LEMMA SetToSeqCovers ==
  ASSUME NEW S, IsFiniteSet(S)
  PROVE  Range(SetToSeq(S)) = S
<1>1. PICK n \in Nat : n = Cardinality(S) /\ ExistsBijection(1..n, S)
  BY FS_CardinalityType
<1>2. \E f \in [1..n -> S] : IsInjective(f)
  BY <1>1 DEF ExistsBijection, Bijection, Injection, IsInjective
<1>3. PICK f : f = SetToSeq(S)
  OBVIOUS
<1>4. f \in [1..n -> S] /\ IsInjective(f)
  BY <1>1, <1>2, <1>3 DEF SetToSeq
<1>5. f \in Injection(1..n, S)
  BY <1>4 DEF Injection, IsInjective
<1>6. Cardinality(1..n) = n
  BY FS_Interval
<1>7. f \in Surjection(1..n, S)
  BY <1>1, <1>5, <1>6, FS_Injection
<1>8. Range(f) = S
  BY <1>4, <1>7 DEF Surjection, Range
<1>. QED
  BY <1>3, <1>8

(***************************************************************************)
(* FoldLeft.  The function MapThenFoldSet folds with is defined on all     *)
(* subsets of the indices; step is the operator it folds with, as a        *)
(* function, since a lemma has no operator for a parameter.                *)
(***************************************************************************)
Folds(b, step, seq, S, f) ==
    f = [s \in SUBSET S |-> IF s = {} THEN b ELSE step[<<f[s \ {Max(s)}], seq[Max(s)]>>]]

LEMMA MaxFacts ==
  ASSUME NEW n \in Nat, NEW s \in SUBSET (1..n), s # {}
  PROVE  Max(s) \in s /\ \A x \in s : x <= Max(s)
<1>. DEFINE Bounded == {k \in Nat : \A t \in SUBSET (1..k) :
                          t # {} => \E m \in t : \A x \in t : x <= m}
<1>1. 0 \in Bounded
  <2>1. \A t \in SUBSET (1..0) : t = {}
    OBVIOUS
  <2>. QED
    BY <2>1
<1>2. ASSUME NEW k \in Nat, k \in Bounded PROVE k + 1 \in Bounded
  <2>1. ASSUME NEW t \in SUBSET (1..(k + 1)), t # {}
        PROVE  \E m \in t : \A x \in t : x <= m
    <3>1. CASE k + 1 \in t
      BY <3>1
    <3>2. CASE k + 1 \notin t
      <4>1. t \in SUBSET (1..k)
        BY <3>2
      <4>. QED
        BY <1>2, <2>1, <4>1
    <3>. QED
      BY <3>1, <3>2
  <2>. QED
    BY <2>1
<1>3. Nat \subseteq Bounded
  <2>. HIDE DEF Bounded
  <2>. QED
    BY <1>1, <1>2, SetInduction
<1>4. \E m \in s : \A x \in s : x <= m
  BY <1>3
<1>5. \E m \in s : \A x \in s : m >= x
  BY <1>4
<1>6. Max(s) \in s /\ \A x \in s : Max(s) >= x
  BY <1>5 DEF Max
<1>. QED
  BY <1>6

LEMMA FoldsExist ==
  ASSUME NEW X, NEW Y, NEW b \in X, NEW step \in [X \X Y -> X], NEW seq \in Seq(Y)
  PROVE  \E f \in [SUBSET DOMAIN seq -> X] : Folds(b, step, seq, DOMAIN seq, f)
<1>. DEFINE Good(n) == n \in 0..Len(seq) =>
                         \E f \in [SUBSET (1..n) -> X] : Folds(b, step, seq, 1..n, f)
            N == {n \in Nat : Good(n)}
<1>0. Len(seq) \in Nat /\ DOMAIN seq = 1..Len(seq) /\ \A i \in 1..Len(seq) : seq[i] \in Y
  OBVIOUS
<1>1. 0 \in N
  <2>. DEFINE f == [s \in SUBSET (1..0) |-> b]
  <2>1. f \in [SUBSET (1..0) -> X]
    OBVIOUS
  <2>2. \A s \in SUBSET (1..0) : s = {}
    OBVIOUS
  <2>3. Folds(b, step, seq, 1..0, f)
    BY <2>2 DEF Folds
  <2>. HIDE DEF f
  <2>. QED
    BY <2>1, <2>3
<1>2. ASSUME NEW n \in Nat, n \in N, n + 1 \in 0..Len(seq)
      PROVE  \E g \in [SUBSET (1..(n + 1)) -> X] : Folds(b, step, seq, 1..(n + 1), g)
  <2>1. PICK f \in [SUBSET (1..n) -> X] : Folds(b, step, seq, 1..n, f)
    <3>1. n \in 0..Len(seq)
      BY <1>0, <1>2
    <3>2. Good(n)
      BY <1>2
    <3>. QED
      BY <3>1, <3>2
  <2>. DEFINE g == [s \in SUBSET (1..(n + 1)) |->
                      IF n + 1 \in s THEN step[<<f[s \ {n + 1}], seq[n + 1]>>] ELSE f[s]]
  <2>2. \A s \in SUBSET (1..n) : f[s] = IF s = {} THEN b ELSE step[<<f[s \ {Max(s)}], seq[Max(s)]>>]
    BY <2>1 DEF Folds
  <2>3. \A s \in SUBSET (1..n) : s \in SUBSET (1..(n + 1)) /\ n + 1 \notin s /\ g[s] = f[s]
    OBVIOUS
  <2>4. seq[n + 1] \in Y
    BY <1>0, <1>2
  <2>5. ASSUME NEW s \in SUBSET (1..(n + 1))
        PROVE  /\ g[s] \in X
               /\ g[s] = IF s = {} THEN b ELSE step[<<g[s \ {Max(s)}], seq[Max(s)]>>]
    <3>1. CASE n + 1 \in s
      <4>1. s \ {n + 1} \in SUBSET (1..n)
        OBVIOUS
      <4>2. Max(s) = n + 1
        <5>1. Max(s) \in s /\ \A x \in s : x <= Max(s)
          <6>1. n + 1 \in Nat /\ s # {}
            BY <3>1
          <6>. QED
            BY <6>1, MaxFacts
        <5>2. Max(s) \in 1..(n + 1) /\ n + 1 <= Max(s)
          BY <3>1, <5>1
        <5>. QED
          BY <5>2
      <4>3. g[s] = step[<<f[s \ {n + 1}], seq[n + 1]>>] /\ f[s \ {n + 1}] \in X
        BY <3>1, <4>1
      <4>4. g[s \ {n + 1}] = f[s \ {n + 1}]
        BY <2>3, <4>1
      <4>. HIDE DEF g
      <4>. QED
        BY <2>4, <3>1, <4>2, <4>3, <4>4
    <3>2. CASE n + 1 \notin s
      <4>1. s \in SUBSET (1..n)
        BY <3>2
      <4>2. g[s] = f[s] /\ f[s] \in X
        BY <2>3, <4>1
      <4>3. s # {} => s \ {Max(s)} \in SUBSET (1..n)
        BY <4>1
      <4>4. s # {} => g[s \ {Max(s)}] = f[s \ {Max(s)}]
        BY <2>3, <4>3
      <4>. HIDE DEF g
      <4>. QED
        BY <2>2, <4>1, <4>2, <4>4
    <3>. QED
      BY <3>1, <3>2
  <2>6. g \in [SUBSET (1..(n + 1)) -> X]
    BY <2>5
  <2>7. Folds(b, step, seq, 1..(n + 1), g)
    BY <2>5 DEF Folds
  <2>. HIDE DEF g
  <2>. QED
    BY <2>6, <2>7
<1>3. Nat \subseteq N
  <2>1. ASSUME NEW n \in Nat, n \in N PROVE n + 1 \in N
    <3>1. Good(n + 1)
      BY <1>2, <2>1
    <3>. HIDE DEF Good
    <3>. QED
      BY <3>1
  <2>. HIDE DEF N
  <2>. QED
    BY <1>1, <2>1, SetInduction
<1>4. Good(Len(seq))
  <2>. HIDE DEF Good
  <2>. QED
    BY <1>0, <1>3
<1>5. \E f \in [SUBSET (1..Len(seq)) -> X] : Folds(b, step, seq, 1..Len(seq), f)
  <2>1. Len(seq) \in 0..Len(seq)
    BY <1>0
  <2>. QED
    BY <1>4, <2>1
<1>. QED
  BY <1>0, <1>5

\* Folding with a step that stays in X, element by element.
Traced(X, b, step, seq, x) ==
    \E h \in [0..Len(seq) -> X] :
       /\ h[0] = b /\ x = h[Len(seq)]
       /\ \A i \in 1..Len(seq) : h[i] = step[<<h[i - 1], seq[i]>>]
LEMMA FoldsTrace ==
  ASSUME NEW X, NEW Y, NEW b \in X, NEW step, NEW seq \in Seq(Y), NEW f,
         \A x \in X : \A y \in Y : step[<<x, y>>] \in X,
         Folds(b, step, seq, DOMAIN seq, f)
  PROVE  Traced(X, b, step, seq, f[DOMAIN seq])
<1>. DEFINE N == {n \in Nat : n \in 0..Len(seq) => f[1..n] \in X}
<1>0. Len(seq) \in Nat /\ DOMAIN seq = 1..Len(seq) /\ \A i \in 1..Len(seq) : seq[i] \in Y
  OBVIOUS
<1>1. \A s \in SUBSET (1..Len(seq)) :
        f[s] = IF s = {} THEN b ELSE step[<<f[s \ {Max(s)}], seq[Max(s)]>>]
  BY <1>0 DEF Folds
<1>2. 0 \in N
  <2>1. 1..0 \in SUBSET (1..Len(seq)) /\ 1..0 = {}
    OBVIOUS
  <2>2. f[1..0] = b
    BY <1>1, <2>1
  <2>. QED
    BY <2>2
<1>3. ASSUME NEW n \in Nat, n + 1 \in 0..Len(seq)
      PROVE  f[1..(n + 1)] = step[<<f[1..n], seq[n + 1]>>]
  <2>1. 1..(n + 1) \in SUBSET (1..Len(seq)) /\ 1..(n + 1) # {}
    <3>1. n + 1 <= Len(seq) /\ n + 1 \in 1..(n + 1)
      BY <1>0, <1>3
    <3>2. \A k \in Nat : n + 1 <= k => 1..(n + 1) \subseteq 1..k
      OBVIOUS
    <3>3. 1..(n + 1) \subseteq 1..Len(seq)
      BY <1>0, <3>1, <3>2
    <3>. QED
      BY <3>1, <3>3
  <2>2. Max(1..(n + 1)) = n + 1
    <3>. DEFINE s == 1..(n + 1)
    <3>1. Max(s) \in s /\ \A x \in s : x <= Max(s)
      <4>1. n + 1 \in Nat /\ s # {} /\ s \in SUBSET (1..(n + 1))
        BY <2>1
      <4>. HIDE DEF s
      <4>. QED
        BY <4>1, MaxFacts
    <3>2. n + 1 \in s
      OBVIOUS
    <3>. QED
      BY <3>1, <3>2
  <2>3. (1..(n + 1)) \ {n + 1} = 1..n
    OBVIOUS
  <2>. QED
    BY <1>1, <2>1, <2>2, <2>3
<1>4. Nat \subseteq N
  <2>1. ASSUME NEW n \in Nat, n \in N, n + 1 \in 0..Len(seq) PROVE f[1..(n + 1)] \in X
    <3>1. n \in 0..Len(seq) /\ n + 1 \in 1..Len(seq)
      BY <1>0, <2>1
    <3>2. f[1..n] \in X /\ seq[n + 1] \in Y
      BY <1>0, <2>1, <3>1
    <3>3. step[<<f[1..n], seq[n + 1]>>] \in X
      BY <3>2
    <3>. QED
      BY <1>3, <2>1, <3>3
  <2>2. ASSUME NEW n \in Nat, n \in N PROVE n + 1 \in N
    BY <2>1, <2>2
  <2>. HIDE DEF N
  <2>. QED
    BY <1>2, <2>2, SetInduction
<1>. DEFINE h == [i \in 0..Len(seq) |-> f[1..i]]
<1>5. h \in [0..Len(seq) -> X]
  BY <1>0, <1>4
<1>6. h[0] = b /\ f[DOMAIN seq] = h[Len(seq)]
  <2>1. 1..0 \in SUBSET (1..Len(seq)) /\ 1..0 = {}
    OBVIOUS
  <2>2. f[1..0] = b
    BY <1>1, <2>1
  <2>3. 0 \in 0..Len(seq) /\ Len(seq) \in 0..Len(seq)
    BY <1>0
  <2>4. h[0] = f[1..0] /\ h[Len(seq)] = f[1..Len(seq)]
    BY <2>3
  <2>. QED
    BY <1>0, <2>2, <2>4
<1>7. ASSUME NEW i \in 1..Len(seq) PROVE h[i] = step[<<h[i - 1], seq[i]>>]
  <2>1. PICK n \in Nat : n = i - 1 /\ i = n + 1
    <3>1. i - 1 \in Nat /\ i = (i - 1) + 1
      OBVIOUS
    <3>. QED
      BY <3>1
  <2>2. n \in 0..Len(seq) /\ n + 1 \in 0..Len(seq)
    BY <1>0, <2>1
  <2>. QED
    BY <1>3, <2>1, <2>2
<1>. HIDE DEF h
<1>. QED
  BY <1>5, <1>6, <1>7 DEF Traced

\* In the end it is in X.
LEMMA FoldsStay ==
  ASSUME NEW X, NEW Y, NEW b \in X, NEW step, NEW seq \in Seq(Y), NEW f,
         \A x \in X : \A y \in Y : step[<<x, y>>] \in X,
         Folds(b, step, seq, DOMAIN seq, f)
  PROVE  f[DOMAIN seq] \in X
<1>1. Len(seq) \in 0..Len(seq)
  OBVIOUS
<1>2. Traced(X, b, step, seq, f[DOMAIN seq])
  BY FoldsTrace
<1>. QED
  BY <1>1, <1>2 DEF Traced

(***************************************************************************)
(* Paths: the elements of q, one after the other, take x to y, each by a   *)
(* step in T, over states in X.  What a queue of messages will make of its *)
(* receiver is a path.                                                     *)
(***************************************************************************)
Path(X, T, q, x, y) ==
    \E f \in [0..Len(q) -> X] : /\ f[0] = x /\ f[Len(q)] = y
                                /\ \A i \in 1..Len(q) : <<f[i - 1], q[i], f[i]>> \in T

LEMMA PathNone ==
  ASSUME NEW X, NEW T, NEW x \in X
  PROVE  /\ Path(X, T, <<>>, x, x)
         /\ \A y : Path(X, T, <<>>, x, y) => y = x
<1>1. Path(X, T, <<>>, x, x)
  <2>. DEFINE f == [i \in 0..0 |-> x]
  <2>1. f \in [0..0 -> X] /\ f[0] = x
    OBVIOUS
  <2>. HIDE DEF f
  <2>. QED
    BY <2>1 DEF Path
<1>2. \A y : Path(X, T, <<>>, x, y) => y = x
  BY DEF Path
<1>. QED
  BY <1>1, <1>2

LEMMA PathOne ==
  ASSUME NEW X, NEW T, NEW r, NEW x \in X, NEW y \in X, <<x, r, y>> \in T
  PROVE  Path(X, T, <<r>>, x, y)
<1>. DEFINE f == [i \in 0..1 |-> IF i = 0 THEN x ELSE y]
<1>1. f \in [0..1 -> X] /\ f[0] = x /\ f[1] = y
  OBVIOUS
<1>. HIDE DEF f
<1>2. \A i \in 1..1 : <<f[i - 1], <<r>>[i], f[i]>> \in T
  <2>1. \A i \in 1..1 : i = 1 /\ i - 1 = 0
    OBVIOUS
  <2>. QED
    BY <1>1, <2>1
<1>3. Len(<<r>>) = 1
  OBVIOUS
<1>. QED
  BY <1>1, <1>2, <1>3 DEF Path

LEMMA PathConcat ==
  ASSUME NEW S, NEW X, NEW T, NEW q \in Seq(S), NEW p \in Seq(S), NEW x, NEW y, NEW z,
         Path(X, T, q, x, y), Path(X, T, p, y, z)
  PROVE  Path(X, T, q \o p, x, z)
<1>. DEFINE n == Len(q)
            k == Len(p)
<1>1. PICK f \in [0..n -> X] : /\ f[0] = x /\ f[n] = y
                               /\ \A i \in 1..n : <<f[i - 1], q[i], f[i]>> \in T
  BY DEF Path
<1>2. PICK g \in [0..k -> X] : /\ g[0] = y /\ g[k] = z
                               /\ \A i \in 1..k : <<g[i - 1], p[i], g[i]>> \in T
  BY DEF Path
<1>3. /\ n \in Nat /\ k \in Nat /\ Len(q \o p) = n + k
      /\ \A i \in 1..n : (q \o p)[i] = q[i]
      /\ \A i \in 1..k : (q \o p)[n + i] = p[i]
  BY ConcatProperties
<1>. HIDE DEF n, k
<1>. DEFINE h == [i \in 0..(n + k) |-> IF i <= n THEN f[i] ELSE g[i - n]]
<1>4. /\ \A i \in 0..n : h[i] = f[i]
      /\ \A i \in 0..k : h[n + i] = g[i]
  <2>1. \A i \in 0..n : h[i] = f[i]
    BY <1>3
  <2>2. ASSUME NEW i \in 0..k
        PROVE  h[n + i] = g[i]
    <3>1. CASE i = 0
      BY <1>1, <1>2, <1>3, <3>1
    <3>2. CASE i > 0
      <4>1. n + i \in 0..(n + k) /\ ~(n + i <= n) /\ (n + i) - n = i
        BY <1>3, <3>2
      <4>. QED
        BY <4>1
    <3>. QED
      BY <3>1, <3>2
  <2>. QED
    BY <2>1, <2>2
<1>5. \A i \in 0..(n + k) : i \in 0..n \/ (i - n \in 1..k /\ i = n + (i - n))
  BY <1>3
<1>6. h \in [0..(n + k) -> X]
  <2>1. ASSUME NEW i \in 0..(n + k)
        PROVE  h[i] \in X
    <3>1. CASE i \in 0..n
      BY <1>4, <3>1
    <3>2. CASE i - n \in 1..k /\ i = n + (i - n)
      <4>1. PICK l \in 1..k : i = n + l
        BY <3>2
      <4>2. l \in 0..k
        BY <1>3
      <4>. HIDE DEF h
      <4>. QED
        BY <1>4, <4>1, <4>2
    <3>. QED
      BY <1>5, <3>1, <3>2
  <2>. QED
    BY <2>1
<1>. HIDE DEF h
<1>7. ASSUME NEW i \in 1..(n + k)
      PROVE  <<h[i - 1], (q \o p)[i], h[i]>> \in T
  <2>1. CASE i \in 0..n
    <3>1. i \in 1..n /\ i - 1 \in 0..n
      BY <1>3, <2>1
    <3>. QED
      BY <1>1, <1>3, <1>4, <2>1, <3>1
  <2>2. CASE i - n \in 1..k /\ i = n + (i - n)
    <3>1. PICK l \in 1..k : i = n + l
      BY <2>2
    <3>2. l \in 0..k /\ l - 1 \in 0..k /\ i - 1 = n + (l - 1)
      BY <1>3, <3>1
    <3>3. h[i - 1] = g[l - 1] /\ h[i] = g[l] /\ (q \o p)[i] = p[l]
      BY <1>3, <1>4, <3>1, <3>2
    <3>. QED
      BY <1>2, <3>3
  <2>3. i \in 0..(n + k)
    BY <1>3
  <2>. QED
    BY <1>5, <2>1, <2>2, <2>3
<1>8. h[0] = x /\ h[n + k] = z
  <2>1. 0 \in 0..n /\ k \in 0..k
    BY <1>3
  <2>. QED
    BY <1>1, <1>2, <1>4, <2>1
<1>. QED
  BY <1>3, <1>6, <1>7, <1>8 DEF Path

LEMMA PathHead ==
  ASSUME NEW S, NEW X, NEW T, NEW q \in Seq(S), q # <<>>, NEW x, NEW y, Path(X, T, q, x, y)
  PROVE  \E z \in X : <<x, Head(q), z>> \in T /\ Path(X, T, Tail(q), z, y)
<1>. DEFINE n == Len(q)
<1>1. PICK f \in [0..n -> X] : /\ f[0] = x /\ f[n] = y
                               /\ \A i \in 1..n : <<f[i - 1], q[i], f[i]>> \in T
  BY DEF Path
<1>2. /\ n \in Nat /\ n >= 1 /\ Len(Tail(q)) = n - 1 /\ Head(q) = q[1]
      /\ \A i \in 1..(n - 1) : Tail(q)[i] = q[i + 1]
  OBVIOUS
<1>. HIDE DEF n
<1>. DEFINE h == [i \in 0..(n - 1) |-> f[i + 1]]
<1>3. /\ h \in [0..(n - 1) -> X] /\ h[0] = f[1] /\ h[n - 1] = y
      /\ \A i \in 1..(n - 1) : h[i] = f[i + 1] /\ h[i - 1] = f[i]
  BY <1>1, <1>2
<1>. HIDE DEF h
<1>4. ASSUME NEW i \in 1..(n - 1)
      PROVE  <<h[i - 1], Tail(q)[i], h[i]>> \in T
  <2>1. i + 1 \in 1..n /\ (i + 1) - 1 = i
    BY <1>2
  <2>2. <<f[i], q[i + 1], f[i + 1]>> \in T
    BY <1>1, <2>1
  <2>. QED
    BY <1>2, <1>3, <2>2
<1>5. Path(X, T, Tail(q), f[1], y)
  BY <1>2, <1>3, <1>4 DEF Path
<1>6. <<x, Head(q), f[1]>> \in T /\ f[1] \in X
  <2>1. 1 \in 1..n /\ 1 \in 0..n /\ 1 - 1 = 0
    BY <1>2
  <2>. QED
    BY <1>1, <1>2, <2>1
<1>. QED
  BY <1>5, <1>6

LEMMA PathMore ==
  ASSUME NEW X, NEW T, NEW U, T \subseteq U, NEW q, NEW x, NEW y, Path(X, T, q, x, y)
  PROVE  Path(X, U, q, x, y)
BY DEF Path

\* Steps that leave a state as it is.
LEMMA PathStay ==
  ASSUME NEW S, NEW X, NEW T, NEW q \in Seq(S), NEW x \in X, \A r \in S : <<x, r, x>> \in T
  PROVE  Path(X, T, q, x, x)
<1>. DEFINE f == [i \in 0..Len(q) |-> x]
<1>1. /\ f \in [0..Len(q) -> X] /\ f[0] = x /\ f[Len(q)] = x
      /\ \A i \in 1..Len(q) : f[i - 1] = x /\ f[i] = x /\ q[i] \in S
  OBVIOUS
<1>. HIDE DEF f
<1>. QED
  BY <1>1 DEF Path

(***************************************************************************)
(* Parts of a sequence.                                                    *)
(***************************************************************************)
\* Concatenation is associative, and what it has where.
Associative(S) == \A p, q, s \in Seq(S) : (p \o q) \o s = p \o (q \o s)
LEMMA Concats == ASSUME NEW S PROVE Associative(S)
BY ConcatAssociative DEF Associative

LEMMA ConcatFacts ==
  ASSUME NEW S, NEW a \in Seq(S), NEW b \in Seq(S), NEW n, n = Len(a), NEW k, k = Len(b)
  PROVE  /\ n \in Nat /\ k \in Nat /\ a \o b \in Seq(S) /\ Len(a \o b) = n + k
         /\ \A i \in 1..n : (a \o b)[i] = a[i]
         /\ \A i \in 1..k : (a \o b)[n + i] = b[i]
OBVIOUS

\* A part, counted from what it follows.
LEMMA SubSeqFacts ==
  ASSUME NEW S, NEW a \in Seq(S), NEW n \in Nat, NEW k \in Nat, n + k <= Len(a)
  PROVE  /\ SubSeq(a, n + 1, n + k) \in Seq(S) /\ Len(SubSeq(a, n + 1, n + k)) = k
         /\ \A i \in 1..k : SubSeq(a, n + 1, n + k)[i] = a[n + i]
<1>1. SubSeq(a, n + 1, n + k) \in Seq(S) /\ Len(SubSeq(a, n + 1, n + k)) = k
  OBVIOUS
<1>2. ASSUME NEW i \in 1..k PROVE SubSeq(a, n + 1, n + k)[i] = a[n + i]
  <2>1. i \in 1..((n + k) - (n + 1) + 1) /\ (n + 1) + i - 1 = n + i
    OBVIOUS
  <2>. QED
    BY <2>1
<1>. QED
  BY <1>1, <1>2

\* What follows the same sequence is the same.
LEMMA SameRest ==
  ASSUME NEW S, NEW a \in Seq(S), NEW x \in Seq(S), NEW y \in Seq(S), a \o x = a \o y
  PROVE  x = y
<1>1. PICK n \in Nat, k \in Nat, j \in Nat : n = Len(a) /\ k = Len(x) /\ j = Len(y)
  OBVIOUS
<1>2. Len(a \o x) = n + k /\ Len(a \o y) = n + j
  BY <1>1
<1>3. k = j
  BY <1>2
<1>4. ASSUME NEW i \in 1..k PROVE x[i] = y[i]
  <2>1. (a \o x)[n + i] = x[i]
    BY <1>1, <1>4
  <2>2. (a \o y)[n + i] = y[i]
    BY <1>1, <1>3, <1>4
  <2>. QED
    BY <2>1, <2>2
<1>. QED
  BY <1>1, <1>3, <1>4, SeqEqual

\* The first of two parts is longer than another beginning.
BeginsWith(S, a, f, b, x) == \E r \in Seq(S) : a = f \o r /\ r \o b = x

LEMMA LongerPart ==
  ASSUME NEW S, NEW a \in Seq(S), NEW b \in Seq(S), NEW f \in Seq(S), NEW x \in Seq(S),
         a \o b = f \o x, Len(a) >= Len(f)
  PROVE  BeginsWith(S, a, f, b, x)
<1>0. Associative(S)
  BY Concats
<1>1. PICK n \in Nat, k \in Nat : n = Len(f) /\ n + k = Len(a)
  <2>1. Len(f) \in Nat /\ Len(a) \in Nat
    OBVIOUS
  <2>2. Len(a) - Len(f) \in Nat /\ Len(f) + (Len(a) - Len(f)) = Len(a)
    BY <2>1
  <2>. QED
    BY <2>1, <2>2
<1>2. PICK r \in Seq(S) : Len(r) = k /\ \A i \in 1..k : r[i] = a[n + i]
  <2>1. n + k <= Len(a)
    BY <1>1
  <2>2. SubSeq(a, n + 1, n + k) \in Seq(S)
    BY <2>1, SubSeqFacts
  <2>3. /\ Len(SubSeq(a, n + 1, n + k)) = k
        /\ \A i \in 1..k : SubSeq(a, n + 1, n + k)[i] = a[n + i]
    BY <2>1, SubSeqFacts
  <2>. QED
    BY <2>2, <2>3
<1>3. a = f \o r
  <2>1. PICK c \in Seq(S) : /\ c = f \o r /\ Len(c) = n + k
                            /\ \A i \in 1..n : c[i] = f[i]
                            /\ \A i \in 1..k : c[n + i] = r[i]
    <3>1. Len(f \o r) = n + k
      BY <1>1, <1>2
    <3>2. \A i \in 1..n : (f \o r)[i] = f[i]
      BY <1>1
    <3>3. \A i \in 1..k : (f \o r)[n + i] = r[i]
      BY <1>1, <1>2
    <3>4. f \o r \in Seq(S)
      OBVIOUS
    <3>. QED
      BY <3>1, <3>2, <3>3, <3>4
  <2>2. PICK d \in Seq(S) : /\ d = a \o b /\ d = f \o x
                            /\ \A i \in 1..(n + k) : d[i] = a[i]
                            /\ \A i \in 1..n : d[i] = f[i]
    <3>1. \A i \in 1..(n + k) : (a \o b)[i] = a[i]
      BY <1>1
    <3>2. \A i \in 1..n : (f \o x)[i] = f[i]
      BY <1>1
    <3>3. a \o b \in Seq(S)
      OBVIOUS
    <3>. QED
      BY <3>1, <3>2, <3>3
  <2>3. ASSUME NEW i \in 1..(n + k) PROVE a[i] = c[i]
    <3>1. CASE i <= n
      <4>1. i \in 1..n
        BY <3>1
      <4>. QED
        BY <2>1, <2>2, <4>1
    <3>2. CASE i > n
      <4>1. i - n \in 1..k /\ n + (i - n) = i
        BY <3>2
      <4>. QED
        BY <1>2, <2>1, <4>1
    <3>. QED
      BY <3>1, <3>2
  <2>. QED
    BY <1>1, <2>1, <2>3, SeqEqual
<1>4. f \o (r \o b) = f \o x
  <2>1. (f \o r) \o b = f \o (r \o b)
    BY <1>0 DEF Associative
  <2>. QED
    BY <1>3, <2>1
<1>5. r \o b \in Seq(S)
  OBVIOUS
<1>6. r \o b = x
  BY <1>4, <1>5, SameRest
<1>. QED
  BY <1>3, <1>6 DEF BeginsWith

\* A sequence that has three parts, of which the first two have n and k elements.
HasParts(S, s, a, b, c, n, k) ==
    /\ s \in Seq(S) /\ n \in Nat /\ k \in Nat /\ n + k <= Len(s)
    /\ n >= 1 => s # <<>> /\ s[1] = a[1]
    /\ SubSeq(s, n + 1, n + k) = b
    /\ SubSeq(s, (n + k) + 1, Len(s)) = c

LEMMA ThreeParts ==
  ASSUME NEW S, NEW a \in Seq(S), NEW b \in Seq(S), NEW c \in Seq(S), NEW n, n = Len(a),
         NEW k, k = Len(b), NEW ab, ab = a \o b, NEW s, s = ab \o c
  PROVE  HasParts(S, s, a, b, c, n, k)
<1>1. PICK j \in Nat, r \in Nat : /\ j = n + k /\ r = Len(c) /\ n \in Nat /\ k \in Nat
                                  /\ ab \in Seq(S) /\ Len(ab) = j
  <2>1. ab \in Seq(S) /\ Len(ab) = n + k /\ n \in Nat /\ k \in Nat /\ Len(c) \in Nat
    BY ConcatFacts
  <2>2. n + k \in Nat
    BY <2>1
  <2>. QED
    BY <2>1, <2>2
<1>2. /\ \A i \in 1..n : ab[i] = a[i]
      /\ \A i \in 1..k : ab[n + i] = b[i]
  BY ConcatFacts
<1>4. s \in Seq(S) /\ Len(s) = j + r
  BY <1>1, ConcatFacts
<1>5. /\ \A i \in 1..j : s[i] = ab[i]
      /\ \A i \in 1..r : s[j + i] = c[i]
  BY <1>1, ConcatFacts
<1>6. n >= 1 => s # <<>> /\ s[1] = a[1]
  <2>1. ASSUME n >= 1 PROVE s # <<>> /\ s[1] = a[1]
    <3>1. 1 \in 1..n /\ 1 \in 1..j
      BY <1>1, <2>1
    <3>2. s[1] = a[1]
      BY <1>2, <1>5, <3>1
    <3>3. Len(s) # 0
      BY <1>1, <1>4, <2>1
    <3>. QED
      BY <1>4, <3>2, <3>3
  <2>. QED
    BY <2>1
<1>7. SubSeq(s, n + 1, n + k) = b
  <2>1. n + k <= Len(s)
    BY <1>1, <1>4
  <2>2. PICK d : d = SubSeq(s, n + 1, n + k)
    OBVIOUS
  <2>3. d \in Seq(S) /\ Len(d) = k /\ \A i \in 1..k : d[i] = s[n + i]
    <3>1. n \in Nat /\ k \in Nat
      BY <1>1
    <3>. QED
      BY SMTT(30), <1>4, <2>1, <2>2, <3>1, SubSeqFacts
  <2>4. ASSUME NEW i \in 1..k PROVE d[i] = b[i]
    <3>1. n + i \in 1..j
      BY <1>1
    <3>. QED
      BY <1>2, <1>5, <2>3, <3>1
  <2>5. d = b
    BY <2>3, <2>4, SeqEqual
  <2>. QED
    BY <2>2, <2>5
<1>8. SubSeq(s, j + 1, j + r) = c
  <2>1. j + r <= Len(s)
    BY <1>1, <1>4
  <2>2. PICK d : d = SubSeq(s, j + 1, j + r)
    OBVIOUS
  <2>3. d \in Seq(S) /\ Len(d) = r /\ \A i \in 1..r : d[i] = s[j + i]
    BY ZenonT(60), <1>4, <2>1, <2>2, SubSeqFacts
  <2>4. \A i \in 1..r : d[i] = c[i]
    BY <1>5, <2>3
  <2>5. d = c
    BY <1>1, <2>3, <2>4, SeqEqual
  <2>. QED
    BY <2>2, <2>5
<1>9. n + k <= Len(s)
  BY <1>1, <1>4
<1>. QED
  BY <1>1, <1>4, <1>6, <1>7, <1>8, <1>9 DEF HasParts

\* Three sequences in a row.
SameGroups(a, b, c) == (a \o b) \o c = a \o (b \o c)
LEMMA Grouped ==
  ASSUME NEW S, NEW a \in Seq(S), NEW b \in Seq(S), NEW c \in Seq(S)
  PROVE  SameGroups(a, b, c)
BY Concats DEF SameGroups, Associative

\* Four sequences in a row, and none at the end.
SameGroups4(a, b, c, d) ==
    /\ (a \o (b \o c)) \o d = (a \o b) \o (c \o d)
    /\ (a \o ((b \o c) \o d)) \o <<>> = (a \o b) \o (c \o d)
    /\ (a \o (b \o c)) \o <<>> = (a \o b) \o c
LEMMA Grouped4 ==
  ASSUME NEW S, NEW a \in Seq(S), NEW b \in Seq(S), NEW c \in Seq(S), NEW d \in Seq(S)
  PROVE  SameGroups4(a, b, c, d)
<1>1. \A x, y \in Seq(S) : x \o y \in Seq(S) /\ x \o <<>> = x
  OBVIOUS
<1>2. PICK bc \in Seq(S), cd \in Seq(S), ab \in Seq(S) : bc = b \o c /\ cd = c \o d /\ ab = a \o b
  BY <1>1
<1>3. SameGroups(a, bc, d) /\ SameGroups(b, c, d) /\ SameGroups(a, b, cd) /\ SameGroups(a, b, c)
  BY Grouped
<1>4. PICK x \in Seq(S), y \in Seq(S) : x = a \o (bc \o d) /\ y = a \o bc
  BY <1>1
<1>5. x \o <<>> = x /\ y \o <<>> = y
  BY <1>1
<1>. QED
  BY <1>2, <1>3, <1>4, <1>5 DEF SameGroups, SameGroups4
===============================================================================
