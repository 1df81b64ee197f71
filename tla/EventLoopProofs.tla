---------------------------- MODULE EventLoopProofs ----------------------------
(***************************************************************************)
(* What the operations on ready queues and channels do to their entries.   *)
(***************************************************************************)
EXTENDS EventLoop, FiniteSets, SequenceLemmas

\* Running the head of a ready queue and putting tasks at its tail: what the
\* queue holds afterwards.
LEMMA QueueStep ==
  ASSUME NEW S, NEW q \in Seq(S), q # <<>>, NEW xs \in Seq(S)
  PROVE  /\ Tail(q) \o xs \in Seq(S)
         /\ Len(Tail(q) \o xs) = Len(q) - 1 + Len(xs)
         /\ \A i \in 1..(Len(q) - 1) : (Tail(q) \o xs)[i] = q[i + 1]
         /\ \A i \in 1..Len(xs) : (Tail(q) \o xs)[Len(q) - 1 + i] = xs[i]
<1>1. Tail(q) \in Seq(S) /\ Len(Tail(q)) = Len(q) - 1
  BY HeadTailProperties
<1>2. \A i \in 1..(Len(q) - 1) : Tail(q)[i] = q[i + 1]
  BY HeadTailProperties
<1>. QED
  BY <1>1, <1>2, ConcatProperties

\* Dropping the first k elements of a sequence.
LEMMA DropProperties ==
  ASSUME NEW S, NEW s \in Seq(S), NEW k \in 0..Len(s)
  PROVE  /\ Drop(s, k) \in Seq(S)
         /\ Len(Drop(s, k)) = Len(s) - k
         /\ \A i \in 1..(Len(s) - k) : Drop(s, k)[i] = s[k + i]
BY SMT DEF Drop

\* The order in which a finite set happens to be visited.
LEMMA OrderIsSeq ==
  ASSUME NEW C, IsFiniteSet(C), NEW S \in SUBSET C, NEW order \in SetToSeqs(S)
  PROVE  order \in Seq(C) /\ order \in Seq(S)
<1>1. Cardinality(S) \in Nat
  BY FS_Subset, FS_CardinalityType
<1>. QED
  BY <1>1 DEF SetToSeqs

\* Handing a channel's first k messages to tasks.
LEMMA HandleAllType ==
  ASSUME NEW S, NEW s \in Seq(S), NEW k \in 0..Len(s), NEW kind, NEW c, NEW T,
         \A m \in S : Task(kind, c, m) \in T
  PROVE  /\ HandleAll(kind, c, s, k) \in Seq(T)
         /\ Len(HandleAll(kind, c, s, k)) = k
         /\ \A i \in 1..k : HandleAll(kind, c, s, k)[i] = Task(kind, c, s[i])
<1>1. \A i \in 1..k : s[i] \in S
  BY ElementOfSeq
<1>. QED
  BY <1>1 DEF HandleAll

(***************************************************************************)
(* The entries of a queue as a set.                                        *)
(***************************************************************************)
LEMMA EntriesType ==
  ASSUME NEW S, NEW s \in Seq(S)
  PROVE  ToSet(s) \subseteq S
BY ElementOfSeq, LenProperties DEF ToSet

\* The entries after a step that runs the head and appends tasks.
LEMMA EntriesStep ==
  ASSUME NEW S, NEW q \in Seq(S), q # <<>>, NEW xs \in Seq(S)
  PROVE  /\ Head(q) \in ToSet(q) /\ Head(q) \in S
         /\ Tail(q) \in Seq(S)
         /\ Tail(q) \o xs \in Seq(S)
         /\ ToSet(Tail(q)) \subseteq ToSet(q)
         /\ ToSet(Tail(q) \o xs) = ToSet(Tail(q)) \cup ToSet(xs)
<1>1. /\ Tail(q) \in Seq(S) /\ Len(Tail(q)) = Len(q) - 1 /\ Head(q) = q[1] /\ Head(q) \in S
      /\ \A i \in 1..(Len(q) - 1) : Tail(q)[i] = q[i + 1]
  BY HeadTailProperties
<1>2. Len(q) \in Nat /\ Len(q) > 0 /\ DOMAIN q = 1..Len(q)
  BY LenProperties, EmptySeq
<1>3. DOMAIN Tail(q) = 1..(Len(q) - 1) /\ DOMAIN xs = 1..Len(xs) /\ Len(xs) \in Nat
  BY <1>1, LenProperties
<1>4. Head(q) \in ToSet(q)
  BY <1>1, <1>2 DEF ToSet
<1>5. ToSet(Tail(q)) \subseteq ToSet(q)
  <2>1. SUFFICES ASSUME NEW i \in 1..(Len(q) - 1)
                 PROVE  Tail(q)[i] \in ToSet(q)
    BY <1>3 DEF ToSet
  <2>2. i + 1 \in 1..Len(q) /\ Tail(q)[i] = q[i + 1]
    BY <1>1, <1>2
  <2>. QED
    BY <1>2, <2>2 DEF ToSet
<1>6. /\ Tail(q) \o xs \in Seq(S)
      /\ Len(Tail(q) \o xs) = Len(q) - 1 + Len(xs)
      /\ \A i \in 1..(Len(q) - 1) : (Tail(q) \o xs)[i] = Tail(q)[i]
      /\ \A i \in 1..Len(xs) : (Tail(q) \o xs)[Len(q) - 1 + i] = xs[i]
  BY <1>1, <1>3, QueueStep
<1>7. DOMAIN (Tail(q) \o xs) = 1..(Len(q) - 1 + Len(xs))
  BY <1>6, LenProperties
<1>8. ToSet(Tail(q) \o xs) \subseteq ToSet(Tail(q)) \cup ToSet(xs)
  <2>1. SUFFICES ASSUME NEW i \in 1..(Len(q) - 1 + Len(xs))
                 PROVE  (Tail(q) \o xs)[i] \in ToSet(Tail(q)) \cup ToSet(xs)
    BY <1>7 DEF ToSet
  <2>2. CASE i <= Len(q) - 1
    <3>1. i \in 1..(Len(q) - 1)
      BY <1>2, <1>3, <2>2
    <3>2. (Tail(q) \o xs)[i] = Tail(q)[i]
      BY <1>6, <3>1
    <3>. QED
      BY <1>3, <3>1, <3>2 DEF ToSet
  <2>3. CASE i > Len(q) - 1
    <3>1. i - (Len(q) - 1) \in 1..Len(xs) /\ i = Len(q) - 1 + (i - (Len(q) - 1))
      BY <1>2, <1>3, <2>3
    <3>2. (Tail(q) \o xs)[i] = xs[i - (Len(q) - 1)]
      BY <1>6, <3>1
    <3>. QED
      BY <1>3, <3>1, <3>2 DEF ToSet
  <2>. QED
    BY <1>2, <2>2, <2>3
<1>9. ToSet(Tail(q)) \cup ToSet(xs) \subseteq ToSet(Tail(q) \o xs)
  <2>1. \A i \in 1..(Len(q) - 1) : Tail(q)[i] \in ToSet(Tail(q) \o xs)
    <3>1. SUFFICES ASSUME NEW i \in 1..(Len(q) - 1)
                   PROVE  Tail(q)[i] \in ToSet(Tail(q) \o xs)
      OBVIOUS
    <3>2. i \in 1..(Len(q) - 1 + Len(xs)) /\ (Tail(q) \o xs)[i] = Tail(q)[i]
      BY <1>2, <1>3, <1>6
    <3>. QED
      BY <1>7, <3>2 DEF ToSet
  <2>2. \A i \in 1..Len(xs) : xs[i] \in ToSet(Tail(q) \o xs)
    <3>1. SUFFICES ASSUME NEW i \in 1..Len(xs)
                   PROVE  xs[i] \in ToSet(Tail(q) \o xs)
      OBVIOUS
    <3>2. /\ Len(q) - 1 + i \in 1..(Len(q) - 1 + Len(xs))
          /\ (Tail(q) \o xs)[Len(q) - 1 + i] = xs[i]
      BY <1>2, <1>3, <1>6
    <3>. QED
      BY <1>7, <3>2 DEF ToSet
  <2>. QED
    BY <1>3, <2>1, <2>2 DEF ToSet
<1>. QED
  BY <1>1, <1>4, <1>5, <1>6, <1>8, <1>9

\* The entries after an append, of a prefix, and of what is left of one.
LEMMA EntriesAppend ==
  ASSUME NEW S, NEW s \in Seq(S), NEW x \in S
  PROVE  /\ Append(s, x) \in Seq(S)
         /\ ToSet(Append(s, x)) = ToSet(s) \cup {x}
<1>1. /\ Append(s, x) \in Seq(S) /\ Len(Append(s, x)) = Len(s) + 1
      /\ \A i \in 1..Len(s) : Append(s, x)[i] = s[i]
      /\ Append(s, x)[Len(s) + 1] = x
  BY AppendProperties
<1>2. Len(s) \in Nat /\ DOMAIN s = 1..Len(s) /\ DOMAIN Append(s, x) = 1..(Len(s) + 1)
  BY <1>1, LenProperties
<1>. QED
  BY <1>1, <1>2 DEF ToSet

LEMMA EntriesPart ==
  ASSUME NEW S, NEW s \in Seq(S), NEW k \in 0..Len(s)
  PROVE  /\ SubSeq(s, 1, k) \in Seq(S) /\ ToSet(SubSeq(s, 1, k)) \subseteq ToSet(s)
         /\ Drop(s, k) \in Seq(S) /\ ToSet(Drop(s, k)) \subseteq ToSet(s)
<1>1. Len(s) \in Nat /\ DOMAIN s = 1..Len(s)
  BY LenProperties
<1>2. /\ Drop(s, k) \in Seq(S) /\ DOMAIN Drop(s, k) = 1..(Len(s) - k)
      /\ \A i \in 1..(Len(s) - k) : Drop(s, k)[i] = s[k + i]
  BY ZenonT(60), <1>1, DropProperties, LenProperties
<1>3. /\ SubSeq(s, 1, k) \in Seq(S) /\ DOMAIN SubSeq(s, 1, k) = 1..k
      /\ \A i \in 1..k : SubSeq(s, 1, k)[i] = s[i]
  BY <1>1
<1>4. ToSet(SubSeq(s, 1, k)) \subseteq ToSet(s)
  BY <1>1, <1>3 DEF ToSet
<1>5. ToSet(Drop(s, k)) \subseteq ToSet(s)
  <2>1. SUFFICES ASSUME NEW i \in 1..(Len(s) - k)
                 PROVE  Drop(s, k)[i] \in ToSet(s)
    BY <1>2 DEF ToSet
  <2>2. k + i \in 1..Len(s) /\ Drop(s, k)[i] = s[k + i]
    BY <1>1, <1>2
  <2>. QED
    BY <1>1, <2>2 DEF ToSet
<1>. QED
  BY <1>2, <1>3, <1>4, <1>5

\* Handing a channel's first k messages to tasks: what the tasks are.
LEMMA EntriesHandleAll ==
  ASSUME NEW S, NEW s \in Seq(S), NEW k \in 0..Len(s), NEW kind, NEW c, NEW T,
         \A m \in S : Task(kind, c, m) \in T
  PROVE  /\ HandleAll(kind, c, s, k) \in Seq(T)
         /\ \A t \in ToSet(HandleAll(kind, c, s, k)) :
              \E m \in ToSet(s) : t = Task(kind, c, m)
<1>1. Len(s) \in Nat /\ DOMAIN s = 1..Len(s)
  BY LenProperties
<1>2. /\ HandleAll(kind, c, s, k) \in Seq(T)
      /\ Len(HandleAll(kind, c, s, k)) = k
      /\ \A i \in 1..k : HandleAll(kind, c, s, k)[i] = Task(kind, c, s[i])
  <2>1. \A i \in 1..k : s[i] \in S
    BY ElementOfSeq
  <2>. QED
    BY <2>1 DEF HandleAll
<1>3. DOMAIN HandleAll(kind, c, s, k) = 1..k
  BY <1>1 DEF HandleAll, Task
<1>4. ASSUME NEW t \in ToSet(HandleAll(kind, c, s, k))
      PROVE  \E m \in ToSet(s) : t = Task(kind, c, m)
  <2>1. PICK i \in 1..k : t = HandleAll(kind, c, s, k)[i]
    BY <1>3 DEF ToSet
  <2>2. s[i] \in ToSet(s)
    BY <1>1 DEF ToSet
  <2>. QED
    BY <1>2, <2>1, <2>2
<1>. QED
  BY <1>2, <1>4

(***************************************************************************)
(* Entries that occur once.                                                *)
(***************************************************************************)
\* The members of S among the elements of s occur there once.
Once(s, S) == \A i, j \in DOMAIN s : s[i] \in S /\ s[i] = s[j] => i = j

\* What is left of a queue after its head, and what tasks of its own a step
\* may put at its tail.
LEMMA OnceStep ==
  ASSUME NEW T, NEW S, NEW q \in Seq(T), q # <<>>, Once(q, S),
         NEW xs \in Seq(T), Once(xs, S),
         \A x \in ToSet(xs) : x \in S => x \notin ToSet(Tail(q))
  PROVE  /\ Once(Tail(q) \o xs, S) /\ Once(Tail(q), S)
         /\ Head(q) \in S => Head(q) \notin ToSet(Tail(q))
<1> DEFINE n == Len(q) - 1
           r == Tail(q) \o xs
<1>1. /\ Tail(q) \in Seq(T) /\ Len(Tail(q)) = n /\ Head(q) = q[1]
      /\ \A i \in 1..n : Tail(q)[i] = q[i + 1]
  BY HeadTailProperties
<1>2. n \in Nat /\ DOMAIN q = 1..(n + 1) /\ DOMAIN Tail(q) = 1..n
  BY <1>1, LenProperties, EmptySeq
<1>3. Len(xs) \in Nat /\ DOMAIN xs = 1..Len(xs)
  BY LenProperties
<1>4. /\ r \in Seq(T) /\ Len(r) = n + Len(xs)
      /\ \A i \in 1..n : r[i] = Tail(q)[i]
      /\ \A i \in 1..Len(xs) : r[n + i] = xs[i]
  BY <1>1, <1>2, <1>3, QueueStep
<1>5. DOMAIN r = 1..(n + Len(xs))
  BY <1>4, LenProperties
<1>6. \A i \in DOMAIN r : \/ i \in 1..n
                          \/ i - n \in 1..Len(xs) /\ r[i] = xs[i - n]
  <2>1. SUFFICES ASSUME NEW i \in DOMAIN r, i > n
                 PROVE  i - n \in 1..Len(xs) /\ r[i] = xs[i - n]
    BY <1>2, <1>3, <1>5
  <2>2. i - n \in 1..Len(xs) /\ i = n + (i - n)
    BY <1>2, <1>3, <1>5, <2>1
  <2>. QED
    BY <1>4, <2>2
<1>. HIDE DEF n, r
<1>7. \A i, j \in 1..n : Tail(q)[i] \in S /\ Tail(q)[i] = Tail(q)[j] => i = j
  <2>1. SUFFICES ASSUME NEW i \in 1..n, NEW j \in 1..n,
                        Tail(q)[i] \in S, Tail(q)[i] = Tail(q)[j]
                 PROVE  i = j
    OBVIOUS
  <2>2. i + 1 \in DOMAIN q /\ j + 1 \in DOMAIN q
    BY <1>2
  <2>3. i + 1 = j + 1
    BY <1>1, <2>1, <2>2 DEF Once
  <2>. QED
    BY <1>2, <2>3
<1>8. \A i \in 1..n, j \in 1..Len(xs) : xs[j] \in S => Tail(q)[i] # xs[j]
  BY <1>2, <1>3 DEF ToSet
<1>9. Once(r, S)
  <2>1. SUFFICES ASSUME NEW i \in DOMAIN r, NEW j \in DOMAIN r, r[i] \in S, r[i] = r[j]
                 PROVE  i = j
    BY DEF Once
  <2>2. CASE i \in 1..n /\ j \in 1..n
    BY <1>4, <1>7, <2>1, <2>2
  <2>3. CASE i \in 1..n /\ j \notin 1..n
    <3>1. r[i] = Tail(q)[i] /\ j - n \in 1..Len(xs) /\ r[j] = xs[j - n]
      BY <1>4, <1>6, <2>3
    <3>. QED
      BY <1>8, <2>1, <2>3, <3>1
  <2>4. CASE i \notin 1..n /\ j \in 1..n
    <3>1. r[j] = Tail(q)[j] /\ i - n \in 1..Len(xs) /\ r[i] = xs[i - n]
      BY <1>4, <1>6, <2>4
    <3>. QED
      BY <1>8, <2>1, <2>4, <3>1
  <2>5. CASE i \notin 1..n /\ j \notin 1..n
    <3>1. i - n = j - n
      BY <1>3, <1>6, <2>1, <2>5 DEF Once
    <3>. QED
      BY <1>2, <1>3, <1>5, <3>1
  <2>. QED
    BY <2>2, <2>3, <2>4, <2>5
<1>10. ASSUME Head(q) \in S, NEW i \in 1..n, Tail(q)[i] = Head(q)
       PROVE  FALSE
  <2>1. i + 1 \in DOMAIN q /\ 1 \in DOMAIN q
    BY <1>2
  <2>2. i + 1 = 1
    BY <1>1, <1>10, <2>1 DEF Once
  <2>. QED
    BY <1>2, <2>2
<1>11. Once(Tail(q), S)
  BY <1>2, <1>7 DEF Once
<1>. QED
  BY <1>2, <1>9, <1>10, <1>11 DEF ToSet, r

LEMMA OnceTail ==
  ASSUME NEW T, NEW S, NEW q \in Seq(T), q # <<>>, Once(q, S)
  PROVE  /\ Once(Tail(q), S)
         /\ Head(q) \in S => Head(q) \notin ToSet(Tail(q))
<1>1. <<>> \in Seq(T) /\ Once(<<>>, S) /\ ToSet(<<>>) = {}
  BY DEF Once, ToSet
<1>. QED
  BY <1>1, OnceStep

LEMMA OnceAppend ==
  ASSUME NEW T, NEW S, NEW s \in Seq(T), Once(s, S), NEW x \in T,
         x \in S => x \notin ToSet(s)
  PROVE  Once(Append(s, x), S)
<1>1. /\ Append(s, x) \in Seq(T) /\ Len(Append(s, x)) = Len(s) + 1
      /\ \A i \in 1..Len(s) : Append(s, x)[i] = s[i]
      /\ Append(s, x)[Len(s) + 1] = x
  BY AppendProperties
<1>2. Len(s) \in Nat /\ DOMAIN s = 1..Len(s) /\ DOMAIN Append(s, x) = 1..(Len(s) + 1)
  BY <1>1, LenProperties
<1>3. \A i \in 1..Len(s) : x \in S => s[i] # x
  BY <1>2 DEF ToSet
<1>. QED
  BY <1>1, <1>2, <1>3 DEF Once

\* A prefix that is kept, and the tasks and the rest a listener makes of a channel.
LEMMA OncePart ==
  ASSUME NEW T, NEW S, NEW s \in Seq(T), Once(s, S), NEW k \in 0..Len(s)
  PROVE  /\ Once(SubSeq(s, 1, k), S)
         /\ Once(Drop(s, k), S)
         /\ \A i \in 1..k : s[i] \in S => s[i] \notin ToSet(Drop(s, k))
<1>1. Len(s) \in Nat /\ DOMAIN s = 1..Len(s)
  BY LenProperties
<1>2. /\ Drop(s, k) \in Seq(T) /\ DOMAIN Drop(s, k) = 1..(Len(s) - k)
      /\ \A i \in 1..(Len(s) - k) : Drop(s, k)[i] = s[k + i]
  BY <1>1, DropProperties, LenProperties
<1>3. /\ DOMAIN SubSeq(s, 1, k) = 1..k
      /\ \A i \in 1..k : SubSeq(s, 1, k)[i] = s[i]
  BY <1>1
<1>4. Once(SubSeq(s, 1, k), S)
  BY <1>1, <1>3 DEF Once
<1>5. \A i \in 1..(Len(s) - k) : k + i \in DOMAIN s
  BY <1>1
<1>6. ASSUME NEW i \in 1..(Len(s) - k), NEW j \in 1..(Len(s) - k),
             Drop(s, k)[i] \in S, Drop(s, k)[i] = Drop(s, k)[j]
      PROVE  i = j
  <2>1. k + i = k + j
    BY <1>2, <1>5, <1>6 DEF Once
  <2>. QED
    BY <1>1, <2>1
<1>7. ASSUME NEW i \in 1..k, s[i] \in S, NEW j \in 1..(Len(s) - k), s[i] = Drop(s, k)[j]
      PROVE  FALSE
  <2>1. i = k + j
    BY <1>1, <1>2, <1>5, <1>7 DEF Once
  <2>. QED
    BY <1>1, <2>1
<1>. QED
  BY <1>2, <1>4, <1>6, <1>7 DEF Once, ToSet

LEMMA OnceHandleAll ==
  ASSUME NEW T, NEW S, NEW s \in Seq(T), Once(s, S), NEW k \in 0..Len(s),
         NEW kind, NEW c, NEW Z, \A m \in T : Task(kind, c, m) \in Z => m \in S
  PROVE  /\ Once(HandleAll(kind, c, s, k), Z)
         /\ \A m \in S : Task(kind, c, m) \in ToSet(HandleAll(kind, c, s, k))
                          => m \notin ToSet(Drop(s, k))
<1>1. Len(s) \in Nat /\ DOMAIN s = 1..Len(s) /\ \A i \in 1..k : s[i] \in T
  BY LenProperties, ElementOfSeq
<1>2. DOMAIN HandleAll(kind, c, s, k) = 1..k
  BY DEF HandleAll
<1>3. ASSUME NEW i \in 1..k, NEW j \in 1..k,
             Task(kind, c, s[i]) \in Z, Task(kind, c, s[i]) = Task(kind, c, s[j])
      PROVE  i = j
  <2>1. s[i] \in S /\ s[i] = s[j]
    BY <1>1, <1>3 DEF Task
  <2>. QED
    BY <1>1, <2>1 DEF Once
<1>4. ASSUME NEW m \in S, Task(kind, c, m) \in ToSet(HandleAll(kind, c, s, k))
      PROVE  m \notin ToSet(Drop(s, k))
  <2>1. PICK i \in 1..k : Task(kind, c, s[i]) = Task(kind, c, m)
    BY <1>2, <1>4 DEF ToSet, HandleAll
  <2>2. s[i] = m
    BY <2>1 DEF Task
  <2>. QED
    BY <1>4, <2>2, OncePart
<1>. QED
  BY <1>2, <1>3, <1>4 DEF Once, HandleAll

\* Tasks put on a queue for a set of calls or connections, in any order.
LEMMA OnceOrder ==
  ASSUME NEW C, IsFiniteSet(C), NEW K \in SUBSET C, NEW order \in SetToSeqs(K),
         NEW T, NEW F \in [K -> T], \A a, b \in K : F[a] = F[b] => a = b
  PROVE  /\ [i \in DOMAIN order |-> F[order[i]]] \in Seq(T)
         /\ \A x \in ToSet([i \in DOMAIN order |-> F[order[i]]]) : \E k \in K : x = F[k]
         /\ \A S : Once([i \in DOMAIN order |-> F[order[i]]], S)
<1> DEFINE xs == [i \in DOMAIN order |-> F[order[i]]]
<1>1. Cardinality(K) \in Nat
  BY FS_Subset, FS_CardinalityType
<1>2. /\ order \in [1..Cardinality(K) -> K]
      /\ \A i, j \in 1..Cardinality(K) : order[i] = order[j] => i = j
  BY DEF SetToSeqs
<1>3. xs \in [1..Cardinality(K) -> T] /\ DOMAIN xs = 1..Cardinality(K)
  BY <1>2
<1>4. xs \in Seq(T)
  BY <1>1, <1>3, IsASeq
<1>5. \A x \in ToSet(xs) : \E k \in K : x = F[k]
  BY <1>2, <1>3 DEF ToSet
<1>6. \A S : Once(xs, S)
  BY <1>2, <1>3 DEF Once
<1>. QED
  BY <1>4, <1>5, <1>6

(***************************************************************************)
(* Entries in an order: R holds the pairs of which the first may be ahead. *)
(***************************************************************************)
Ordered(q, R) == \A i, j \in DOMAIN q : i < j => <<q[i], q[j]>> \in R

\* Entries any two of which may stand in either order.
LEMMA OrderedAny ==
  ASSUME NEW R, NEW q, \A x, y \in ToSet(q) : <<x, y>> \in R
  PROVE  Ordered(q, R)
BY DEF Ordered, ToSet

LEMMA OrderedConcat ==
  ASSUME NEW T, NEW R, NEW p \in Seq(T), NEW q \in Seq(T), Ordered(p, R), Ordered(q, R),
         \A x \in ToSet(p), y \in ToSet(q) : <<x, y>> \in R
  PROVE  Ordered(p \o q, R)
<1>1. /\ Len(p) \in Nat /\ DOMAIN p = 1..Len(p) /\ Len(q) \in Nat /\ DOMAIN q = 1..Len(q)
      /\ DOMAIN (p \o q) = 1..(Len(p) + Len(q))
      /\ \A i \in 1..Len(p) : (p \o q)[i] = p[i]
      /\ \A i \in 1..Len(q) : (p \o q)[Len(p) + i] = q[i]
  BY LenProperties, ConcatProperties
<1>2. \A i \in DOMAIN (p \o q) :
        \/ i \in 1..Len(p) /\ (p \o q)[i] = p[i]
        \/ i - Len(p) \in 1..Len(q) /\ (p \o q)[i] = q[i - Len(p)]
  <2>1. SUFFICES ASSUME NEW i \in DOMAIN (p \o q), i > Len(p)
                 PROVE  i - Len(p) \in 1..Len(q) /\ (p \o q)[i] = q[i - Len(p)]
    BY <1>1
  <2>2. i - Len(p) \in 1..Len(q) /\ i = Len(p) + (i - Len(p))
    BY <1>1, <2>1
  <2>. QED
    BY <1>1, <2>2
<1>3. PICK r : r = p \o q
  OBVIOUS
<1>4. SUFFICES ASSUME NEW i \in DOMAIN r, NEW j \in DOMAIN r, i < j
               PROVE  <<r[i], r[j]>> \in R
  BY <1>3 DEF Ordered
<1>5. CASE i \in 1..Len(p) /\ j \in 1..Len(p)
  BY <1>1, <1>3, <1>4, <1>5 DEF Ordered
<1>6. CASE i \in 1..Len(p) /\ j \notin 1..Len(p)
  <2>1. r[i] \in ToSet(p) /\ r[j] \in ToSet(q)
    BY <1>1, <1>2, <1>3, <1>6 DEF ToSet
  <2>. QED
    BY <2>1
<1>7. CASE i \notin 1..Len(p)
  <2>1. i - Len(p) < j - Len(p) /\ j \notin 1..Len(p)
    BY <1>1, <1>3, <1>4, <1>7
  <2>2. /\ i - Len(p) \in 1..Len(q) /\ r[i] = q[i - Len(p)]
        /\ j - Len(p) \in 1..Len(q) /\ r[j] = q[j - Len(p)]
    BY <1>2, <1>3, <1>7, <2>1
  <2>. QED
    BY <1>1, <2>1, <2>2 DEF Ordered
<1>. QED
  BY <1>5, <1>6, <1>7

LEMMA OrderedHead ==
  ASSUME NEW T, NEW R, NEW q \in Seq(T), q # <<>>, Ordered(q, R)
  PROVE  /\ Ordered(Tail(q), R)
         /\ \A x \in ToSet(Tail(q)) : <<Head(q), x>> \in R
<1>1. /\ Len(q) \in Nat /\ Len(q) > 0 /\ DOMAIN q = 1..Len(q)
      /\ DOMAIN Tail(q) = 1..(Len(q) - 1) /\ Head(q) = q[1]
      /\ \A i \in 1..(Len(q) - 1) : Tail(q)[i] = q[i + 1]
  BY HeadTailProperties, LenProperties, EmptySeq
<1>2. \A i \in 1..(Len(q) - 1) : i + 1 \in 1..Len(q) /\ i + 1 > 1 /\ 1 \in 1..Len(q)
  BY <1>1
<1>3. Ordered(Tail(q), R)
  <2>1. SUFFICES ASSUME NEW i \in 1..(Len(q) - 1), NEW j \in 1..(Len(q) - 1), i < j
                 PROVE  <<q[i + 1], q[j + 1]>> \in R
    BY <1>1 DEF Ordered
  <2>2. i + 1 < j + 1
    BY <2>1
  <2>. QED
    BY <1>1, <1>2, <2>2 DEF Ordered
<1>4. \A i \in 1..(Len(q) - 1) : <<q[1], Tail(q)[i]>> \in R
  BY <1>1, <1>2 DEF Ordered
<1>. QED
  BY <1>1, <1>3, <1>4 DEF ToSet

LEMMA OrderedStep ==
  ASSUME NEW T, NEW R, NEW q \in Seq(T), q # <<>>, Ordered(q, R),
         NEW xs \in Seq(T), Ordered(xs, R),
         \A t \in ToSet(Tail(q)), x \in ToSet(xs) : <<t, x>> \in R
  PROVE  Ordered(Tail(q) \o xs, R)
<1>1. Tail(q) \in Seq(T) /\ Ordered(Tail(q), R)
  BY HeadTailProperties, OrderedHead
<1>. QED
  BY <1>1, OrderedConcat

LEMMA OrderedAppend ==
  ASSUME NEW T, NEW R, NEW q \in Seq(T), Ordered(q, R), NEW x \in T,
         \A t \in ToSet(q) : <<t, x>> \in R
  PROVE  Ordered(Append(q, x), R)
<1>1. /\ Len(q) \in Nat /\ DOMAIN q = 1..Len(q) /\ DOMAIN Append(q, x) = 1..(Len(q) + 1)
      /\ \A i \in 1..Len(q) : Append(q, x)[i] = q[i]
      /\ Append(q, x)[Len(q) + 1] = x
  BY AppendProperties, LenProperties
<1>2. \A i \in 1..Len(q) : q[i] \in ToSet(q)
  BY <1>1 DEF ToSet
<1>. QED
  BY <1>1, <1>2 DEF Ordered

\* A prefix that is kept, and the rest of a channel.
LEMMA OrderedPart ==
  ASSUME NEW T, NEW R, NEW s \in Seq(T), Ordered(s, R), NEW k \in 0..Len(s)
  PROVE  /\ Ordered(SubSeq(s, 1, k), R) /\ Ordered(Drop(s, k), R)
         /\ \A i \in 1..k : \A x \in ToSet(Drop(s, k)) : <<s[i], x>> \in R
<1>1. Len(s) \in Nat /\ DOMAIN s = 1..Len(s)
  BY LenProperties
<1>2. /\ Drop(s, k) \in Seq(T) /\ DOMAIN Drop(s, k) = 1..(Len(s) - k)
      /\ \A i \in 1..(Len(s) - k) : Drop(s, k)[i] = s[k + i]
  BY <1>1, DropProperties, LenProperties
<1>3. DOMAIN SubSeq(s, 1, k) = 1..k /\ \A i \in 1..k : SubSeq(s, 1, k)[i] = s[i]
  BY <1>1
<1>4. Ordered(SubSeq(s, 1, k), R)
  BY <1>1, <1>3 DEF Ordered
<1>5. Ordered(Drop(s, k), R)
  <2>1. SUFFICES ASSUME NEW i \in 1..(Len(s) - k), NEW j \in 1..(Len(s) - k), i < j
                 PROVE  <<s[k + i], s[k + j]>> \in R
    BY <1>2 DEF Ordered
  <2>2. k + i < k + j /\ k + i \in 1..Len(s) /\ k + j \in 1..Len(s)
    BY <1>1, <2>1
  <2>. QED
    BY <1>1, <2>2 DEF Ordered
<1>6. ASSUME NEW i \in 1..k, NEW j \in 1..(Len(s) - k)
      PROVE  <<s[i], Drop(s, k)[j]>> \in R
  <2>1. i < k + j /\ i \in 1..Len(s) /\ k + j \in 1..Len(s)
    BY <1>1
  <2>. QED
    BY <1>1, <1>2, <2>1 DEF Ordered
<1>. QED
  BY <1>2, <1>4, <1>5, <1>6 DEF ToSet

\* The tasks of messages stand as the messages did.
LEMMA OrderedHandleAll ==
  ASSUME NEW T, NEW R, NEW s \in Seq(T), Ordered(s, R), NEW k \in 0..Len(s),
         NEW kind, NEW c, NEW Z,
         \A m, n \in T : <<m, n>> \in R => <<Task(kind, c, m), Task(kind, c, n)>> \in Z
  PROVE  Ordered(HandleAll(kind, c, s, k), Z)
<1>1. Len(s) \in Nat /\ DOMAIN s = 1..Len(s) /\ \A i \in 1..k : s[i] \in T /\ i \in DOMAIN s
  BY LenProperties, ElementOfSeq
<1>2. /\ DOMAIN HandleAll(kind, c, s, k) = 1..k
      /\ \A i \in 1..k : HandleAll(kind, c, s, k)[i] = Task(kind, c, s[i])
  BY DEF HandleAll
<1>3. \A i, j \in 1..k : i < j => <<s[i], s[j]>> \in R
  BY <1>1 DEF Ordered
<1>4. \A i, j \in 1..k : i < j => <<Task(kind, c, s[i]), Task(kind, c, s[j])>> \in Z
  BY <1>1, <1>3
<1>. QED
  BY <1>2, <1>4 DEF Ordered

(***************************************************************************)
(* The last entry of a kind.  S holds the entries of the kind, G those     *)
(* that say what the last one has to say.                                  *)
(***************************************************************************)
Free(q, S) == \A i \in DOMAIN q : q[i] \notin S
LastIn(q, S, G) ==
  \A i \in DOMAIN q :
    q[i] \in S /\ (\A j \in DOMAIN q : j > i => q[j] \notin S) => q[i] \in G

\* No member of Z stands behind a member of S; the members of S stand together.
NoneBehind(q, S, Z) == \A i, j \in DOMAIN q : i < j => ~(q[i] \in S /\ q[j] \in Z)
Together(q, S) ==
  \A i, j, k \in DOMAIN q : i < k /\ k < j /\ q[i] \in S /\ q[j] \in S => q[k] \in S

\* Where the entries of a concatenation come from.
LEMMA ConcatIndices ==
  ASSUME NEW T, NEW p \in Seq(T), NEW q \in Seq(T)
  PROVE  /\ Len(p) \in Nat /\ DOMAIN p = 1..Len(p)
         /\ Len(q) \in Nat /\ DOMAIN q = 1..Len(q)
         /\ DOMAIN (p \o q) = 1..(Len(p) + Len(q))
         /\ \A i \in 1..Len(p) : i \in DOMAIN (p \o q) /\ (p \o q)[i] = p[i]
         /\ \A i \in 1..Len(q) : /\ Len(p) + i \in DOMAIN (p \o q)
                                 /\ (p \o q)[Len(p) + i] = q[i]
         /\ \A i \in DOMAIN (p \o q) :
              \/ i \in 1..Len(p)
              \/ i - Len(p) \in 1..Len(q) /\ i > Len(p) /\ (p \o q)[i] = q[i - Len(p)]
<1>1. /\ Len(p) \in Nat /\ DOMAIN p = 1..Len(p)
      /\ Len(q) \in Nat /\ DOMAIN q = 1..Len(q)
      /\ DOMAIN (p \o q) = 1..(Len(p) + Len(q))
      /\ \A i \in 1..Len(p) : (p \o q)[i] = p[i]
      /\ \A i \in 1..Len(q) : (p \o q)[Len(p) + i] = q[i]
  BY LenProperties, ConcatProperties
<1>2. /\ \A i \in 1..Len(p) : i \in 1..(Len(p) + Len(q))
      /\ \A i \in 1..Len(q) : Len(p) + i \in 1..(Len(p) + Len(q))
  BY <1>1
<1>3. ASSUME NEW i \in DOMAIN (p \o q), i \notin 1..Len(p)
      PROVE  i - Len(p) \in 1..Len(q) /\ i > Len(p) /\ (p \o q)[i] = q[i - Len(p)]
  <2>1. i - Len(p) \in 1..Len(q) /\ i = Len(p) + (i - Len(p)) /\ i > Len(p)
    BY <1>1, <1>3
  <2>. QED
    BY <1>1, <2>1
<1>. QED
  BY <1>1, <1>2, <1>3

LEMMA FreeConcat ==
  ASSUME NEW T, NEW S, NEW p \in Seq(T), NEW q \in Seq(T)
  PROVE  Free(p \o q, S) <=> Free(p, S) /\ Free(q, S)
<1>1. PICK r : r = p \o q
  OBVIOUS
<1>2. /\ DOMAIN p = 1..Len(p) /\ DOMAIN q = 1..Len(q)
      /\ \A i \in 1..Len(p) : i \in DOMAIN r /\ r[i] = p[i]
      /\ \A i \in 1..Len(q) : Len(p) + i \in DOMAIN r /\ r[Len(p) + i] = q[i]
      /\ \A i \in DOMAIN r :
              \/ i \in 1..Len(p)
              \/ i - Len(p) \in 1..Len(q) /\ r[i] = q[i - Len(p)]
  BY <1>1, ConcatIndices
<1>3. ASSUME Free(r, S) PROVE Free(p, S) /\ Free(q, S)
  BY <1>2, <1>3 DEF Free
<1>4. ASSUME Free(p, S), Free(q, S) PROVE Free(r, S)
  BY <1>2, <1>4 DEF Free
<1>. QED
  BY <1>1, <1>3, <1>4

LEMMA LastConcat ==
  ASSUME NEW T, NEW S, NEW G, NEW p \in Seq(T), NEW q \in Seq(T)
  PROVE  LastIn(p \o q, S, G) <=> LastIn(q, S, G) /\ (Free(q, S) => LastIn(p, S, G))
<1>1. PICK r : r = p \o q
  OBVIOUS
<1>2. /\ Len(p) \in Nat /\ DOMAIN p = 1..Len(p)
      /\ Len(q) \in Nat /\ DOMAIN q = 1..Len(q)
      /\ DOMAIN r = 1..(Len(p) + Len(q))
      /\ \A i \in 1..Len(p) : i \in DOMAIN r /\ r[i] = p[i]
      /\ \A i \in 1..Len(q) : Len(p) + i \in DOMAIN r /\ r[Len(p) + i] = q[i]
      /\ \A i \in DOMAIN r :
              \/ i \in 1..Len(p)
              \/ i - Len(p) \in 1..Len(q) /\ i > Len(p) /\ r[i] = q[i - Len(p)]
  BY <1>1, ConcatIndices
<1>3. ASSUME LastIn(r, S, G) PROVE LastIn(q, S, G)
  <2>1. SUFFICES ASSUME NEW i \in 1..Len(q), q[i] \in S,
                        \A j \in 1..Len(q) : j > i => q[j] \notin S
                 PROVE  q[i] \in G
    BY <1>2 DEF LastIn
  <2>2. \A j \in DOMAIN r : j > Len(p) + i => r[j] \notin S
    BY <1>2, <2>1
  <2>. QED
    BY <1>2, <1>3, <2>1, <2>2 DEF LastIn
<1>4. ASSUME LastIn(r, S, G), Free(q, S) PROVE LastIn(p, S, G)
  <2>1. SUFFICES ASSUME NEW i \in 1..Len(p), p[i] \in S,
                        \A j \in 1..Len(p) : j > i => p[j] \notin S
                 PROVE  p[i] \in G
    BY <1>2 DEF LastIn
  <2>2. \A j \in DOMAIN r : j > i => r[j] \notin S
    BY <1>2, <1>4, <2>1 DEF Free
  <2>. QED
    BY <1>2, <1>4, <2>1, <2>2 DEF LastIn
<1>5. ASSUME LastIn(q, S, G), Free(q, S) => LastIn(p, S, G) PROVE LastIn(r, S, G)
  <2>1. SUFFICES ASSUME NEW i \in DOMAIN r, r[i] \in S,
                        \A j \in DOMAIN r : j > i => r[j] \notin S
                 PROVE  r[i] \in G
    BY DEF LastIn
  <2>2. CASE i \in 1..Len(p)
    <3>1. Free(q, S)
      <4>1. \A j \in 1..Len(q) : Len(p) + j \in DOMAIN r /\ Len(p) + j > i
        BY <1>2, <2>2
      <4>. QED
        BY <1>2, <2>1, <4>1 DEF Free
    <3>2. \A j \in 1..Len(p) : j > i => p[j] \notin S
      BY <1>2, <2>1
    <3>. QED
      BY <1>2, <1>5, <2>1, <2>2, <3>1, <3>2 DEF LastIn
  <2>3. CASE i \notin 1..Len(p)
    <3>1. i - Len(p) \in 1..Len(q) /\ r[i] = q[i - Len(p)]
      BY <1>2, <2>3
    <3>2. \A j \in 1..Len(q) : j > i - Len(p) => Len(p) + j \in DOMAIN r /\ Len(p) + j > i
      BY <1>2, <3>1
    <3>. QED
      BY <1>2, <1>5, <2>1, <3>1, <3>2 DEF LastIn
  <2>. QED
    BY <2>2, <2>3
<1>. QED
  BY <1>1, <1>3, <1>4, <1>5

\* A sequence of one entry, and its head and tail.
LEMMA LastOne ==
  ASSUME NEW x, NEW S, NEW G
  PROVE  /\ Free(<<x>>, S) <=> x \notin S
         /\ LastIn(<<x>>, S, G) <=> (x \in S => x \in G)
         /\ Free(<<>>, S) /\ LastIn(<<>>, S, G)
<1>1. DOMAIN <<x>> = {1} /\ <<x>>[1] = x /\ DOMAIN <<>> = {}
  OBVIOUS
<1>. QED
  BY <1>1 DEF Free, LastIn

LEMMA LastHead ==
  ASSUME NEW T, NEW S, NEW G, NEW q \in Seq(T), q # <<>>
  PROVE  /\ Tail(q) \in Seq(T) /\ Head(q) \in T
         /\ Free(q, S) <=> Head(q) \notin S /\ Free(Tail(q), S)
         /\ LastIn(q, S, G) <=> /\ LastIn(Tail(q), S, G)
                                /\ Free(Tail(q), S) /\ Head(q) \in S => Head(q) \in G
<1>1. /\ Tail(q) \in Seq(T) /\ Head(q) \in T /\ <<Head(q)>> \in Seq(T)
      /\ q = <<Head(q)>> \o Tail(q)
  BY HeadTailProperties
<1>2. PICK h, t : h = Head(q) /\ t = Tail(q)
  OBVIOUS
<1>3. /\ Free(<<h>> \o t, S) <=> Free(<<h>>, S) /\ Free(t, S)
      /\ LastIn(<<h>> \o t, S, G) <=> LastIn(t, S, G) /\ (Free(t, S) => LastIn(<<h>>, S, G))
  BY <1>1, <1>2, FreeConcat, LastConcat
<1>4. /\ Free(<<h>>, S) <=> h \notin S
      /\ LastIn(<<h>>, S, G) <=> (h \in S => h \in G)
  BY LastOne
<1>. QED
  BY <1>1, <1>2, <1>3, <1>4

LEMMA LastAppend ==
  ASSUME NEW T, NEW S, NEW G, NEW q \in Seq(T), NEW x \in T
  PROVE  /\ Append(q, x) \in Seq(T)
         /\ Free(Append(q, x), S) <=> x \notin S /\ Free(q, S)
         /\ LastIn(Append(q, x), S, G) <=>
              (x \in S => x \in G) /\ (x \notin S => LastIn(q, S, G))
<1>1. <<x>> \in Seq(T) /\ Append(q, x) \in Seq(T)
  BY AppendProperties
<1>2. Append(q, x) = q \o <<x>>
  BY AppendIsConcat
<1>3. /\ Free(q \o <<x>>, S) <=> Free(q, S) /\ Free(<<x>>, S)
      /\ LastIn(q \o <<x>>, S, G) <=>
           LastIn(<<x>>, S, G) /\ (Free(<<x>>, S) => LastIn(q, S, G))
  BY <1>1, FreeConcat, LastConcat
<1>4. /\ Free(<<x>>, S) <=> x \notin S
      /\ LastIn(<<x>>, S, G) <=> (x \in S => x \in G)
  BY LastOne
<1>. QED
  BY <1>1, <1>2, <1>3, <1>4

\* Where there is an entry of a kind, there is a last one.
LEMMA LastExists ==
  ASSUME NEW T, NEW S, NEW q \in Seq(T), ~Free(q, S)
  PROVE  \E i \in DOMAIN q : q[i] \in S /\ \A j \in DOMAIN q : j > i => q[j] \notin S
<1>. DEFINE Found == \E i \in DOMAIN q : q[i] \in S /\ \A j \in DOMAIN q : j > i => q[j] \notin S
            P == {m \in Nat : Found \/ \A j \in DOMAIN q : j > Len(q) - m => q[j] \notin S}
<1>1. Len(q) \in Nat /\ DOMAIN q = 1..Len(q)
  BY LenProperties
<1>2. 0 \in P
  BY <1>1
<1>3. ASSUME NEW m \in Nat, m \in P PROVE m + 1 \in P
  <2>1. CASE Found
    BY <2>1
  <2>2. CASE \A j \in DOMAIN q : j > Len(q) - m => q[j] \notin S
    <3>1. CASE Len(q) - m \in DOMAIN q /\ q[Len(q) - m] \in S
      BY <2>2, <3>1
    <3>2. CASE ~(Len(q) - m \in DOMAIN q /\ q[Len(q) - m] \in S)
      <4>1. ASSUME NEW j \in DOMAIN q, j > Len(q) - (m + 1) PROVE q[j] \notin S
        <5>1. j > Len(q) - m \/ j = Len(q) - m
          BY <1>1, <4>1
        <5>. QED
          BY <2>2, <3>2, <5>1
      <4>. QED
        BY <4>1
    <3>. QED
      BY <3>1, <3>2
  <2>. QED
    BY <1>3, <2>1, <2>2
<1>4. Len(q) \in P
  <2>. HIDE DEF P
  <2>. QED
    BY <1>1, <1>2, <1>3, SetInduction
<1>. QED
  BY <1>1, <1>4 DEF Free

\* A channel's first k messages and what is left of it, and the tasks made
\* of the first.
LEMMA LastPart ==
  ASSUME NEW T, NEW S, NEW G, NEW s \in Seq(T), NEW k \in 0..Len(s)
  PROVE  /\ Free(s, S) <=> Free(SubSeq(s, 1, k), S) /\ Free(Drop(s, k), S)
         /\ LastIn(s, S, G) <=> /\ LastIn(Drop(s, k), S, G)
                                /\ Free(Drop(s, k), S) => LastIn(SubSeq(s, 1, k), S, G)
<1>1. Len(s) \in Nat /\ DOMAIN s = 1..Len(s)
  BY LenProperties
<1>2. SubSeq(s, 1, k) \in Seq(T) /\ Drop(s, k) \in Seq(T)
  BY <1>1, EntriesPart
<1>3. s = SubSeq(s, 1, k) \o Drop(s, k)
  <2>1. 1 \in 1..(Len(s) + 1) /\ k \in (1 - 1)..Len(s) /\ Len(s) \in k..Len(s)
    BY <1>1
  <2>2. SubSeq(s, 1, k) \o SubSeq(s, k + 1, Len(s)) = SubSeq(s, 1, Len(s))
    BY <2>1, ConcatAdjacentSubSeq
  <2>. QED
    BY <2>2, SubSeqFull DEF Drop
<1>4. PICK h, d : h = SubSeq(s, 1, k) /\ d = Drop(s, k)
  OBVIOUS
<1>5. /\ Free(h \o d, S) <=> Free(h, S) /\ Free(d, S)
      /\ LastIn(h \o d, S, G) <=> LastIn(d, S, G) /\ (Free(d, S) => LastIn(h, S, G))
  BY <1>2, <1>4, FreeConcat, LastConcat
<1>. QED
  BY <1>3, <1>4, <1>5

LEMMA LastHandleAll ==
  ASSUME NEW T, NEW S, NEW G, NEW s \in Seq(T), NEW k \in 0..Len(s), NEW kind, NEW c,
         NEW Z, NEW V,
         \A m \in T : /\ Task(kind, c, m) \in Z <=> m \in S
                      /\ Task(kind, c, m) \in V <=> m \in G
  PROVE  /\ Free(HandleAll(kind, c, s, k), Z) <=> Free(SubSeq(s, 1, k), S)
         /\ LastIn(HandleAll(kind, c, s, k), Z, V) <=> LastIn(SubSeq(s, 1, k), S, G)
<1> DEFINE h == SubSeq(s, 1, k)
           xs == HandleAll(kind, c, s, k)
<1>1. Len(s) \in Nat /\ DOMAIN s = 1..Len(s) /\ \A i \in 1..k : s[i] \in T
  BY LenProperties, ElementOfSeq
<1>2. /\ DOMAIN h = 1..k /\ \A i \in 1..k : h[i] = s[i]
  BY <1>1
<1>3. DOMAIN xs = 1..k /\ \A i \in 1..k : xs[i] = Task(kind, c, s[i])
  BY DEF HandleAll
<1>. HIDE DEF h, xs
<1>4. \A i \in 1..k : (xs[i] \in Z <=> h[i] \in S) /\ (xs[i] \in V <=> h[i] \in G)
  BY <1>1, <1>2, <1>3
<1>5. Free(xs, Z) <=> Free(h, S)
  BY <1>2, <1>3, <1>4 DEF Free
<1>6. LastIn(xs, Z, V) <=> LastIn(h, S, G)
  BY <1>2, <1>3, <1>4 DEF LastIn
<1>. QED
  BY <1>5, <1>6 DEF h, xs

LEMMA FreeHandleAll ==
  ASSUME NEW T, NEW S, NEW s \in Seq(T), NEW k \in 0..Len(s), NEW kind, NEW c, NEW Z,
         \A m \in T : Task(kind, c, m) \in Z <=> m \in S
  PROVE  Free(HandleAll(kind, c, s, k), Z) <=> Free(SubSeq(s, 1, k), S)
<1> DEFINE h == SubSeq(s, 1, k)
           xs == HandleAll(kind, c, s, k)
<1>1. Len(s) \in Nat /\ DOMAIN s = 1..Len(s) /\ \A i \in 1..k : s[i] \in T
  BY LenProperties, ElementOfSeq
<1>2. /\ DOMAIN h = 1..k /\ \A i \in 1..k : h[i] = s[i]
  BY <1>1
<1>3. DOMAIN xs = 1..k /\ \A i \in 1..k : xs[i] = Task(kind, c, s[i])
  BY DEF HandleAll
<1>. HIDE DEF h, xs
<1>4. \A i \in 1..k : xs[i] \in Z <=> h[i] \in S
  BY <1>1, <1>2, <1>3
<1>5. Free(xs, Z) <=> Free(h, S)
  BY <1>2, <1>3, <1>4 DEF Free
<1>. QED
  BY <1>5 DEF h, xs
================================================================================
