---------------------------- MODULE SpecFileProofs ----------------------------
(***************************************************************************)
(* Proofs about SpecFile: what the folds that split and index the words of *)
(* a file return, that the index keeps what it has, and that it has every  *)
(* word of the file.                                                       *)
(***************************************************************************)
EXTENDS SpecFile, SequenceLemmas

(***************************************************************************)
(* The file is a sequence of words.                                        *)
(***************************************************************************)
Words == Range(Text)

LEMMA SequenceFacts ==
  ASSUME NEW s, IsSequence(s)
  PROVE  /\ Len(s) \in Nat /\ DOMAIN s = 1..Len(s)
         /\ \A i \in DOMAIN s : s[i] \in Range(s)
BY DEF IsSequence, Range

\* A sequence, with its elements in whatever set they are in.
LEMMA IsSequenceOf ==
  ASSUME NEW S, NEW s \in Seq(S)
  PROVE  IsSequence(s)
<1>1. s \in [1..Len(s) -> Range(s)] /\ Len(s) \in Nat
  BY DEF Range
<1>. QED
  BY <1>1 DEF IsSequence

LEMMA ConcatSequences ==
  ASSUME NEW s, NEW t, IsSequence(s), IsSequence(t)
  PROVE  IsSequence(s \o t)
<1>1. PICK S : s \in Seq(S) /\ t \in Seq(S)
  <2>1. s \in Seq(Range(s) \cup Range(t)) /\ t \in Seq(Range(s) \cup Range(t))
    <3>1. PICK A, B : A = Range(s) /\ B = Range(t)
      OBVIOUS
    <3>2. s \in Seq(A) /\ t \in Seq(B)
      BY <3>1 DEF IsSequence
    <3>3. s \in Seq(A \cup B) /\ t \in Seq(A \cup B)
      BY <3>2
    <3>. QED
      BY <3>1, <3>3
  <2>. QED
    BY <2>1
<1>2. s \o t \in Seq(S)
  BY <1>1
<1>. QED
  BY <1>2, IsSequenceOf

\* Joining n sequences.
LEMMA SequencesOf ==
  ASSUME NEW n \in Nat, NEW f, f = [i \in 1..n |-> f[i]], \A i \in 1..n : IsSequence(f[i])
  PROVE  \E X : f \in Seq(Seq(X)) /\ Len(f) = n
<1>. DEFINE X == UNION {Range(f[i]) : i \in 1..n}
<1>1. ASSUME NEW i \in 1..n PROVE f[i] \in Seq(X)
  <2>1. Range(f[i]) \subseteq X
    OBVIOUS
  <2>2. f[i] \in Seq(Range(f[i]))
    BY DEF IsSequence
  <2>. HIDE DEF X
  <2>3. PICK s, A : s = f[i] /\ A = Range(f[i])
    OBVIOUS
  <2>. QED
    BY <2>1, <2>2, <2>3, SeqMonotonic
<1>. HIDE DEF X
<1>2. PICK Y : Y = Seq(X)
  OBVIOUS
<1>3. f \in [1..n -> Y]
  BY <1>1, <1>2
<1>4. f \in Seq(Y) /\ Len(f) = n
  BY <1>3
<1>. QED
  BY <1>2, <1>4

LEMMA JoinedSequences ==
  ASSUME NEW n \in Nat, NEW f, f = [i \in 1..n |-> f[i]], \A i \in 1..n : IsSequence(f[i])
  PROVE  IsSequence(FlattenSeq(f))
<1>1. PICK X : f \in Seq(Seq(X))
  BY SequencesOf
<1>2. FlattenSeq(f) \in Seq(X)
  BY <1>1, FlattenProperties
<1>. QED
  BY <1>2, IsSequenceOf

LEMMA OneSequence == \A x : IsSequence(<<x>>)
<1>1. \A x : <<x>> \in Seq({x})
  OBVIOUS
<1>. QED
  BY <1>1, IsSequenceOf

LEMMA EmptySequence == IsSequence(<<>>)
<1>1. <<>> \in Seq({})
  OBVIOUS
<1>. QED
  BY <1>1, IsSequenceOf

LEMMA HeaderLineSequence == \A k, v : IsSequence(HeaderLine(k, v))
<1>1. \A x, y, z : <<x, y, z>> \in Seq({x, y, z})
  OBVIOUS
<1>2. \A x, y, z : IsSequence(<<x, y, z>>)
  BY <1>1, IsSequenceOf
<1>. QED
  BY <1>2 DEF HeaderLine

LEMMA RowSequence ==
  ASSUME NEW values, IsSequence(values)
  PROVE  IsSequence(Row(values))
<1>. DEFINE numbers == [i \in DOMAIN values |-> Number(values[i])]
<1>1. PICK n \in Nat : DOMAIN values = 1..n
  BY SequenceFacts
<1>2. numbers \in [1..n -> {Number(values[i]) : i \in 1..n}]
  BY <1>1
<1>3. numbers \in Seq({Number(values[i]) : i \in 1..n})
  BY <1>2
<1>4. IsSequence(numbers)
  BY <1>3, IsSequenceOf
<1>5. IsSequence(<<NL>>)
  BY OneSequence
<1>. HIDE DEF numbers
<1>6. IsSequence(numbers \o <<NL>>)
  BY <1>4, <1>5, ConcatSequences
<1>. QED
  BY <1>6 DEF Row, numbers

LEMMA SpectrumSequence ==
  ASSUME NEW values, IsSequence(values)
  PROVE  IsSequence(Spectrum(values))
<1>1. PICK n \in Nat : DOMAIN values = 1..n
  BY SequenceFacts
<1>. DEFINE f == [i \in 1..n |-> IF i = Len(values) THEN <<Number(values[i]), NL>>
                                 ELSE <<Number(values[i]), More, NL>>]
<1>2. ASSUME NEW i \in 1..n PROVE IsSequence(f[i])
  <2>1. PICK x : x = Number(values[i])
    OBVIOUS
  <2>2. IsSequence(<<x, NL>>)
    <3>1. <<x, NL>> \in Seq({x, NL})
      OBVIOUS
    <3>. QED
      BY <3>1, IsSequenceOf
  <2>3. IsSequence(<<x, More, NL>>)
    <3>1. <<x, More, NL>> \in Seq({x, More, NL})
      OBVIOUS
    <3>. QED
      BY <3>1, IsSequenceOf
  <2>4. f[i] = <<x, NL>> \/ f[i] = <<x, More, NL>>
    BY <2>1
  <2>. HIDE DEF f
  <2>. QED
    BY <2>2, <2>3, <2>4
<1>3. f = [i \in 1..n |-> f[i]]
  OBVIOUS
<1>4. f = [i \in DOMAIN values |-> IF i = Len(values) THEN <<Number(values[i]), NL>>
                                  ELSE <<Number(values[i]), More, NL>>]
  BY <1>1
<1>. HIDE DEF f
<1>5. IsSequence(FlattenSeq(f))
  BY <1>2, <1>3, JoinedSequences
<1>6. IsSequence(<<W("@A", 0)>>)
  BY OneSequence
<1>7. Spectrum(values) = <<W("@A", 0)>> \o FlattenSeq(f)
  BY <1>4 DEF Spectrum
<1>. QED
  BY <1>5, <1>6, <1>7, ConcatSequences

LEMMA WrittenSequence ==
  ASSUME NEW b \in Range(Plan)
  PROVE  IsSequence(Written(b))
<1>1. CASE b.kind = "header"
  <2>1. Written(b) = HeaderLine("F", b.file) \o HeaderLine("E", 0) \o HeaderLine("O", b.names)
    BY <1>1 DEF Written
  <2>2. PICK x, y, z : /\ x = HeaderLine("F", b.file) /\ y = HeaderLine("E", 0)
                       /\ z = HeaderLine("O", b.names)
                       /\ IsSequence(x) /\ IsSequence(y) /\ IsSequence(z)
    BY HeaderLineSequence
  <2>3. IsSequence(x \o y)
    BY <2>2, ConcatSequences
  <2>4. IsSequence((x \o y) \o z)
    BY <2>2, <2>3, ConcatSequences
  <2>. QED
    BY <2>1, <2>2, <2>4
<1>2. CASE b.kind = "scan" /\ IsSequence(b.points)
           /\ \A p \in Range(b.points) :
                /\ IsSequence(p.row) /\ IsSequence(p.spectra)
                /\ \A s \in Range(p.spectra) : IsSequence(s) /\ s # <<>>
  <2>. DEFINE Taken(p) == FlattenSeq([d \in DOMAIN p.spectra |-> Spectrum(p.spectra[d])])
                            \o Row(p.row)
              points == [i \in DOMAIN b.points |-> Taken(b.points[i])]
  <2>1. ASSUME NEW p \in Range(b.points) PROVE IsSequence(Taken(p))
    <3>1. PICK n \in Nat : DOMAIN p.spectra = 1..n
      BY <1>2, SequenceFacts
    <3>. DEFINE f == [d \in 1..n |-> Spectrum(p.spectra[d])]
    <3>2. \A d \in 1..n : IsSequence(Spectrum(p.spectra[d]))
      <4>1. ASSUME NEW d \in 1..n PROVE p.spectra[d] \in Range(p.spectra)
        BY <1>2, <3>1, SequenceFacts
      <4>. QED
        BY <1>2, <4>1, SpectrumSequence
    <3>3. f = [d \in 1..n |-> f[d]] /\ \A d \in 1..n : IsSequence(f[d])
      BY <3>2
    <3>4. f = [d \in DOMAIN p.spectra |-> Spectrum(p.spectra[d])]
      BY <3>1
    <3>. HIDE DEF f
    <3>5. IsSequence(FlattenSeq(f))
      BY <3>3, JoinedSequences
    <3>6. IsSequence(Row(p.row))
      BY <1>2, RowSequence
    <3>. QED
      BY <3>4, <3>5, <3>6, ConcatSequences
  <2>2. IsSequence(FlattenSeq(points))
    <3>1. PICK n \in Nat : DOMAIN b.points = 1..n
      BY <1>2, SequenceFacts
    <3>2. \A i \in 1..n : b.points[i] \in Range(b.points)
      BY <1>2, <3>1, SequenceFacts
    <3>. HIDE DEF Taken
    <3>3. points = [i \in 1..n |-> points[i]] /\ \A i \in 1..n : IsSequence(points[i])
      BY <2>1, <3>1, <3>2
    <3>. HIDE DEF points
    <3>. QED
      BY <3>3, JoinedSequences
  <2>3. PICK s, n, p, l, c, f :
          /\ s = HeaderLine("S", b.number) /\ n = HeaderLine("N", b.columns)
          /\ p = HeaderLine("P", b.positions) /\ l = HeaderLine("L", b.columns)
          /\ c = IF b.comment THEN HeaderLine("C", 0) ELSE <<>>
          /\ f = FlattenSeq(points)
    OBVIOUS
  <2>4. /\ IsSequence(s) /\ IsSequence(n) /\ IsSequence(p) /\ IsSequence(l) /\ IsSequence(c)
        /\ IsSequence(f)
    <3>. HIDE DEF points
    <3>. QED
      BY <2>2, <2>3, HeaderLineSequence, EmptySequence
  <2>5. Written(b) = s \o n \o p \o l \o f \o c
    BY <1>2, <2>3 DEF Written
  <2>6. IsSequence(s \o n)
    BY <2>4, ConcatSequences
  <2>7. IsSequence(s \o n \o p)
    BY <2>4, <2>6, ConcatSequences
  <2>8. IsSequence(s \o n \o p \o l)
    BY <2>4, <2>7, ConcatSequences
  <2>9. IsSequence(s \o n \o p \o l \o f)
    BY <2>4, <2>8, ConcatSequences
  <2>10. IsSequence(s \o n \o p \o l \o f \o c)
    BY <2>4, <2>9, ConcatSequences
  <2>. QED
    BY <2>5, <2>10
<1>3. CASE b.kind = "remark"
  <2>1. Written(b) = HeaderLine("remark", b.text)
    BY <1>3 DEF Written
  <2>. QED
    BY <2>1, HeaderLineSequence
<1>. QED
  BY <1>1, <1>2, <1>3, SpecFileAssumption

LEMMA TextSequence == Text \in Seq(Words) /\ Len(Text) \in Nat
<1>. DEFINE Block1(i) == IF i = 1 THEN Written(Plan[i]) ELSE <<NL>> \o Written(Plan[i])
            f == [i \in DOMAIN Plan |-> Block1(i)]
<1>1. PICK n \in Nat : DOMAIN Plan = 1..n /\ \A i \in 1..n : Plan[i] \in Range(Plan)
  BY SpecFileAssumption, SequenceFacts
<1>2. ASSUME NEW i \in 1..n PROVE IsSequence(Block1(i))
  <2>1. IsSequence(Written(Plan[i]))
    BY <1>1, WrittenSequence
  <2>2. IsSequence(<<NL>>)
    BY OneSequence
  <2>. QED
    BY <2>1, <2>2, ConcatSequences
<1>3. Text = FlattenSeq(f)
  BY DEF Text
<1>. HIDE DEF Block1
<1>4. f = [i \in 1..n |-> f[i]] /\ \A i \in 1..n : IsSequence(f[i])
  BY <1>1, <1>2
<1>. HIDE DEF f
<1>5. IsSequence(Text)
  BY <1>3, <1>4, JoinedSequences
<1>. QED
  BY <1>5, SequenceFacts DEF IsSequence, Words

(***************************************************************************)
(* Lines and chunks.                                                       *)
(***************************************************************************)
AddWord(lines, w) ==
    IF w = NL THEN Append(lines, <<>>) ELSE [lines EXCEPT ![Len(lines)] = Append(@, w)]

\* How LinesOf comes to its lines, word by word.
LEMMA LinesTrace ==
  ASSUME NEW S, NEW words \in Seq(S)
  PROVE  \E h \in [0..Len(words) -> {l \in Seq(Seq(S)) : l # <<>>}] :
            /\ h[0] = << <<>> >> /\ LinesOf(words) = h[Len(words)]
            /\ \A i \in 1..Len(words) : h[i] = AddWord(h[i - 1], words[i])
<1>. DEFINE X == {l \in Seq(Seq(S)) : l # <<>>}
            b == << <<>> >>
            D == DOMAIN words
            Is(f) == f = [s \in SUBSET D |-> IF s = {} THEN b
                                             ELSE AddWord(f[s \ {Max(s)}], words[Max(s)])]
            g == CHOOSE f : Is(f)
<1>0. words \in Seq(S)
  OBVIOUS
<1>1. \A x \in X : \A y \in S : AddWord(x, y) \in X
  <2>1. ASSUME NEW x \in X, NEW y \in S PROVE AddWord(x, y) \in X
    <3>1. x \in Seq(Seq(S)) /\ Len(x) \in 1..Len(x) /\ x[Len(x)] \in Seq(S)
      BY EmptySeq
    <3>2. Append(x, <<>>) \in X
      BY SMTT(30), <3>1
    <3>3. Append(x[Len(x)], y) \in Seq(S)
      BY <3>1
    <3>4. [x EXCEPT ![Len(x)] = Append(@, y)] \in X
      <4>1. [x EXCEPT ![Len(x)] = Append(x[Len(x)], y)] \in Seq(Seq(S))
        BY <3>1, <3>3, ExceptSeq
      <4>2. Len([x EXCEPT ![Len(x)] = Append(x[Len(x)], y)]) = Len(x)
        BY <3>1, <3>3, ExceptSeq
      <4>. QED
        BY <3>1, <4>1, <4>2, EmptySeq
    <3>. QED
      BY <3>2, <3>4 DEF AddWord
  <2>. QED
    BY <2>1
<1>2. b \in X
  OBVIOUS
<1>3. LinesOf(words) = g[D]
  BY DEF LinesOf, FoldLeft, MapThenFoldSet, AddWord
<1>4. PICK n \in Nat : D = 1..n /\ \A i \in 1..n : words[i] \in S
  BY <1>0
<1>5. \A s \in SUBSET D : s # {} => s \ {Max(s)} \in SUBSET D /\ words[Max(s)] \in S
  BY <1>4, MaxFacts
<1>6. \E f : Is(f)
  <2>. DEFINE step == [p \in X \X S |-> AddWord(p[1], p[2])]
  <2>1. step \in [X \X S -> X] /\ \A x \in X : \A y \in S : step[<<x, y>>] = AddWord(x, y)
    BY <1>1
  <2>. HIDE DEF X, D, step
  <2>2. PICK f \in [SUBSET D -> X] : Folds(b, step, words, D, f)
    BY <1>0, <1>2, <2>1, FoldsExist DEF D
  <2>3. ASSUME NEW s \in SUBSET D, s # {}
        PROVE  step[<<f[s \ {Max(s)}], words[Max(s)]>>] = AddWord(f[s \ {Max(s)}], words[Max(s)])
    BY <1>5, <2>1, <2>3
  <2>4. Is(f)
    BY <2>2, <2>3 DEF Folds
  <2>. QED
    BY <2>4
<1>7. Is(g)
  <2>. HIDE DEF Is
  <2>. QED
    BY <1>6
<1>8. \E h \in [0..Len(words) -> X] :
        /\ h[0] = b /\ g[D] = h[Len(words)]
        /\ \A i \in 1..Len(words) : h[i] = AddWord(h[i - 1], words[i])
  <2>. DEFINE Met == {<<g[s \ {Max(s)}], words[Max(s)]>> : s \in SUBSET D}
              step == [p \in (X \X S) \cup Met |-> AddWord(p[1], p[2])]
  <2>1. \A x \in X : \A y \in S : step[<<x, y>>] = AddWord(x, y)
    OBVIOUS
  <2>2. \A s \in SUBSET D : step[<<g[s \ {Max(s)}], words[Max(s)]>>]
                             = AddWord(g[s \ {Max(s)}], words[Max(s)])
    OBVIOUS
  <2>. HIDE DEF X, D, step, g
  <2>3. Folds(b, step, words, D, g)
    BY <1>7, <2>2 DEF Folds
  <2>4. \A x \in X : \A y \in S : step[<<x, y>>] \in X
    BY <1>1, <2>1
  <2>5. Traced(X, b, step, words, g[D])
    BY <1>0, <1>2, <2>3, <2>4, FoldsTrace DEF D
  <2>6. PICK h \in [0..Len(words) -> X] :
          /\ h[0] = b /\ g[D] = h[Len(words)]
          /\ \A i \in 1..Len(words) : h[i] = step[<<h[i - 1], words[i]>>]
    BY <2>5 DEF Traced
  <2>7. ASSUME NEW i \in 1..Len(words) PROVE h[i] = AddWord(h[i - 1], words[i])
    <3>1. Len(words) \in Nat /\ words[i] \in S
      BY <1>0
    <3>2. i - 1 \in 0..Len(words)
      BY <3>1
    <3>3. h[i - 1] \in X
      BY <3>2
    <3>. QED
      BY <2>1, <2>6, <3>1, <3>3
  <2>. QED
    BY <2>6, <2>7
<1>. QED
  <2>. HIDE DEF g, D
  <2>. QED
    BY <1>3, <1>8

LEMMA LinesAreLines ==
  ASSUME NEW S, NEW words \in Seq(S)
  PROVE  LinesOf(words) \in Seq(Seq(S))
<1>1. Len(words) \in 0..Len(words)
  OBVIOUS
<1>. QED
  BY <1>1, LinesTrace

AddLine(chunks, line) ==
    CASE chunks = <<>>                       -> << <<line>> >>
      [] chunks # <<>> /\ line # <<>> /\ line[1] = HASH -> Append(chunks, <<Tail(line)>>)
      [] OTHER -> [chunks EXCEPT ![Len(chunks)] = Append(@, line)]

\* How Chunks comes to its chunks, line by line.
LEMMA ChunksTrace ==
  ASSUME NEW S, NEW words \in Seq(S)
  PROVE  \E h \in [0..Len(LinesOf(words)) -> Seq(Seq(Seq(S)))] :
            /\ h[0] = <<>> /\ Chunks(words) = h[Len(LinesOf(words))]
            /\ \A i \in 1..Len(LinesOf(words)) : h[i] = AddLine(h[i - 1], LinesOf(words)[i])
<1>. DEFINE lines == LinesOf(words)
            Y == Seq(S)
            X == Seq(Seq(Y))
            b == <<>>
            D == DOMAIN lines
            Is(f) == f = [s \in SUBSET D |-> IF s = {} THEN b
                                             ELSE AddLine(f[s \ {Max(s)}], lines[Max(s)])]
            g == CHOOSE f : Is(f)
<1>0. lines \in Seq(Y)
  BY LinesAreLines
<1>1. \A x \in X : \A y \in Y : AddLine(x, y) \in X
  <2>1. ASSUME NEW x \in X, NEW y \in Y PROVE AddLine(x, y) \in X
    <3>1. CASE x = <<>>
      <4>1. << <<y>> >> \in X
        <5>1. <<y>> \in Seq(Y)
          OBVIOUS
        <5>. QED
          BY <5>1
      <4>2. AddLine(x, y) = << <<y>> >>
        BY <3>1 DEF AddLine
      <4>. QED
        BY <4>1, <4>2
    <3>2. CASE x # <<>> /\ y # <<>> /\ y[1] = HASH
      <4>1. AddLine(x, y) = Append(x, <<Tail(y)>>)
        BY <3>2 DEF AddLine
      <4>2. Tail(y) \in Y
        BY <3>2
      <4>3. <<Tail(y)>> \in Seq(Y)
        <5>. HIDE DEF Y
        <5>. QED
          BY <4>2
      <4>. HIDE DEF Y
      <4>. QED
        BY <4>1, <4>3
    <3>3. CASE x # <<>> /\ ~(y # <<>> /\ y[1] = HASH)
      <4>1. AddLine(x, y) = [x EXCEPT ![Len(x)] = Append(x[Len(x)], y)]
        BY <3>3 DEF AddLine
      <4>. HIDE DEF Y
      <4>2. x \in Seq(Seq(Y)) /\ Len(x) \in 1..Len(x) /\ x[Len(x)] \in Seq(Y)
        BY <3>3, EmptySeq
      <4>3. Append(x[Len(x)], y) \in Seq(Y)
        BY <4>2
      <4>4. [x EXCEPT ![Len(x)] = Append(x[Len(x)], y)] \in Seq(Seq(Y))
        BY <4>2, <4>3, ExceptSeq
      <4>. QED
        BY <4>1, <4>4
    <3>. QED
      BY <3>1, <3>2, <3>3
  <2>. QED
    BY <2>1
<1>2. b \in X
  OBVIOUS
<1>3. Chunks(words) = g[D]
  BY DEF Chunks, FoldLeft, MapThenFoldSet, AddLine
<1>. HIDE DEF lines, Y
<1>4. PICK n \in Nat : D = 1..n /\ \A i \in 1..n : lines[i] \in Y
  BY <1>0
<1>5. \A s \in SUBSET D : s # {} => s \ {Max(s)} \in SUBSET D /\ lines[Max(s)] \in Y
  BY <1>4, MaxFacts
<1>6. \E f : Is(f)
  <2>. DEFINE step == [p \in X \X Y |-> AddLine(p[1], p[2])]
  <2>1. step \in [X \X Y -> X] /\ \A x \in X : \A y \in Y : step[<<x, y>>] = AddLine(x, y)
    BY <1>1
  <2>. HIDE DEF X, D, step
  <2>2. PICK f \in [SUBSET D -> X] : Folds(b, step, lines, D, f)
    BY <1>0, <1>2, <2>1, FoldsExist DEF D
  <2>3. ASSUME NEW s \in SUBSET D, s # {}
        PROVE  step[<<f[s \ {Max(s)}], lines[Max(s)]>>] = AddLine(f[s \ {Max(s)}], lines[Max(s)])
    BY <1>5, <2>1, <2>3
  <2>4. Is(f)
    BY <2>2, <2>3 DEF Folds
  <2>. QED
    BY <2>4
<1>7. Is(g)
  <2>. HIDE DEF Is
  <2>. QED
    BY <1>6
<1>8. \E h \in [0..Len(lines) -> X] :
        /\ h[0] = b /\ g[D] = h[Len(lines)]
        /\ \A i \in 1..Len(lines) : h[i] = AddLine(h[i - 1], lines[i])
  <2>. DEFINE Met == {<<g[s \ {Max(s)}], lines[Max(s)]>> : s \in SUBSET D}
              step == [p \in (X \X Y) \cup Met |-> AddLine(p[1], p[2])]
  <2>1. \A x \in X : \A y \in Y : step[<<x, y>>] = AddLine(x, y)
    OBVIOUS
  <2>2. \A s \in SUBSET D : step[<<g[s \ {Max(s)}], lines[Max(s)]>>]
                             = AddLine(g[s \ {Max(s)}], lines[Max(s)])
    OBVIOUS
  <2>. HIDE DEF X, D, step, g
  <2>3. Folds(b, step, lines, D, g)
    BY <1>7, <2>2 DEF Folds
  <2>4. \A x \in X : \A y \in Y : step[<<x, y>>] \in X
    BY <1>1, <2>1
  <2>5. Traced(X, b, step, lines, g[D])
    BY <1>0, <1>2, <2>3, <2>4, FoldsTrace DEF D
  <2>6. PICK h \in [0..Len(lines) -> X] :
          /\ h[0] = b /\ g[D] = h[Len(lines)]
          /\ \A i \in 1..Len(lines) : h[i] = step[<<h[i - 1], lines[i]>>]
    BY <2>5 DEF Traced
  <2>7. ASSUME NEW i \in 1..Len(lines) PROVE h[i] = AddLine(h[i - 1], lines[i])
    <3>1. Len(lines) \in Nat /\ lines[i] \in Y
      BY <1>0
    <3>2. i - 1 \in 0..Len(lines)
      BY <3>1
    <3>3. h[i - 1] \in X
      BY <3>2
    <3>. QED
      BY <2>1, <2>6, <3>1, <3>3
  <2>. QED
    BY <2>6, <2>7
<1>. QED
  <2>. HIDE DEF g, D
  <2>. QED
    BY <1>3, <1>8 DEF Y, lines

LEMMA ChunksAreChunks ==
  ASSUME NEW S, NEW words \in Seq(S)
  PROVE  Chunks(words) \in Seq(Seq(Seq(S)))
<1>1. Len(LinesOf(words)) \in 0..Len(LinesOf(words))
  BY LinesAreLines
<1>. QED
  BY <1>1, ChunksTrace

(***************************************************************************)
(* The index.                                                              *)
(***************************************************************************)
LEMMA PrefixFacts ==
  ASSUME NEW S
  PROVE  /\ \A s \in Seq(S) : IsPrefix(s, s)
         /\ \A s, t \in Seq(S) : IsPrefix(s, s \o t)
         /\ \A s, t, u \in Seq(S) : IsPrefix(s, t) /\ IsPrefix(t, u) => IsPrefix(s, u)
<1>1. ASSUME NEW s \in Seq(S), NEW t \in Seq(S)
      PROVE  IsPrefix(s, t) <=> Len(s) <= Len(t) /\ \A i \in 1..Len(s) : s[i] = t[i]
  <2>1. CASE Len(s) <= Len(t)
    <3>1. /\ SubSeq(s, 1, Len(s)) \in Seq(S) /\ SubSeq(t, 1, Len(s)) \in Seq(S)
          /\ Len(SubSeq(s, 1, Len(s))) = Len(s) /\ Len(SubSeq(t, 1, Len(s))) = Len(s)
          /\ \A i \in 1..Len(s) : SubSeq(s, 1, Len(s))[i] = s[i] /\ SubSeq(t, 1, Len(s))[i] = t[i]
      BY <2>1
    <3>2. PICK a \in Seq(S), b \in Seq(S) : a = SubSeq(s, 1, Len(s)) /\ b = SubSeq(t, 1, Len(s))
      BY <3>1
    <3>3. a = b <=> \A i \in 1..Len(s) : a[i] = b[i]
      BY <3>1, <3>2, SeqEqual
    <3>. QED
      BY <2>1, <3>1, <3>2, <3>3 DEF IsPrefix
  <2>2. CASE ~(Len(s) <= Len(t))
    BY <2>2 DEF IsPrefix
  <2>. QED
    BY <2>1, <2>2
<1>2. \A s \in Seq(S) : Len(s) \in Nat
  OBVIOUS
<1>3. ASSUME NEW s \in Seq(S), NEW t \in Seq(S) PROVE IsPrefix(s, s \o t)
  <2>1. s \o t \in Seq(S) /\ Len(s) <= Len(s \o t) /\ \A i \in 1..Len(s) : s[i] = (s \o t)[i]
    OBVIOUS
  <2>. QED
    BY <1>1, <2>1
<1>4. ASSUME NEW s \in Seq(S), NEW t \in Seq(S), NEW u \in Seq(S), IsPrefix(s, t), IsPrefix(t, u)
      PROVE  IsPrefix(s, u)
  <2>1. Len(s) <= Len(t) /\ Len(t) <= Len(u)
    BY <1>1, <1>4
  <2>2. \A i \in 1..Len(s) : i \in 1..Len(t) /\ s[i] = t[i]
    BY <1>1, <1>2, <1>4
  <2>3. \A i \in 1..Len(t) : t[i] = u[i]
    BY <1>1, <1>4
  <2>. QED
    BY <1>1, <1>2, <2>1, <2>2, <2>3
<1>. QED
  BY <1>1, <1>2, <1>3, <1>4

Lines == Seq(Seq(Words))
Numbers == {w.v : w \in Words}
Scan == [number : Numbers, header : Nat, lines : Lines]
Header == [file : Numbers \cup {None}, lines : Lines]
Ignored == [lines : {c \in Lines : Dropped(c)}]
Parsed == {None} \cup {Parse(l) : l \in Lines}
Index == [scans : Seq(Scan), headers : Seq(Header), origfilename : Numbers \cup {None},
          parsed : Seq(Parsed), fb : {"none", "scan", "header"} \X Nat, read : BOOLEAN,
          ignored : Seq(Ignored)]

\* A well-formed index.  What has been parsed of the scan that lines are being
\* added to may be out of date.
CurrentAt(s, i) == s.parsed[i] \in {None, Parse(s.scans[i].lines)}
IndexOK(s) ==
    /\ s \in Index
    /\ Len(s.parsed) = Len(s.scans)
    /\ \A i \in DOMAIN s.scans : s.scans[i].header <= Len(s.headers)
    /\ s.fb[1] = "scan" => s.fb[2] \in DOMAIN s.scans
    /\ s.fb[1] = "header" => s.fb[2] \in DOMAIN s.headers
    /\ \A i \in DOMAIN s.scans : s.fb # <<"scan", i>> => CurrentAt(s, i)
Current(s) == \A i \in DOMAIN s.scans : CurrentAt(s, i)

\* t has all scans of s, with at least their lines.
Keeps(s, t) ==
    \A i \in DOMAIN s.scans :
        /\ i \in DOMAIN t.scans
        /\ s.scans[i].number = t.scans[i].number /\ s.scans[i].header = t.scans[i].header
        /\ IsPrefix(s.scans[i].lines, t.scans[i].lines)

LEMMA ScanFacts ==
  ASSUME NEW s \in Index
  PROVE  /\ DOMAIN s.scans = 1..Len(s.scans) /\ Len(s.scans) \in Nat
         /\ \A i \in DOMAIN s.scans : /\ s.scans[i] \in Scan /\ s.scans[i].lines \in Lines
                                      /\ s.scans[i].header \in Nat /\ s.scans[i].number \in Numbers
         /\ DOMAIN s.headers = 1..Len(s.headers) /\ Len(s.headers) \in Nat
         /\ DOMAIN s.parsed = 1..Len(s.parsed) /\ Len(s.parsed) \in Nat
<1>1. s.scans \in Seq(Scan) /\ s.headers \in Seq(Header) /\ s.parsed \in Seq(Parsed)
  BY DEF Index
<1>2. /\ DOMAIN s.scans = 1..Len(s.scans) /\ Len(s.scans) \in Nat
      /\ \A i \in DOMAIN s.scans : s.scans[i] \in Scan
  BY <1>1
<1>3. /\ DOMAIN s.headers = 1..Len(s.headers) /\ Len(s.headers) \in Nat
      /\ DOMAIN s.parsed = 1..Len(s.parsed) /\ Len(s.parsed) \in Nat
  BY <1>1
<1>4. \A x \in Scan : x.lines \in Lines /\ x.header \in Nat /\ x.number \in Numbers
  BY DEF Scan
<1>. QED
  BY <1>2, <1>3, <1>4

LEMMA KeepsFacts ==
  /\ \A s \in Index : Keeps(s, s)
  /\ \A s, t, u \in Index : Keeps(s, t) /\ Keeps(t, u) => Keeps(s, u)
  /\ \A s, t \in Index : t.scans = s.scans => Keeps(s, t)
<1>1. ASSUME NEW s \in Index, NEW t \in Index, t.scans = s.scans PROVE Keeps(s, t)
  <2>1. \A i \in DOMAIN s.scans : IsPrefix(s.scans[i].lines, s.scans[i].lines)
    BY ScanFacts, PrefixFacts DEF Lines
  <2>. QED
    BY <1>1, <2>1 DEF Keeps
<1>2. ASSUME NEW s \in Index, NEW t \in Index, NEW u \in Index, Keeps(s, t), Keeps(t, u)
      PROVE  Keeps(s, u)
  <2>1. ASSUME NEW i \in DOMAIN s.scans
        PROVE  /\ i \in DOMAIN u.scans
               /\ s.scans[i].number = u.scans[i].number /\ s.scans[i].header = u.scans[i].header
               /\ IsPrefix(s.scans[i].lines, u.scans[i].lines)
    <3>1. /\ i \in DOMAIN t.scans
          /\ s.scans[i].number = t.scans[i].number /\ s.scans[i].header = t.scans[i].header
          /\ IsPrefix(s.scans[i].lines, t.scans[i].lines)
      BY <1>2 DEF Keeps
    <3>2. /\ i \in DOMAIN u.scans
          /\ t.scans[i].number = u.scans[i].number /\ t.scans[i].header = u.scans[i].header
          /\ IsPrefix(t.scans[i].lines, u.scans[i].lines)
      BY <1>2, <3>1 DEF Keeps
    <3>3. s.scans[i].lines \in Lines /\ t.scans[i].lines \in Lines /\ u.scans[i].lines \in Lines
      BY <3>1, <3>2, ScanFacts
    <3>4. IsPrefix(s.scans[i].lines, u.scans[i].lines)
      BY <3>1, <3>2, <3>3, PrefixFacts DEF Lines
    <3>. QED
      BY <3>1, <3>2, <3>4
  <2>. QED
    BY <2>1 DEF Keeps
<1>3. \A s \in Index : Keeps(s, s)
  BY <1>1
<1>. QED
  BY <1>1, <1>2, <1>3

\* The end of a block: nothing out of date is left.
LEMMA EndKeeps ==
  ASSUME NEW s, IndexOK(s)
  PROVE  /\ IndexOK(End(s)) /\ Current(End(s)) /\ Keeps(s, End(s))
         /\ End(s).scans = s.scans /\ End(s).read = s.read
<1>0. s \in Index
  BY DEF IndexOK
<1>1. CASE s.fb[1] # "scan"
  <2>1. End(s) = s
    BY <1>1 DEF End
  <2>2. \A i : s.fb # <<"scan", i>>
    BY <1>1
  <2>3. Current(s)
    BY <2>2 DEF IndexOK, Current
  <2>. QED
    BY <1>0, <2>1, <2>3, KeepsFacts
<1>2. CASE s.fb[1] = "scan"
  <2>. DEFINE j == s.fb[2]
  <2>1. j \in DOMAIN s.scans /\ j \in DOMAIN s.parsed
    BY <1>0, <1>2, ScanFacts DEF IndexOK
  <2>2. PICK p : p = [s.parsed EXCEPT ![j] = None]
    OBVIOUS
  <2>3. /\ p \in Seq(Parsed) /\ Len(p) = Len(s.parsed)
        /\ \A i \in DOMAIN s.parsed : p[i] = IF i = j THEN None ELSE s.parsed[i]
    <3>1. s.parsed \in Seq(Parsed) /\ None \in Parsed
      BY <1>0 DEF Index, Parsed
    <3>2. j \in 1..Len(s.parsed) /\ DOMAIN s.parsed = 1..Len(s.parsed)
      BY <1>0, <2>1, ScanFacts
    <3>. QED
      BY <2>2, <3>1, <3>2, ExceptSeq
  <2>4. PICK t : t = [s EXCEPT !.parsed = p]
    OBVIOUS
  <2>5. End(s) = t
    BY <1>2, <2>2, <2>4 DEF End
  <2>6. /\ t \in Index /\ t.parsed = p /\ t.scans = s.scans /\ t.headers = s.headers
        /\ t.fb = s.fb /\ t.read = s.read
    BY <1>0, <2>3, <2>4 DEF Index
  <2>7. \A i \in DOMAIN t.scans : CurrentAt(t, i)
    <3>1. ASSUME NEW i \in DOMAIN s.scans PROVE p[i] \in {None, Parse(s.scans[i].lines)}
      <4>1. i \in DOMAIN s.parsed
        BY <1>0, ScanFacts DEF IndexOK
      <4>2. CASE i = j
        BY <2>3, <4>1, <4>2
      <4>3. CASE i # j
        <5>1. s.fb # <<"scan", i>>
          BY <4>3
        <5>2. s.parsed[i] \in {None, Parse(s.scans[i].lines)}
          BY <5>1 DEF IndexOK, CurrentAt
        <5>. QED
          BY <2>3, <4>1, <4>3, <5>2
      <4>. QED
        BY <4>2, <4>3
    <3>. QED
      BY <2>6, <3>1 DEF CurrentAt
  <2>8. IndexOK(t) /\ Current(t)
    BY <2>3, <2>6, <2>7 DEF IndexOK, Current
  <2>. QED
    BY <1>0, <2>5, <2>6, <2>8, KeepsFacts
<1>. QED
  BY <1>1, <1>2

\* A new block: a scan of which nothing is parsed, or a header.
LEMMA BlockKeeps ==
  ASSUME NEW s, IndexOK(s), Current(s), NEW w \in Words
  PROVE  IndexOK(Block(s, w)) /\ Keeps(s, Block(s, w))
<1>0. s \in Index /\ s.scans \in Seq(Scan) /\ s.headers \in Seq(Header) /\ s.parsed \in Seq(Parsed)
      /\ s.origfilename \in Numbers \cup {None}
      /\ Len(s.scans) \in Nat /\ Len(s.headers) \in Nat /\ Len(s.parsed) = Len(s.scans)
  BY ScanFacts DEF IndexOK, Index
<1>1. <<>> \in Lines /\ w.v \in Numbers
  BY DEF Lines, Numbers
<1>2. CASE w.k = "S"
  <2>. DEFINE n == Len(s.scans) + 1
              scan == [number |-> w.v, header |-> Len(s.headers), lines |-> <<>>]
  <2>1. PICK c, p : c = Append(s.scans, scan) /\ p = Append(s.parsed, None)
    OBVIOUS
  <2>2. scan \in Scan /\ None \in Parsed
    BY <1>0, <1>1 DEF Scan, Parsed
  <2>3. /\ c \in Seq(Scan) /\ Len(c) = n /\ DOMAIN c = 1..n
        /\ c[n] = scan /\ \A i \in 1..Len(s.scans) : c[i] = s.scans[i]
    <3>. HIDE DEF scan
    <3>. QED
      BY <1>0, <2>1, <2>2
  <2>4. /\ p \in Seq(Parsed) /\ Len(p) = n /\ p[n] = None
        /\ \A i \in 1..Len(s.scans) : p[i] = s.parsed[i]
    BY <1>0, <2>1, <2>2
  <2>14. PICK fb \in {"none", "scan", "header"} \X Nat : fb = <<"scan", n>>
    <3>1. n \in Nat
      BY <1>0
    <3>2. \A k \in Nat : <<"scan", k>> \in {"none", "scan", "header"} \X Nat
      OBVIOUS
    <3>. HIDE DEF n
    <3>. QED
      BY <3>1, <3>2
  <2>5. PICK t : t = [s EXCEPT !.scans = c, !.parsed = p, !.fb = fb]
    OBVIOUS
  <2>6. Block(s, w) = t
    BY <1>2, <2>1, <2>5, <2>14 DEF Block
  <2>7. /\ t \in Index /\ t.scans = c /\ t.parsed = p /\ t.headers = s.headers
        /\ t.fb = <<"scan", n>>
    <3>1. /\ t \in Index /\ t.scans = c /\ t.parsed = p /\ t.headers = s.headers
          /\ t.fb = fb
      BY <1>0, <2>3, <2>4, <2>5 DEF Index
    <3>. QED
      BY <2>14, <3>1
  <2>8. DOMAIN s.scans = 1..Len(s.scans)
    BY <1>0, ScanFacts
  <2>9. \A i \in 1..n : i \in DOMAIN s.scans \/ i = n
    BY <1>0, <2>8
  <2>10. \A i \in 1..n : c[i].header <= Len(s.headers)
    <3>1. c[n].header = Len(s.headers)
      BY <2>3
    <3>2. \A i \in DOMAIN s.scans : c[i].header <= Len(s.headers)
      BY <2>3, <2>8 DEF IndexOK
    <3>. QED
      BY <1>0, <2>9, <3>1, <3>2
  <2>11. \A i \in 1..n : t.fb # <<"scan", i>> => p[i] \in {None, Parse(c[i].lines)}
    <3>1. ASSUME NEW i \in DOMAIN s.scans PROVE p[i] \in {None, Parse(c[i].lines)}
      BY <2>3, <2>4, <2>8 DEF Current, CurrentAt
    <3>. QED
      BY <2>7, <2>9, <3>1
  <2>12. IndexOK(t)
    BY <2>3, <2>4, <2>7, <2>10, <2>11 DEF IndexOK, CurrentAt
  <2>13. Keeps(s, t)
    <3>1. \A i \in DOMAIN s.scans : i \in DOMAIN c /\ c[i] = s.scans[i]
      BY <1>0, <2>3, <2>8
    <3>2. \A i \in DOMAIN s.scans : IsPrefix(s.scans[i].lines, s.scans[i].lines)
      BY <1>0, KeepsFacts DEF Keeps
    <3>. QED
      BY <2>7, <3>1, <3>2 DEF Keeps
  <2>. QED
    BY <2>6, <2>12, <2>13
<1>3. CASE w.k # "S"
  <2>. DEFINE n == Len(s.headers) + 1
  <2>1. PICK file : /\ file = IF w.k = "F" THEN w.v ELSE s.origfilename
                    /\ file \in Numbers \cup {None}
    BY <1>0, <1>1
  <2>2. PICK h \in Header : h = [file |-> file, lines |-> <<>>]
    BY <1>1, <2>1 DEF Header
  <2>3. PICK c : c = Append(s.headers, h)
    OBVIOUS
  <2>4. c \in Seq(Header) /\ Len(c) = n /\ DOMAIN c = 1..n
    BY <1>0, <2>2, <2>3
  <2>11. PICK fb \in {"none", "scan", "header"} \X Nat : fb = <<"header", n>>
    <3>1. n \in Nat
      BY <1>0
    <3>2. \A k \in Nat : <<"header", k>> \in {"none", "scan", "header"} \X Nat
      OBVIOUS
    <3>. HIDE DEF n
    <3>. QED
      BY <3>1, <3>2
  <2>5. PICK t : t = [s EXCEPT !.headers = c, !.origfilename = file, !.fb = fb]
    OBVIOUS
  <2>6. Block(s, w) = t
    BY <1>3, <2>1, <2>2, <2>3, <2>5, <2>11 DEF Block
  <2>7. /\ t \in Index /\ t.scans = s.scans /\ t.parsed = s.parsed /\ t.headers = c
        /\ t.fb = <<"header", n>>
    <3>1. /\ t \in Index /\ t.scans = s.scans /\ t.parsed = s.parsed /\ t.headers = c
          /\ t.fb = fb
      BY <1>0, <2>1, <2>4, <2>5 DEF Index
    <3>. QED
      BY <2>11, <3>1
  <2>8. \A i \in DOMAIN s.scans : s.scans[i].header <= n
    <3>1. \A i \in DOMAIN s.scans : s.scans[i].header \in Nat /\ s.scans[i].header <= Len(s.headers)
      BY <1>0, ScanFacts DEF IndexOK
    <3>. QED
      BY <1>0, <3>1
  <2>9. n \in DOMAIN c
    BY <1>0, <2>4
  <2>10. IndexOK(t)
    BY <1>0, <2>4, <2>7, <2>8, <2>9 DEF IndexOK, Current, CurrentAt
  <2>. QED
    BY <1>0, <2>6, <2>7, <2>10, KeepsFacts
<1>. QED
  BY <1>2, <1>3

LEMMA AddLinesKeeps ==
  ASSUME NEW s, IndexOK(s), NEW chunk \in Lines
  PROVE  IndexOK(AddLines(s, chunk)) /\ Keeps(s, AddLines(s, chunk))
<1>0. s \in Index /\ s.scans \in Seq(Scan) /\ s.headers \in Seq(Header)
      /\ s.fb \in {"none", "scan", "header"} \X Nat
  BY DEF IndexOK, Index
<1>1. PICK lines \in Lines : lines = FlattenSeq([i \in DOMAIN chunk |->
                                         IF chunk[i] = <<>> THEN <<>> ELSE <<chunk[i]>>])
  <2>. DEFINE f == [i \in DOMAIN chunk |-> IF chunk[i] = <<>> THEN <<>> ELSE <<chunk[i]>>]
  <2>1. PICK n \in Nat : DOMAIN chunk = 1..n /\ \A i \in 1..n : chunk[i] \in Seq(Words)
    BY DEF Lines
  <2>2. \A x \in Seq(Words) : <<x>> \in Lines
    BY DEF Lines
  <2>3. <<>> \in Lines
    BY DEF Lines
  <2>4. f \in [1..n -> Lines]
    BY <2>1, <2>2, <2>3
  <2>5. f \in Seq(Lines)
    BY <2>4
  <2>. HIDE DEF f
  <2>6. FlattenSeq(f) \in Lines
    BY <2>5, FlattenProperties DEF Lines
  <2>. QED
    BY <2>6 DEF f
<1>2. AddLines(s, chunk) =
        CASE s.fb[1] = "scan"   -> [s EXCEPT !.scans[s.fb[2]].lines = @ \o lines]
          [] s.fb[1] = "header" -> [s EXCEPT !.headers[s.fb[2]].lines = @ \o lines]
          [] s.fb[1] = "none"   -> s
  BY <1>1 DEF AddLines
<1>3. CASE s.fb[1] = "scan"
  <2>1. PICK j \in DOMAIN s.scans : j = s.fb[2]
    BY <1>3 DEF IndexOK
  <2>2. s.scans[j] \in Scan /\ s.scans[j].lines \in Lines
    BY <1>0, ScanFacts
  <2>3. PICK more \in Lines : more = s.scans[j].lines \o lines
    <3>1. \A a, b \in Lines : a \o b \in Lines
      BY DEF Lines
    <3>. QED
      BY <2>2, <3>1
  <2>4. IsPrefix(s.scans[j].lines, more)
    BY <2>2, <2>3, PrefixFacts DEF Lines
  <2>5. PICK scan \in Scan : scan = [s.scans[j] EXCEPT !.lines = more]
    BY <2>2, <2>3 DEF Scan
  <2>6. /\ scan.lines = more /\ scan.number = s.scans[j].number
        /\ scan.header = s.scans[j].header
    BY <2>2, <2>5 DEF Scan
  <2>7. PICK c : c = [s.scans EXCEPT ![j] = scan]
    OBVIOUS
  <2>8. /\ c \in Seq(Scan) /\ DOMAIN c = DOMAIN s.scans /\ Len(c) = Len(s.scans)
        /\ \A i \in DOMAIN s.scans : c[i] = IF i = j THEN scan ELSE s.scans[i]
    <3>1. j \in 1..Len(s.scans) /\ DOMAIN s.scans = 1..Len(s.scans)
      BY <1>0, ScanFacts
    <3>2. c \in Seq(Scan) /\ Len(c) = Len(s.scans)
      BY <1>0, <2>7, <3>1, ExceptSeq
    <3>. QED
      BY <1>0, <2>7, <3>1, <3>2
  <2>9. PICK t : t = [s EXCEPT !.scans = c]
    OBVIOUS
  <2>10. AddLines(s, chunk) = t
    BY <1>2, <1>3, <2>1, <2>3, <2>5, <2>7, <2>9
  <2>11. /\ t \in Index /\ t.scans = c /\ t.parsed = s.parsed /\ t.headers = s.headers
         /\ t.fb = s.fb
    BY <1>0, <2>8, <2>9 DEF Index
  <2>12. s.fb = <<"scan", j>>
    BY <1>0, <1>3, <2>1
  <2>13. \A i \in DOMAIN c : t.fb # <<"scan", i>> => t.parsed[i] \in {None, Parse(c[i].lines)}
    <3>1. \A i \in DOMAIN c : i # j => /\ c[i] = s.scans[i]
                                       /\ s.parsed[i] \in {None, Parse(s.scans[i].lines)}
      BY <2>8, <2>12 DEF IndexOK, CurrentAt
    <3>. QED
      BY <2>11, <2>12, <3>1
  <2>14. \A i \in DOMAIN c : c[i].header <= Len(s.headers)
    BY <2>6, <2>8 DEF IndexOK
  <2>15. IndexOK(t)
    BY <2>8, <2>11, <2>13, <2>14 DEF IndexOK, CurrentAt
  <2>16. Keeps(s, t)
    <3>1. \A i \in DOMAIN s.scans : IsPrefix(s.scans[i].lines, s.scans[i].lines)
      BY <1>0, KeepsFacts DEF Keeps
    <3>. QED
      BY <2>4, <2>6, <2>8, <2>11, <3>1 DEF Keeps
  <2>. QED
    BY <2>10, <2>15, <2>16
<1>4. CASE s.fb[1] = "header"
  <2>1. PICK j \in DOMAIN s.headers : j = s.fb[2]
    BY <1>4 DEF IndexOK
  <2>2. s.headers[j] \in Header
    BY <1>0
  <2>3. PICK h \in Header : h = [s.headers[j] EXCEPT !.lines = @ \o lines]
    <3>1. s.headers[j].lines \in Lines
      BY <2>2 DEF Header
    <3>2. s.headers[j].lines \o lines \in Lines
      BY <3>1 DEF Lines
    <3>. QED
      BY <2>2, <3>2 DEF Header
  <2>4. PICK c : c = [s.headers EXCEPT ![j] = h]
    OBVIOUS
  <2>5. c \in Seq(Header) /\ DOMAIN c = DOMAIN s.headers /\ Len(c) = Len(s.headers)
    <3>1. j \in 1..Len(s.headers) /\ DOMAIN s.headers = 1..Len(s.headers)
      BY <1>0, ScanFacts
    <3>2. c \in Seq(Header) /\ Len(c) = Len(s.headers)
      BY <1>0, <2>4, <3>1, ExceptSeq
    <3>. QED
      BY <1>0, <2>4, <3>1, <3>2
  <2>6. PICK t : t = [s EXCEPT !.headers = c]
    OBVIOUS
  <2>7. AddLines(s, chunk) = t
    BY <1>2, <1>4, <2>1, <2>3, <2>4, <2>6
  <2>8. /\ t \in Index /\ t.scans = s.scans /\ t.parsed = s.parsed /\ t.headers = c
        /\ t.fb = s.fb
    BY <1>0, <2>5, <2>6 DEF Index
  <2>9. IndexOK(t)
    BY <2>5, <2>8 DEF IndexOK, CurrentAt
  <2>. QED
    BY <1>0, <2>7, <2>8, <2>9, KeepsFacts
<1>5. CASE s.fb[1] = "none"
  <2>1. AddLines(s, chunk) = s
    BY <1>2, <1>5
  <2>. QED
    BY <1>0, <2>1, KeepsFacts
<1>. QED
  BY <1>0, <1>3, <1>4, <1>5

\* An ignored chunk changes no block.
LEMMA DroppedFacts ==
  ASSUME NEW s \in Index, NEW chunk \in Lines, ~IsBlank(chunk), Dropped(chunk)
  PROVE  /\ AddChunk(s, chunk) \in Index
         /\ AddChunk(s, chunk).scans = s.scans /\ AddChunk(s, chunk).headers = s.headers
         /\ AddChunk(s, chunk).parsed = s.parsed /\ AddChunk(s, chunk).fb = s.fb
         /\ AddChunk(s, chunk).read = s.read
         /\ AddChunk(s, chunk).ignored = Append(s.ignored, [lines |-> chunk])
<1>1. PICK c : c = Append(s.ignored, [lines |-> chunk])
  OBVIOUS
<1>2. AddChunk(s, chunk) = [s EXCEPT !.ignored = c]
  BY <1>1 DEF AddChunk
<1>3. c \in Seq(Ignored)
  <2>1. s.ignored \in Seq(Ignored)
    BY DEF Index
  <2>2. [lines |-> chunk] \in Ignored
    BY DEF Ignored
  <2>. QED
    BY <1>1, <2>1, <2>2
<1>. QED
  BY <1>1, <1>2, <1>3 DEF Index

LEMMA AddChunkKeeps ==
  ASSUME NEW s, IndexOK(s), NEW chunk \in Lines
  PROVE  IndexOK(AddChunk(s, chunk)) /\ Keeps(s, AddChunk(s, chunk))
<1>0. s \in Index
  BY DEF IndexOK
<1>1. CASE IsBlank(chunk)
  BY <1>0, <1>1, KeepsFacts DEF AddChunk
<1>3. CASE ~IsBlank(chunk) /\ Dropped(chunk)
  <2>1. PICK t : t = AddChunk(s, chunk)
    OBVIOUS
  <2>2. /\ t \in Index /\ t.scans = s.scans /\ t.headers = s.headers /\ t.parsed = s.parsed
        /\ t.fb = s.fb
    BY <1>0, <1>3, <2>1, DroppedFacts
  <2>3. IndexOK(t)
    BY <2>2 DEF IndexOK, CurrentAt
  <2>. QED
    BY <1>0, <2>1, <2>2, <2>3, KeepsFacts
<1>2. CASE ~IsBlank(chunk) /\ ~Dropped(chunk)
  <2>1. PICK a : a = IF Opens(chunk) THEN Block(End(s), chunk[1][1]) ELSE s
    OBVIOUS
  <2>2. IndexOK(a) /\ Keeps(s, a)
    <3>1. CASE Opens(chunk)
      <4>1. chunk[1] \in Seq(Words) /\ chunk[1] # <<>>
        <5>1. chunk # <<>>
          BY <1>2 DEF IsBlank
        <5>2. 1 \in 1..Len(chunk)
          BY <5>1, EmptySeq DEF Lines
        <5>. QED
          BY <3>1, <5>2 DEF Opens, Lines
      <4>2. chunk[1][1] \in Words
        BY <4>1, EmptySeq
      <4>3. IndexOK(End(s)) /\ Current(End(s)) /\ Keeps(s, End(s))
        BY EndKeeps
      <4>4. IndexOK(a) /\ Keeps(End(s), a)
        BY <2>1, <3>1, <4>2, <4>3, BlockKeeps
      <4>5. End(s) \in Index /\ a \in Index
        BY <4>3, <4>4 DEF IndexOK
      <4>. QED
        BY <1>0, <4>3, <4>4, <4>5, KeepsFacts
    <3>2. CASE ~Opens(chunk)
      BY <1>0, <2>1, <3>2, KeepsFacts
    <3>. QED
      BY <3>1, <3>2
  <2>3. PICK t : t = AddLines(a, chunk)
    OBVIOUS
  <2>4. IndexOK(t) /\ Keeps(a, t)
    BY <2>2, <2>3, AddLinesKeeps
  <2>5. PICK u : u = [t EXCEPT !.read = TRUE]
    OBVIOUS
  <2>6. AddChunk(s, chunk) = u
    BY <1>2, <2>1, <2>3, <2>5 DEF AddChunk
  <2>7. /\ u \in Index /\ u.scans = t.scans /\ u.parsed = t.parsed /\ u.headers = t.headers
        /\ u.fb = t.fb
    BY <2>4, <2>5 DEF IndexOK, Index
  <2>8. IndexOK(u)
    BY <2>4, <2>7 DEF IndexOK, CurrentAt
  <2>9. a \in Index /\ t \in Index
    BY <2>2, <2>4 DEF IndexOK
  <2>10. Keeps(s, u)
    <3>1. Keeps(t, u)
      BY <2>7, <2>9, KeepsFacts
    <3>2. Keeps(s, t)
      BY <1>0, <2>2, <2>4, <2>9, KeepsFacts
    <3>. QED
      BY <1>0, <2>7, <2>9, <3>1, <3>2, KeepsFacts
  <2>. QED
    BY <2>6, <2>8, <2>10
<1>. QED
  BY <1>1, <1>2, <1>3

\* How IndexScans comes to the index, chunk by chunk.
LEMMA IndexTrace ==
  ASSUME NEW old, IndexOK(old), Current(old), NEW words \in Seq(Words)
  PROVE  \E h \in [0..Len(Chunks(words)) -> {t \in Index : IndexOK(t) /\ Keeps(old, t)}] :
            /\ h[0] = Resumed(old) /\ IndexScans(old, words) = End(h[Len(Chunks(words))])
            /\ \A i \in 1..Len(Chunks(words)) : h[i] = AddChunk(h[i - 1], Chunks(words)[i])
<1>. DEFINE chunks == Chunks(words)
            X == {t \in Index : IndexOK(t) /\ Keeps(old, t)}
            b == Resumed(old)
            D == DOMAIN chunks
            Is(f) == f = [x \in SUBSET D |-> IF x = {} THEN b
                                             ELSE AddChunk(f[x \ {Max(x)}], chunks[Max(x)])]
            g == CHOOSE f : Is(f)
<1>0. chunks \in Seq(Lines)
  BY ChunksAreChunks DEF Lines
<1>1. \A x \in X : \A y \in Lines : AddChunk(x, y) \in X
  <2>1. ASSUME NEW x \in X, NEW y \in Lines PROVE AddChunk(x, y) \in X
    <3>1. IndexOK(x) /\ Keeps(old, x) /\ x \in Index /\ old \in Index
      BY DEF IndexOK
    <3>2. PICK t : t = AddChunk(x, y)
      OBVIOUS
    <3>3. IndexOK(t) /\ Keeps(x, t)
      BY <3>1, <3>2, AddChunkKeeps
    <3>4. t \in Index
      BY <3>3 DEF IndexOK
    <3>5. Keeps(old, t)
      BY <3>1, <3>3, <3>4, KeepsFacts
    <3>. QED
      BY <3>2, <3>3, <3>4, <3>5
  <2>. QED
    BY <2>1
<1>2. b \in X
  <2>0. old \in Index
    BY DEF IndexOK
  <2>1. PICK fb \in {"none", "scan", "header"} \X Nat :
          fb = IF old.scans = <<>> THEN <<"none", 0>> ELSE <<"scan", Len(old.scans)>>
    <3>1. Len(old.scans) \in Nat
      BY <2>0, ScanFacts
    <3>2. \A k \in Nat : <<"scan", k>> \in {"none", "scan", "header"} \X Nat
      OBVIOUS
    <3>3. <<"none", 0>> \in {"none", "scan", "header"} \X Nat
      OBVIOUS
    <3>. QED
      BY <3>1, <3>2, <3>3
  <2>2. PICK t : t = [old EXCEPT !.fb = fb, !.read = FALSE]
    OBVIOUS
  <2>3. b = t
    BY <2>1, <2>2 DEF Resumed
  <2>4. /\ t \in Index /\ t.scans = old.scans /\ t.parsed = old.parsed /\ t.headers = old.headers
        /\ t.fb = fb
    BY <2>0, <2>2 DEF Index
  <2>5. fb[1] = "scan" => fb[2] \in DOMAIN old.scans
    <3>1. old.scans # <<>> => Len(old.scans) \in DOMAIN old.scans
      <4>1. old.scans \in Seq(Scan)
        BY <2>0 DEF Index
      <4>. QED
        BY <4>1, EmptySeq
    <3>. QED
      BY <2>1, <3>1
  <2>6. fb[1] # "header"
    BY <2>1
  <2>7. IndexOK(t)
    BY <2>4, <2>5, <2>6 DEF IndexOK, Current, CurrentAt
  <2>8. Keeps(old, t)
    BY <2>0, <2>4, KeepsFacts
  <2>. QED
    BY <2>3, <2>4, <2>7, <2>8
<1>3. IndexScans(old, words) = End(g[D])
  BY DEF IndexScans, FoldLeft, MapThenFoldSet
<1>. HIDE DEF chunks
<1>4. PICK n \in Nat : D = 1..n /\ \A i \in 1..n : chunks[i] \in Lines
  BY <1>0
<1>5. \A s \in SUBSET D : s # {} => s \ {Max(s)} \in SUBSET D /\ chunks[Max(s)] \in Lines
  BY <1>4, MaxFacts
<1>6. \E f : Is(f)
  <2>. DEFINE step == [p \in X \X Lines |-> AddChunk(p[1], p[2])]
  <2>1. step \in [X \X Lines -> X] /\ \A x \in X : \A y \in Lines : step[<<x, y>>] = AddChunk(x, y)
    BY <1>1
  <2>. HIDE DEF X, D, step
  <2>2. PICK f \in [SUBSET D -> X] : Folds(b, step, chunks, D, f)
    BY <1>0, <1>2, <2>1, FoldsExist DEF D
  <2>3. ASSUME NEW s \in SUBSET D, s # {}
        PROVE  step[<<f[s \ {Max(s)}], chunks[Max(s)]>>] = AddChunk(f[s \ {Max(s)}], chunks[Max(s)])
    BY <1>5, <2>1, <2>3
  <2>4. Is(f)
    BY <2>2, <2>3 DEF Folds
  <2>. QED
    BY <2>4
<1>7. Is(g)
  <2>. HIDE DEF Is
  <2>. QED
    BY <1>6
<1>8. \E h \in [0..Len(chunks) -> X] :
        /\ h[0] = b /\ g[D] = h[Len(chunks)]
        /\ \A i \in 1..Len(chunks) : h[i] = AddChunk(h[i - 1], chunks[i])
  <2>. DEFINE Met == {<<g[s \ {Max(s)}], chunks[Max(s)]>> : s \in SUBSET D}
              step == [p \in (X \X Lines) \cup Met |-> AddChunk(p[1], p[2])]
  <2>1. \A x \in X : \A y \in Lines : step[<<x, y>>] = AddChunk(x, y)
    OBVIOUS
  <2>2. \A s \in SUBSET D : step[<<g[s \ {Max(s)}], chunks[Max(s)]>>]
                             = AddChunk(g[s \ {Max(s)}], chunks[Max(s)])
    OBVIOUS
  <2>. HIDE DEF X, D, step, g
  <2>3. Folds(b, step, chunks, D, g)
    BY <1>7, <2>2 DEF Folds
  <2>4. \A x \in X : \A y \in Lines : step[<<x, y>>] \in X
    BY <1>1, <2>1
  <2>5. Traced(X, b, step, chunks, g[D])
    BY <1>0, <1>2, <2>3, <2>4, FoldsTrace DEF D
  <2>6. PICK h \in [0..Len(chunks) -> X] :
          /\ h[0] = b /\ g[D] = h[Len(chunks)]
          /\ \A i \in 1..Len(chunks) : h[i] = step[<<h[i - 1], chunks[i]>>]
    BY <2>5 DEF Traced
  <2>7. ASSUME NEW i \in 1..Len(chunks) PROVE h[i] = AddChunk(h[i - 1], chunks[i])
    <3>1. Len(chunks) \in Nat /\ chunks[i] \in Lines
      BY <1>0
    <3>2. i - 1 \in 0..Len(chunks)
      BY <3>1
    <3>3. h[i - 1] \in X
      BY <3>2
    <3>. QED
      BY <2>1, <2>6, <3>1, <3>3
  <2>. QED
    BY <2>6, <2>7
<1>. QED
  <2>. HIDE DEF g, D
  <2>. QED
    BY <1>3, <1>8 DEF chunks

\* One update, or the first reading of the file.
LEMMA IndexScansKeeps ==
  ASSUME NEW old, IndexOK(old), Current(old), NEW words \in Seq(Words)
  PROVE  /\ IndexOK(IndexScans(old, words)) /\ Current(IndexScans(old, words))
         /\ Keeps(old, IndexScans(old, words))
<1>1. Len(Chunks(words)) \in 0..Len(Chunks(words))
  BY ChunksAreChunks
<1>2. PICK t \in Index : IndexScans(old, words) = End(t) /\ IndexOK(t) /\ Keeps(old, t)
  BY <1>1, IndexTrace
<1>3. IndexOK(End(t)) /\ Current(End(t)) /\ Keeps(t, End(t))
  BY <1>2, EndKeeps
<1>4. old \in Index /\ End(t) \in Index
  BY <1>3 DEF IndexOK
<1>5. Keeps(old, End(t))
  BY <1>2, <1>3, <1>4, KeepsFacts
<1>. QED
  BY <1>2, <1>3, <1>5

(***************************************************************************)
(* The inductive invariant.                                                *)
(***************************************************************************)
Inv ==
    /\ size \in 0..Len(Text) /\ st_size \in 0..size /\ lastpos \in 0..size
    /\ pc \in {"closed", "idle", "indexing"}
    /\ pc = "closed" => index = NoIndex
    /\ pc # "closed" => index.scans # <<>>
    /\ IndexOK(index) /\ Current(index)

LEMMA NoIndexOK == IndexOK(NoIndex) /\ Current(NoIndex)
<1>1. NoIndex.scans = <<>> /\ NoIndex.parsed = <<>> /\ NoIndex.headers = <<>>
      /\ NoIndex.fb = <<"none", 0>>
  BY DEF NoIndex
<1>2. NoIndex \in Index
  <2>1. <<"none", 0>> \in {"none", "scan", "header"} \X Nat
    OBVIOUS
  <2>2. <<>> \in Seq(Scan) /\ <<>> \in Seq(Header) /\ <<>> \in Seq(Parsed) /\ <<>> \in Seq(Ignored)
    OBVIOUS
  <2>. QED
    BY <2>1, <2>2 DEF NoIndex, Index
<1>. QED
  BY <1>1, <1>2 DEF IndexOK, Current

LEMMA PartsOfText ==
  \A m, n \in Nat : m \in 0..n /\ n \in 0..Len(Text) => SubSeq(Text, m + 1, n) \in Seq(Words)
BY TextSequence

\* What is remembered of ignored chunks is no part of what the index keeps.
LEMMA IgnoringKeeps ==
  ASSUME NEW old, IndexOK(old), NEW s, IndexOK(s), Current(s), Keeps(old, s), NEW t,
         t = [s EXCEPT !.ignored = IF s.read THEN @ ELSE old.ignored]
  PROVE  /\ IndexOK(t) /\ Current(t) /\ Keeps(old, t)
         /\ t.scans = s.scans /\ t.headers = s.headers
         /\ t.ignored = IF s.read THEN s.ignored ELSE old.ignored
<1>1. old \in Index /\ s \in Index
  BY DEF IndexOK
<1>2. PICK c \in Seq(Ignored) : c = IF s.read THEN s.ignored ELSE old.ignored
  BY <1>1 DEF Index
<1>3. t = [s EXCEPT !.ignored = c]
  BY <1>2
<1>4. /\ t \in Index /\ t.scans = s.scans /\ t.headers = s.headers /\ t.parsed = s.parsed
      /\ t.fb = s.fb /\ t.ignored = c
  BY <1>1, <1>3 DEF Index
<1>5. IndexOK(t) /\ Current(t)
  BY <1>4 DEF IndexOK, Current, CurrentAt
<1>6. Keeps(old, t)
  <2>1. Keeps(s, t)
    BY <1>1, <1>4, KeepsFacts
  <2>. QED
    BY <1>1, <1>4, <2>1, KeepsFacts
<1>. QED
  BY <1>2, <1>4, <1>5, <1>6

LEMMA InitInv == Init => Inv
BY NoIndexOK, TextSequence DEF Init, Inv, NoIndex

\* What a step does to the index.
LEMMA StepKeeps ==
  ASSUME Inv, [Next]_vars
  PROVE  /\ IndexOK(index') /\ Current(index') /\ Keeps(index, index')
         /\ Inv'
<1>0. /\ size \in 0..Len(Text) /\ Len(Text) \in Nat /\ size \in Nat /\ lastpos \in 0..size
      /\ st_size \in 0..size /\ IndexOK(index) /\ Current(index) /\ index \in Index
  BY TextSequence DEF Inv, IndexOK
<1>1. CASE Write
  <2>1. size' \in 0..Len(Text) /\ size' > size
    BY <1>0, <1>1, SpecFileAssumption DEF Write
  <2>2. st_size' \in 0..size' /\ lastpos' \in 0..size'
    BY <1>0, <1>1, <2>1 DEF Write
  <2>3. index' = index /\ pc' = pc
    BY <1>1 DEF Write
  <2>. QED
    BY <1>0, <2>1, <2>2, <2>3, KeepsFacts DEF Inv
<1>2. CASE Open
  <2>1. PICK s : s = IndexScans(NoIndex, SubSeq(Text, 1, size))
    OBVIOUS
  <2>2. index = NoIndex
    BY <1>2 DEF Open, Inv
  <2>3. SubSeq(Text, 1, size) \in Seq(Words)
    BY <1>0, TextSequence
  <2>9. IndexOK(s) /\ Current(s) /\ Keeps(index, s)
    BY <2>1, <2>2, <2>3, NoIndexOK, IndexScansKeeps
  <2>10. PICK t : t = [s EXCEPT !.ignored = IF s.read THEN @ ELSE index.ignored]
    OBVIOUS
  <2>4. IndexOK(t) /\ Current(t) /\ Keeps(index, t) /\ t.scans = s.scans
    BY <1>0, <2>9, <2>10, IgnoringKeeps
  <2>5. /\ index' = t /\ lastpos' = Position(s) /\ pc' = "idle" /\ t.scans # <<>>
        /\ size' = size /\ st_size' = st_size
    BY <1>2, <2>1, <2>4, <2>10 DEF Open, Indexed
  <2>6. lastpos' \in 0..size
    BY <1>0, <2>5 DEF Position
  <2>. QED
    BY <1>0, <2>4, <2>5, <2>6 DEF Inv
<1>3. CASE Update
  <2>1. /\ index' = index /\ pc' = "indexing" /\ size' = size /\ lastpos' = lastpos
        /\ st_size' = size /\ pc # "closed"
    BY <1>3 DEF Update
  <2>. QED
    BY <1>0, <2>1, KeepsFacts DEF Inv
<1>4. CASE UpdateReads
  <2>1. PICK s : s = IndexScans(index, SubSeq(Text, lastpos + 1, size))
    OBVIOUS
  <2>3. SubSeq(Text, lastpos + 1, size) \in Seq(Words)
    BY <1>0, PartsOfText
  <2>9. IndexOK(s) /\ Current(s) /\ Keeps(index, s)
    BY <1>0, <2>1, <2>3, IndexScansKeeps
  <2>10. PICK t : t = [s EXCEPT !.ignored = IF s.read THEN @ ELSE index.ignored]
    OBVIOUS
  <2>4. IndexOK(t) /\ Current(t) /\ Keeps(index, t)
    BY <1>0, <2>9, <2>10, IgnoringKeeps
  <2>5. /\ index' = t /\ lastpos' = Position(s) /\ pc' = "idle" /\ pc # "closed"
        /\ size' = size /\ st_size' = st_size
    BY <1>4, <2>1, <2>10 DEF UpdateReads, Indexed
  <2>6. lastpos' \in 0..size
    BY <1>0, <2>5 DEF Position
  <2>7. t.scans # <<>>
    <3>1. index.scans # <<>> /\ index.scans \in Seq(Scan)
      BY <1>0, <2>5 DEF Inv, Index
    <3>2. 1 \in DOMAIN index.scans
      BY <3>1, EmptySeq
    <3>3. 1 \in DOMAIN t.scans
      BY <2>4, <3>2 DEF Keeps
    <3>. QED
      BY <3>3
  <2>. QED
    BY <1>0, <2>4, <2>5, <2>6, <2>7 DEF Inv
<1>5. ASSUME NEW i \in DOMAIN Plan, ParseScan(i)
      PROVE  /\ IndexOK(index') /\ Current(index') /\ Keeps(index, index')
             /\ Inv'
  <2>1. i \in DOMAIN index.scans
    <3>1. i \in Nat /\ i >= 1
      BY SpecFileAssumption, SequenceFacts
    <3>. QED
      BY <1>0, <1>5, <3>1, ScanFacts DEF ParseScan
  <2>2. PICK p : p = Parse(index.scans[i].lines)
    OBVIOUS
  <2>3. p \in Parsed
    BY <1>0, <2>1, <2>2, ScanFacts DEF Parsed
  <2>4. PICK q : q = [index.parsed EXCEPT ![i] = p]
    OBVIOUS
  <2>5. /\ q \in Seq(Parsed) /\ Len(q) = Len(index.parsed)
        /\ \A j \in DOMAIN index.scans : q[j] = IF j = i THEN p ELSE index.parsed[j]
    <3>1. index.parsed \in Seq(Parsed)
      BY <1>0 DEF Index
    <3>2. DOMAIN index.scans = 1..Len(index.parsed) /\ DOMAIN index.parsed = 1..Len(index.parsed)
      BY <1>0, ScanFacts DEF IndexOK
    <3>. QED
      BY <2>1, <2>3, <2>4, <3>1, <3>2, ExceptSeq
  <2>6. PICK t : t = [index EXCEPT !.parsed = q]
    OBVIOUS
  <2>7. /\ t \in Index /\ t.scans = index.scans /\ t.headers = index.headers /\ t.fb = index.fb
        /\ t.parsed = q
    BY <1>0, <2>5, <2>6 DEF Index
  <2>8. \A j \in DOMAIN t.scans : CurrentAt(t, j)
    BY <1>0, <2>2, <2>5, <2>7 DEF Current, CurrentAt
  <2>9. IndexOK(t) /\ Current(t)
    BY <1>0, <2>5, <2>7, <2>8 DEF IndexOK, Current
  <2>10. Keeps(index, t)
    BY <1>0, <2>7, KeepsFacts
  <2>11. index' = t
    BY <1>5, <2>2, <2>4, <2>6 DEF ParseScan
  <2>12. /\ size' = size /\ st_size' = st_size /\ lastpos' = lastpos /\ pc' = pc /\ pc = "idle"
    BY <1>5 DEF ParseScan
  <2>13. Inv'
    BY <2>7, <2>9, <2>11, <2>12 DEF Inv
  <2>. QED
    BY <2>9, <2>10, <2>11, <2>13
<1>6. CASE UNCHANGED vars
  <2>1. /\ index' = index /\ size' = size /\ st_size' = st_size /\ lastpos' = lastpos
        /\ pc' = pc
    BY <1>6 DEF vars
  <2>. QED
    BY <1>0, <2>1, KeepsFacts DEF Inv
<1>. QED
  BY <1>1, <1>2, <1>3, <1>4, <1>5, <1>6 DEF Next

\* The number of a scan and its order among those with that number find it, in
\* the index as it is and in any later one.
LEMMA FindsScan ==
  ASSUME NEW s \in Index, NEW t \in Index, Keeps(s, t), NEW i \in DOMAIN s.scans
  PROVE  GetScanByNumber(t.scans, s.scans[i].number, Order(s.scans, i)) = i
<1>. DEFINE n == s.scans[i].number
            With(j) == WithNumber(t.scans, n) \cap 1..j - 1
<1>0. /\ DOMAIN s.scans = 1..Len(s.scans) /\ Len(s.scans) \in Nat
      /\ DOMAIN t.scans = 1..Len(t.scans) /\ Len(t.scans) \in Nat
  BY ScanFacts
<1>1. i \in DOMAIN t.scans /\ t.scans[i].number = n
  BY DEF Keeps
<1>2. WithNumber(s.scans, n) \cap 1..i - 1 = With(i)
  <2>1. \A j \in 1..i - 1 : j \in DOMAIN s.scans
    BY <1>0
  <2>2. \A j \in 1..i - 1 : j \in DOMAIN t.scans /\ s.scans[j].number = t.scans[j].number
    BY <2>1 DEF Keeps
  <2>. QED
    BY <2>1, <2>2 DEF WithNumber
<1>3. \A j \in WithNumber(t.scans, n) : Order(t.scans, j) = Cardinality(With(j))
  BY DEF Order, WithNumber
<1>4. Order(s.scans, i) = Cardinality(With(i))
  BY <1>2 DEF Order
<1>5. i \in WithNumber(t.scans, n)
  BY <1>1 DEF WithNumber
<1>6. ASSUME NEW j \in WithNumber(t.scans, n), NEW k \in WithNumber(t.scans, n), j < k
      PROVE  Cardinality(With(j)) # Cardinality(With(k))
  <2>1. j \in Nat /\ k \in Nat /\ j >= 1
    BY <1>0 DEF WithNumber
  <2>2. With(j) \subseteq With(k) /\ j \in With(k) /\ j \notin With(j)
    BY <1>6, <2>1
  <2>3. IsFiniteSet(With(k))
    <3>1. IsFiniteSet(1..k - 1)
      BY <2>1, FS_Interval
    <3>2. With(k) \subseteq 1..k - 1
      OBVIOUS
    <3>. HIDE DEF With
    <3>. QED
      BY <3>1, <3>2, FS_Subset
  <2>. HIDE DEF With
  <2>. QED
    BY <2>2, <2>3, FS_Subset
<1>7. ASSUME NEW j \in WithNumber(t.scans, n), Order(t.scans, j) = Order(s.scans, i)
      PROVE  j = i
  <2>1. Cardinality(With(j)) = Cardinality(With(i))
    BY <1>3, <1>4, <1>7
  <2>2. ~(j < i) /\ ~(i < j)
    <3>. HIDE DEF With, n
    <3>. QED
      BY <1>5, <1>6, <2>1
  <2>3. j \in Nat /\ i \in Nat
    BY <1>0 DEF WithNumber
  <2>. QED
    BY <2>2, <2>3
<1>8. Order(t.scans, i) = Order(s.scans, i)
  BY <1>3, <1>4, <1>5
<1>. QED
  BY <1>5, <1>7, <1>8 DEF GetScanByNumber

LEMMA KeepsStable ==
  ASSUME NEW s \in Index, NEW t \in Index, Keeps(s, t), NEW i \in DOMAIN s.scans
  PROVE  /\ i \in DOMAIN t.scans
         /\ [s.scans[i] EXCEPT !.lines = <<>>] = [t.scans[i] EXCEPT !.lines = <<>>]
         /\ IsPrefix(s.scans[i].lines, t.scans[i].lines)
         /\ GetScanByNumber(t.scans, s.scans[i].number, Order(s.scans, i)) = i
<1>1. /\ i \in DOMAIN t.scans
      /\ s.scans[i].number = t.scans[i].number /\ s.scans[i].header = t.scans[i].header
      /\ IsPrefix(s.scans[i].lines, t.scans[i].lines)
  BY DEF Keeps
<1>2. PICK a \in Scan, b \in Scan : a = s.scans[i] /\ b = t.scans[i]
  BY <1>1, ScanFacts
<1>3. [a EXCEPT !.lines = <<>>] = [b EXCEPT !.lines = <<>>]
  BY <1>1, <1>2 DEF Scan
<1>4. GetScanByNumber(t.scans, s.scans[i].number, Order(s.scans, i)) = i
  BY FindsScan
<1>. QED
  BY <1>1, <1>2, <1>3, <1>4

(***************************************************************************)
(* The theorems.                                                           *)
(***************************************************************************)
LEMMA Invariance == Spec => []Inv
<1>1. Inv /\ [Next]_vars => Inv'
  BY StepKeeps
<1>. QED
  BY InitInv, <1>1, PTL DEF Spec

\* FileSpec's positions stay within the file, an open file has a scan, and every
\* scan has its place in what was parsed and a header that was found (self._headers).
THEOREM TypeCorrect == Spec => []TypeOK
<1>1. Inv => TypeOK
  <2>. SUFFICES ASSUME Inv PROVE TypeOK
    OBVIOUS
  <2>1. size \in Nat /\ st_size <= size /\ lastpos <= size
    BY TextSequence DEF Inv
  <2>. QED
    BY <2>1 DEF Inv, IndexOK, TypeOK
<1>. QED
  BY <1>1, Invariance, PTL

\* Whatever the file holds, however it is cut into updates and whichever scans a
\* program has looked at between them: what a Scan answers from what it parsed is
\* what its lines say.  An update that adds lines forgets what was parsed of them.
THEOREM NeverOutOfDate == Spec => []ParsedIsCurrent
<1>1. Inv => ParsedIsCurrent
  BY DEF Inv, Current, CurrentAt, ParsedIsCurrent
<1>. QED
  BY <1>1, Invariance, PTL

\* A Scan that a program holds stays that scan through every update(), only gains
\* lines, and is still the one getScanByNumber finds for its number and order.
THEOREM StaysThatScan == Spec => IndexStable
<1>. DEFINE Stable ==
       \A i \in DOMAIN index.scans :
         /\ i \in DOMAIN index'.scans
         /\ [index.scans[i] EXCEPT !.lines = <<>>] = [index'.scans[i] EXCEPT !.lines = <<>>]
         /\ IsPrefix(index.scans[i].lines, index'.scans[i].lines)
         /\ GetScanByNumber(index'.scans, index.scans[i].number, Order(index.scans, i)) = i
<1>1. Inv /\ [Next]_vars => [Stable]_vars
  <2>. SUFFICES ASSUME Inv, [Next]_vars PROVE Stable
    OBVIOUS
  <2>1. IndexOK(index') /\ Keeps(index, index') /\ IndexOK(index)
    BY StepKeeps DEF Inv
  <2>2. index \in Index /\ index' \in Index
    BY <2>1 DEF IndexOK
  <2>. QED
    BY <2>1, <2>2, KeepsStable
<1>2. Spec => [][Stable]_vars
  <2>. HIDE DEF Stable
  <2>. QED
    BY <1>1, Invariance, PTL DEF Spec
<1>. QED
  BY <1>2 DEF IndexStable

\* The first elements, one by one.
LEMMA SubSeqStep ==
  ASSUME NEW S, NEW a \in Seq(S)
  PROVE  /\ SubSeq(a, 1, 0) = <<>> /\ SubSeq(a, 1, Len(a)) = a
         /\ \A n \in Nat : n + 1 \in 1..Len(a) =>
              /\ SubSeq(a, 1, n) \in Seq(S) /\ a[n + 1] \in S
              /\ SubSeq(a, 1, n + 1) = Append(SubSeq(a, 1, n), a[n + 1])
<1>1. SubSeq(a, 1, 0) = <<>>
  <2>1. SubSeq(a, 1, 0) \in Seq(S) /\ Len(SubSeq(a, 1, 0)) = 0
    OBVIOUS
  <2>. QED
    BY <2>1, EmptySeq
<1>2. SubSeq(a, 1, Len(a)) = a
  OBVIOUS
<1>3. ASSUME NEW n \in Nat, n + 1 \in 1..Len(a)
      PROVE  /\ SubSeq(a, 1, n) \in Seq(S) /\ a[n + 1] \in S
             /\ SubSeq(a, 1, n + 1) = Append(SubSeq(a, 1, n), a[n + 1])
  <2>1. PICK x, y : x = SubSeq(a, 1, n) /\ y = SubSeq(a, 1, n + 1)
    OBVIOUS
  <2>2. /\ x \in Seq(S) /\ Len(x) = n /\ \A i \in 1..n : x[i] = a[i]
        /\ y \in Seq(S) /\ Len(y) = n + 1 /\ \A i \in 1..(n + 1) : y[i] = a[i]
    BY <1>3, <2>1
  <2>3. a[n + 1] \in S
    BY <1>3
  <2>4. PICK z : z = Append(x, a[n + 1])
    OBVIOUS
  <2>5. z \in Seq(S) /\ Len(z) = n + 1 /\ \A i \in 1..(n + 1) : z[i] = a[i]
    BY <2>2, <2>3, <2>4
  <2>6. y = z
    BY <2>2, <2>5, SeqEqual
  <2>. QED
    BY <2>1, <2>2, <2>3, <2>4, <2>6
<1>. QED
  BY <1>1, <1>2, <1>3

\* All but the last one, and the last one.
LEMMA FrontAndLast ==
  ASSUME NEW S, NEW a \in Seq(S), a # <<>>
  PROVE  \E f \in Seq(S), x \in S :
            /\ a = Append(f, x) /\ x = a[Len(a)] /\ Len(a) = Len(f) + 1
            /\ \A i \in 1..Len(f) : f[i] = a[i]
<1>1. PICK n \in Nat : Len(a) = n + 1
  <2>1. Len(a) \in Nat /\ Len(a) # 0
    BY EmptySeq
  <2>2. Len(a) - 1 \in Nat /\ Len(a) = (Len(a) - 1) + 1
    BY <2>1
  <2>. QED
    BY <2>2
<1>2. PICK f : f = SubSeq(a, 1, n)
  OBVIOUS
<1>3. f \in Seq(S) /\ a[n + 1] \in S /\ SubSeq(a, 1, n + 1) = Append(f, a[n + 1])
  BY <1>1, <1>2, SubSeqStep
<1>4. Len(f) = n /\ \A i \in 1..n : f[i] = a[i]
  BY <1>1, <1>2
<1>5. SubSeq(a, 1, n + 1) = a
  BY <1>1, SubSeqStep
<1>. QED
  BY <1>1, <1>3, <1>4, <1>5

(***************************************************************************)
(* How often a word stands in a sequence.                                  *)
(***************************************************************************)
Counts(x, w) == IF x = w THEN 1 ELSE 0

LEMMA TimesNone == \A w : Times(<<>>, w) = 0
<1>1. \A w : {i \in DOMAIN <<>> : <<>>[i] = w} = {}
  OBVIOUS
<1>. QED
  BY <1>1, FS_EmptySet DEF Times

LEMMA TimesAppend ==
  ASSUME NEW S, NEW a \in Seq(S), NEW x \in S, NEW w
  PROVE  Times(a, w) \in Nat /\ Times(Append(a, x), w) = Times(a, w) + Counts(x, w)
<1>0. PICK n \in Nat : n = Len(a)
  OBVIOUS
<1>1. PICK c : c = Append(a, x)
  OBVIOUS
<1>2. /\ DOMAIN a = 1..n /\ DOMAIN c = 1..(n + 1)
      /\ \A i \in 1..n : c[i] = a[i]
      /\ c[n + 1] = x
  BY <1>0, <1>1
<1>3. PICK A : A = {i \in DOMAIN a : a[i] = w}
  OBVIOUS
<1>4. IsFiniteSet(A) /\ Cardinality(A) \in Nat /\ n + 1 \notin A
  <2>1. IsFiniteSet(1..n)
    BY FS_Interval
  <2>2. A \in SUBSET (1..n)
    BY <1>2, <1>3
  <2>3. IsFiniteSet(A)
    BY <2>1, <2>2, FS_Subset
  <2>. QED
    BY <2>2, <2>3, FS_CardinalityType
<1>5. PICK C : C = {i \in DOMAIN c : c[i] = w}
  OBVIOUS
<1>6. Cardinality(C) = Cardinality(A) + Counts(x, w)
  <2>1. CASE x = w
    <3>1. C = A \cup {n + 1}
      BY <1>2, <1>3, <1>5, <2>1
    <3>2. Cardinality(A \cup {n + 1}) = Cardinality(A) + 1
      BY <1>4, FS_AddElement
    <3>. QED
      BY <2>1, <3>1, <3>2 DEF Counts
  <2>2. CASE x # w
    <3>1. C = A
      BY <1>2, <1>3, <1>5, <2>2
    <3>. QED
      BY <1>4, <2>2, <3>1 DEF Counts
  <2>. QED
    BY <2>1, <2>2
<1>. QED
  BY <1>1, <1>3, <1>4, <1>5, <1>6 DEF Times

LEMMA TimesNat ==
  ASSUME NEW S, NEW a \in Seq(S), NEW w
  PROVE  Times(a, w) \in Nat /\ (w \notin Range(a) => Times(a, w) = 0)
<1>1. Times(a, w) \in Nat
  <2>1. CASE a = <<>>
    BY <2>1, TimesNone
  <2>2. CASE a # <<>>
    <3>1. a[1] \in S
      BY <2>2, EmptySeq
    <3>. QED
      BY <3>1, TimesAppend
  <2>. QED
    BY <2>1, <2>2
<1>2. ASSUME w \notin Range(a) PROVE Times(a, w) = 0
  <2>1. {i \in DOMAIN a : a[i] = w} = {}
    BY <1>2 DEF Range
  <2>. QED
    BY <2>1, FS_EmptySet DEF Times
<1>. QED
  BY <1>1, <1>2

LEMMA ConcatAppend ==
  ASSUME NEW S, NEW a \in Seq(S), NEW f \in Seq(S), NEW x \in S
  PROVE  a \o f \in Seq(S) /\ a \o Append(f, x) = Append(a \o f, x)
<1>1. PICK n \in Nat, m \in Nat, k \in Nat : n = Len(a) /\ m = Len(f) /\ k = n + m
  <2>1. Len(a) \in Nat /\ Len(f) \in Nat
    OBVIOUS
  <2>. QED
    BY <2>1
<1>2. PICK e : e = Append(f, x)
  OBVIOUS
<1>3. /\ e \in Seq(S) /\ Len(e) = m + 1 /\ e[m + 1] = x
      /\ \A i \in 1..m : e[i] = f[i]
  BY <1>1, <1>2
<1>4. PICK y : y = a \o f
  OBVIOUS
<1>5. /\ y \in Seq(S) /\ Len(y) = k
      /\ \A i \in 1..n : y[i] = a[i]
      /\ \A i \in 1..m : y[n + i] = f[i]
  BY <1>1, <1>4, ConcatFacts
<1>6. PICK p : p = a \o e
  OBVIOUS
<1>7. /\ p \in Seq(S) /\ Len(p) = n + (m + 1)
      /\ \A i \in 1..n : p[i] = a[i]
      /\ \A i \in 1..(m + 1) : p[n + i] = e[i]
  <2>1. PICK l : l = m + 1
    OBVIOUS
  <2>2. l = Len(e)
    BY <1>3, <2>1
  <2>3. e \in Seq(S)
    BY <1>3
  <2>4. /\ a \o e \in Seq(S) /\ Len(a \o e) = n + l
        /\ \A i \in 1..n : (a \o e)[i] = a[i]
        /\ \A i \in 1..l : (a \o e)[n + i] = e[i]
    BY <1>1, <2>2, <2>3, ConcatFacts
  <2>. QED
    BY <1>6, <2>1, <2>4
<1>8. PICK q : q = Append(y, x)
  OBVIOUS
<1>9. /\ q \in Seq(S) /\ Len(q) = k + 1 /\ q[k + 1] = x
      /\ \A i \in 1..k : q[i] = y[i]
  BY <1>5, <1>8
<1>10. ASSUME NEW i \in 1..(k + 1) PROVE p[i] = q[i]
  <2>1. CASE i \in 1..n
    BY <1>1, <1>5, <1>7, <1>9, <2>1
  <2>2. CASE i \notin 1..n
    <3>1. PICK j \in 1..(m + 1) : i = n + j
      <4>1. i - n \in 1..(m + 1) /\ i = n + (i - n)
        BY <1>1, <2>2
      <4>. QED
        BY <4>1
    <3>2. p[i] = e[j]
      BY <1>7, <3>1
    <3>3. CASE j \in 1..m
      <4>1. q[i] = y[i] /\ y[i] = f[j] /\ e[j] = f[j]
        BY <1>1, <1>3, <1>5, <1>9, <3>1, <3>3
      <4>. QED
        BY <3>2, <4>1
    <3>4. CASE j \notin 1..m
      <4>1. j = m + 1 /\ i = k + 1
        BY <1>1, <3>1, <3>4
      <4>. QED
        BY <1>3, <1>9, <3>2, <4>1
    <3>. QED
      BY <3>3, <3>4
  <2>. QED
    BY <2>1, <2>2
<1>11. Len(p) = k + 1
  BY <1>1, <1>7
<1>12. p = q
  BY <1>7, <1>9, <1>10, <1>11, SeqEqual
<1>. QED
  BY <1>2, <1>4, <1>5, <1>6, <1>8, <1>12

LEMMA TimesConcat ==
  ASSUME NEW S, NEW a \in Seq(S), NEW b \in Seq(S), NEW w
  PROVE  Times(a \o b, w) = Times(a, w) + Times(b, w)
<1>. DEFINE Good(n) == \A c \in Seq(S) : Len(c) = n => Times(a \o c, w) = Times(a, w) + Times(c, w)
            N == {n \in Nat : Good(n)}
<1>1. 0 \in N
  <2>1. ASSUME NEW c \in Seq(S), Len(c) = 0
        PROVE  Times(a \o c, w) = Times(a, w) + Times(c, w)
    <3>1. c = <<>> /\ a \o c = a
      BY <2>1, EmptySeq
    <3>2. Times(a, w) \in Nat
      BY TimesNat
    <3>. QED
      BY <3>1, <3>2, TimesNone
  <2>. QED
    BY <2>1
<1>2. ASSUME NEW n \in Nat, n \in N PROVE n + 1 \in N
  <2>1. ASSUME NEW c \in Seq(S), Len(c) = n + 1
        PROVE  Times(a \o c, w) = Times(a, w) + Times(c, w)
    <3>1. c # <<>>
      BY <2>1, EmptySeq
    <3>2. PICK f \in Seq(S), x \in S : c = Append(f, x) /\ Len(c) = Len(f) + 1
      BY <3>1, FrontAndLast
    <3>3. Len(f) = n
      BY <2>1, <3>2
    <3>4. Times(a \o f, w) = Times(a, w) + Times(f, w)
      BY <1>2, <3>3
    <3>5. PICK y : y = a \o f
      OBVIOUS
    <3>6. y \in Seq(S) /\ a \o c = Append(y, x)
      BY <3>2, <3>5, ConcatAppend
    <3>7. Times(Append(y, x), w) = Times(y, w) + Counts(x, w)
      BY <3>6, TimesAppend
    <3>8. Times(c, w) = Times(f, w) + Counts(x, w) /\ Times(f, w) \in Nat
      BY <3>2, TimesAppend
    <3>9. Times(a, w) \in Nat /\ Counts(x, w) \in Nat
      BY TimesNat DEF Counts
    <3>. QED
      BY <3>4, <3>5, <3>6, <3>7, <3>8, <3>9
  <2>. QED
    BY <2>1
<1>3. Nat \subseteq N
  <2>. HIDE DEF N
  <2>. QED
    BY <1>1, <1>2, SetInduction
<1>4. Len(b) \in Nat
  OBVIOUS
<1>. QED
  BY <1>3, <1>4

\* Joining sequences of which one becomes longer.
Lengthened(s, i, x, t) == t = [s EXCEPT ![i] = s[i] \o x]

LEMMA LengthenedTimes ==
  ASSUME NEW X, NEW x \in Seq(X), NEW w
  PROVE  \A s \in Seq(Seq(X)) : \A i \in DOMAIN s : \A t : Lengthened(s, i, x, t) =>
           /\ t \in Seq(Seq(X))
           /\ Times(FlattenSeq(t), w) = Times(FlattenSeq(s), w) + Times(x, w)
<1>. DEFINE Longer(s, i) == [s EXCEPT ![i] = s[i] \o x]
            Good(s, i) == Times(FlattenSeq(Longer(s, i)), w) = Times(FlattenSeq(s), w) + Times(x, w)
            N == {n \in Nat : \A s \in Seq(Seq(X)) : Len(s) = n => \A i \in DOMAIN s : Good(s, i)}
<1>1. ASSUME NEW s \in Seq(Seq(X)), NEW i \in DOMAIN s
      PROVE  /\ Longer(s, i) \in Seq(Seq(X)) /\ Len(Longer(s, i)) = Len(s)
             /\ FlattenSeq(s) \in Seq(X) /\ FlattenSeq(Longer(s, i)) \in Seq(X)
  <2>1. s[i] \in Seq(X) /\ s[i] \o x \in Seq(X) /\ i \in 1..Len(s)
    OBVIOUS
  <2>2. Longer(s, i) \in Seq(Seq(X)) /\ Len(Longer(s, i)) = Len(s)
    BY <2>1, ExceptSeq
  <2>. QED
    BY <2>2, FlattenProperties
<1>2. 0 \in N
  <2>1. \A s \in Seq(Seq(X)) : Len(s) = 0 => DOMAIN s = {}
    OBVIOUS
  <2>. QED
    BY <2>1
<1>3. ASSUME NEW n \in Nat, n \in N PROVE n + 1 \in N
  <2>1. ASSUME NEW s \in Seq(Seq(X)), Len(s) = n + 1, NEW i \in DOMAIN s
        PROVE  Good(s, i)
    <3>1. s # <<>>
      BY <2>1, EmptySeq
    <3>2. PICK f \in Seq(Seq(X)), y \in Seq(X) :
            /\ s = Append(f, y) /\ y = s[Len(s)] /\ Len(s) = Len(f) + 1
            /\ \A j \in 1..Len(f) : f[j] = s[j]
      BY <3>1, FrontAndLast
    <3>3. Len(f) = n /\ DOMAIN f = 1..n /\ i \in 1..(n + 1) /\ y = s[n + 1]
      BY <2>1, <3>2
    <3>4. PICK t : t = Longer(s, i)
      OBVIOUS
    <3>5. /\ t \in Seq(Seq(X)) /\ Len(t) = n + 1
          /\ \A j \in 1..(n + 1) : t[j] = IF j = i THEN s[i] \o x ELSE s[j]
      <4>1. t \in Seq(Seq(X)) /\ Len(t) = n + 1
        BY <1>1, <2>1, <3>4
      <4>. HIDE DEF Good
      <4>2. DOMAIN s = 1..(n + 1)
        BY <2>1
      <4>. QED
        BY <3>4, <4>1, <4>2
    <3>6. FlattenSeq(f) \in Seq(X) /\ FlattenSeq(s) = FlattenSeq(f) \o y
      BY <3>2, FlattenAppend, FlattenProperties
    <3>7. Times(FlattenSeq(s), w) = Times(FlattenSeq(f), w) + Times(y, w)
      BY <3>6, TimesConcat
    <3>8. /\ Times(FlattenSeq(f), w) \in Nat /\ Times(y, w) \in Nat /\ Times(x, w) \in Nat
      BY <3>6, TimesNat
    <3>9. CASE i = n + 1
      <4>. HIDE DEF Good, Longer, N
      <4>0. y \o x \in Seq(X)
        BY ConcatFacts
      <4>1. PICK z \in Seq(X) : z = y \o x
        BY <4>0
      <4>2. PICK u : u = Append(f, z)
        OBVIOUS
      <4>3. /\ u \in Seq(Seq(X)) /\ Len(u) = n + 1 /\ u[n + 1] = z
            /\ \A j \in 1..n : u[j] = f[j]
        BY <3>3, <4>1, <4>2
      <4>4. ASSUME NEW j \in 1..(n + 1) PROVE t[j] = u[j]
        <5>1. CASE j \in 1..n
          <6>1. j # i /\ t[j] = s[j] /\ s[j] = f[j]
            BY <3>2, <3>3, <3>5, <3>9, <5>1
          <6>. QED
            BY <4>3, <5>1, <6>1
        <5>2. CASE j = n + 1
          <6>1. t[j] = s[i] \o x /\ s[i] = y
            BY <3>3, <3>5, <3>9, <5>2
          <6>. QED
            BY <4>1, <4>3, <5>2, <6>1
        <5>3. j \in 1..n \/ j = n + 1
          <6>1. j \in 1..(n + 1) /\ n \in Nat
            OBVIOUS
          <6>. QED
            BY ONLY <6>1
        <5>. QED
          BY <5>1, <5>2, <5>3
      <4>5. t = u
        BY <3>5, <4>3, <4>4, SeqEqual
      <4>6. FlattenSeq(t) = FlattenSeq(f) \o z
        BY <4>2, <4>5, FlattenAppend
      <4>7. Times(FlattenSeq(t), w) = Times(FlattenSeq(f), w) + Times(z, w)
        BY <3>6, <4>6, TimesConcat
      <4>8. Times(z, w) = Times(y, w) + Times(x, w)
        BY <4>1, TimesConcat
      <4>. QED
        BY <3>4, <3>7, <3>8, <4>7, <4>8 DEF Good
    <3>10. CASE i # n + 1
      <4>1. i \in DOMAIN f
        BY <3>3, <3>10
      <4>2. PICK g : g = Longer(f, i)
        OBVIOUS
      <4>3. /\ g \in Seq(Seq(X)) /\ Len(g) = n
            /\ \A j \in 1..n : g[j] = IF j = i THEN f[i] \o x ELSE f[j]
        <5>1. g \in Seq(Seq(X)) /\ Len(g) = n
          BY <1>1, <3>3, <4>1, <4>2
        <5>. HIDE DEF Good
        <5>. QED
          BY <3>3, <4>2, <5>1
      <4>4. PICK u : u = Append(g, y)
        OBVIOUS
      <4>5. /\ u \in Seq(Seq(X)) /\ Len(u) = n + 1 /\ u[n + 1] = y
            /\ \A j \in 1..n : u[j] = g[j]
        BY <4>3, <4>4
      <4>6. ASSUME NEW j \in 1..(n + 1) PROVE t[j] = u[j]
        <5>. HIDE DEF Good, Longer, N
        <5>1. CASE j \in 1..n
          <6>1. t[j] = (IF j = i THEN s[i] \o x ELSE s[j]) /\ s[j] = f[j]
            BY <3>2, <3>3, <3>5, <5>1
          <6>2. g[j] = (IF j = i THEN f[i] \o x ELSE f[j]) /\ u[j] = g[j]
            BY <4>3, <4>5, <5>1
          <6>. QED
            BY <6>1, <6>2
        <5>2. CASE j = n + 1
          BY <3>3, <3>5, <3>10, <4>5, <5>2
        <5>3. j \in 1..n \/ j = n + 1
          OBVIOUS
        <5>. QED
          BY <5>1, <5>2, <5>3
      <4>7. t = u
        BY <3>5, <4>5, <4>6, SeqEqual
      <4>8. FlattenSeq(g) \in Seq(X) /\ FlattenSeq(t) = FlattenSeq(g) \o y
        BY <4>3, <4>4, <4>7, FlattenAppend, FlattenProperties
      <4>9. Times(FlattenSeq(t), w) = Times(FlattenSeq(g), w) + Times(y, w)
        BY <4>8, TimesConcat
      <4>10. Times(FlattenSeq(g), w) = Times(FlattenSeq(f), w) + Times(x, w)
        BY <1>3, <3>3, <4>1, <4>2
      <4>. QED
        BY <3>4, <3>7, <3>8, <4>9, <4>10
    <3>. QED
      BY <3>9, <3>10
  <2>. HIDE DEF Good
  <2>. QED
    BY <2>1
<1>4. Nat \subseteq N
  <2>. HIDE DEF N
  <2>. QED
    BY <1>2, <1>3, SetInduction
<1>5. ASSUME NEW s \in Seq(Seq(X)), NEW i \in DOMAIN s PROVE Good(s, i)
  <2>1. Len(s) \in N
    <3>. HIDE DEF N
    <3>. QED
      BY <1>4
  <2>. HIDE DEF Good
  <2>. QED
    BY <2>1
<1>6. ASSUME NEW s \in Seq(Seq(X)), NEW i \in DOMAIN s, NEW t, Lengthened(s, i, x, t)
      PROVE  /\ t \in Seq(Seq(X))
             /\ Times(FlattenSeq(t), w) = Times(FlattenSeq(s), w) + Times(x, w)
  <2>1. t = Longer(s, i)
    BY <1>6 DEF Lengthened
  <2>2. t \in Seq(Seq(X))
    BY <1>1, <2>1
  <2>. HIDE DEF Longer
  <2>. QED
    BY <1>5, <2>1, <2>2
<1>. QED
  BY <1>6

LEMMA ChangedTimes ==
  ASSUME NEW X, NEW x \in Seq(X), NEW w, NEW s \in Seq(Seq(X)), NEW i \in DOMAIN s,
         NEW t, Lengthened(s, i, x, t)
  PROVE  /\ t \in Seq(Seq(X))
         /\ Times(FlattenSeq(t), w) = Times(FlattenSeq(s), w) + Times(x, w)
BY LengthenedTimes

LEMMA FlattenTimes ==
  ASSUME NEW X, NEW s \in Seq(Seq(X)), NEW x \in Seq(X), NEW w
  PROVE  /\ Append(s, x) \in Seq(Seq(X)) /\ FlattenSeq(s) \in Seq(X)
         /\ Times(FlattenSeq(Append(s, x)), w) = Times(FlattenSeq(s), w) + Times(x, w)
         /\ Times(FlattenSeq(s), w) \in Nat /\ Times(x, w) \in Nat
<1>1. FlattenSeq(s) \in Seq(X) /\ FlattenSeq(Append(s, x)) = FlattenSeq(s) \o x
  BY FlattenProperties, FlattenAppend
<1>2. Times(FlattenSeq(s) \o x, w) = Times(FlattenSeq(s), w) + Times(x, w)
  BY <1>1, TimesConcat
<1>3. Append(s, x) \in Seq(Seq(X))
  OBVIOUS
<1>. QED
  BY <1>1, <1>2, <1>3, TimesNat

(***************************************************************************)
(* The words of the lines and of the chunks.                               *)
(***************************************************************************)
LEMMA LinesTimes ==
  ASSUME NEW S, NEW words \in Seq(S), NEW w, w # NL
  PROVE  Times(FlattenSeq(LinesOf(words)), w) = Times(words, w)
<1>1. PICK h \in [0..Len(words) -> {l \in Seq(Seq(S)) : l # <<>>}] :
            /\ h[0] = << <<>> >> /\ LinesOf(words) = h[Len(words)]
            /\ \A i \in 1..Len(words) : h[i] = AddWord(h[i - 1], words[i])
  BY LinesTrace
<1>2. PICK n \in Nat : n = Len(words)
  OBVIOUS
<1>. DEFINE N == {i \in Nat : i \in 0..n =>
                    Times(FlattenSeq(h[i]), w) = Times(SubSeq(words, 1, i), w)}
<1>3. 0 \in N
  <2>1. FlattenSeq(h[0]) = <<>> /\ SubSeq(words, 1, 0) = <<>>
    BY <1>1, FlattenOne, SubSeqStep
  <2>. QED
    BY <2>1
<1>4. ASSUME NEW i \in Nat, i \in N PROVE i + 1 \in N
  <2>. SUFFICES ASSUME i + 1 \in 0..n
                PROVE  Times(FlattenSeq(h[i + 1]), w) = Times(SubSeq(words, 1, i + 1), w)
    OBVIOUS
  <2>1. i \in 0..n /\ i + 1 \in 1..n /\ (i + 1) - 1 = i
    BY <1>2
  <2>2. PICK l \in Seq(Seq(S)) : l = h[i] /\ l # <<>>
    BY <1>1, <1>2, <2>1
  <2>3. PICK y \in S : y = words[i + 1]
    BY <1>2, <2>1
  <2>4. h[i + 1] = AddWord(l, y)
    BY <1>1, <1>2, <2>1, <2>2, <2>3
  <2>5. PICK a \in Seq(S) : a = SubSeq(words, 1, i) /\ SubSeq(words, 1, i + 1) = Append(a, y)
    <3>1. i + 1 \in 1..Len(words)
      BY <1>2, <2>1
    <3>2. SubSeq(words, 1, i) \in Seq(S) /\ SubSeq(words, 1, i + 1) = Append(SubSeq(words, 1, i), words[i + 1])
      BY <3>1, SubSeqStep
    <3>. QED
      BY <2>3, <3>2
  <2>6. Times(Append(a, y), w) = Times(a, w) + Counts(y, w) /\ Times(a, w) \in Nat
    BY TimesAppend
  <2>7. Times(FlattenSeq(l), w) = Times(a, w)
    BY <1>4, <2>1, <2>2, <2>5
  <2>8. CASE y = NL
    <3>1. AddWord(l, y) = Append(l, <<>>)
      BY <2>8 DEF AddWord
    <3>2. PICK e \in Seq(S) : e = <<>>
      <4>1. <<>> \in Seq(S)
        OBVIOUS
      <4>. QED
        BY <4>1
    <3>3. Times(FlattenSeq(Append(l, e)), w) = Times(FlattenSeq(l), w) + Times(e, w)
          /\ Times(FlattenSeq(l), w) \in Nat
      BY FlattenTimes
    <3>4. Counts(y, w) = 0
      BY <2>8 DEF Counts
    <3>. QED
      BY <2>4, <2>5, <2>6, <2>7, <3>1, <3>2, <3>3, <3>4, TimesNone
  <2>9. CASE y # NL
    <3>1. PICK k : k = Len(l) /\ k \in DOMAIN l /\ l[k] \in Seq(S)
      <4>1. PICK Y : Y = Seq(S)
        OBVIOUS
      <4>2. l \in Seq(Y) /\ Len(l) # 0
        BY <2>2, <4>1, EmptySeq
      <4>3. Len(l) \in DOMAIN l /\ l[Len(l)] \in Y
        BY <4>2
      <4>. QED
        BY <4>1, <4>3
    <3>2. Append(l[k], y) = l[k] \o <<y>> /\ <<y>> \in Seq(S)
      <4>1. PICK e \in Seq(S) : e = l[k]
        BY <3>1
      <4>2. Append(e, y) = e \o <<y>>
        <5>1. <<y>> \in Seq(S) /\ <<>> \in Seq(S) /\ Append(<<>>, y) = <<y>> /\ e \o <<>> = e
          OBVIOUS
        <5>. QED
          BY <5>1, ConcatAppend
      <4>. QED
        BY <4>1, <4>2
    <3>3. AddWord(l, y) = [l EXCEPT ![k] = l[k] \o <<y>>]
      BY <2>9, <3>1, <3>2 DEF AddWord
    <3>4. Times(FlattenSeq(AddWord(l, y)), w) = Times(FlattenSeq(l), w) + Times(<<y>>, w)
      <4>1. PICK e \in Seq(S) : e = <<y>>
        BY <3>2
      <4>2. PICK t : t = [l EXCEPT ![k] = l[k] \o e]
        OBVIOUS
      <4>3. k \in DOMAIN l /\ Lengthened(l, k, e, t)
        BY <3>1, <4>2 DEF Lengthened
      <4>4. Times(FlattenSeq(t), w) = Times(FlattenSeq(l), w) + Times(e, w)
        BY <4>3, ChangedTimes
      <4>. QED
        BY <3>3, <4>1, <4>2, <4>4
    <3>5. Times(<<y>>, w) = Counts(y, w)
      <4>1. <<>> \in Seq(S) /\ Append(<<>>, y) = <<y>>
        OBVIOUS
      <4>2. Times(<<y>>, w) = Times(<<>>, w) + Counts(y, w)
        BY <4>1, TimesAppend
      <4>. QED
        BY <4>2, TimesNone DEF Counts
    <3>. QED
      BY <2>4, <2>5, <2>6, <2>7, <3>4, <3>5
  <2>. QED
    BY <2>8, <2>9
<1>5. n \in N
  <2>1. Nat \subseteq N
    <3>. HIDE DEF N
    <3>. QED
      BY <1>3, <1>4, SetInduction
  <2>. QED
    BY <2>1
<1>6. SubSeq(words, 1, n) = words /\ n \in 0..n
  BY <1>2, SubSeqStep
<1>. QED
  BY <1>1, <1>2, <1>5, <1>6

LEMMA FlattenConcat ==
  ASSUME NEW X, NEW s \in Seq(Seq(X)), NEW t \in Seq(Seq(X))
  PROVE  FlattenSeq(s \o t) = FlattenSeq(s) \o FlattenSeq(t)
<1>. DEFINE N == {n \in Nat : \A u \in Seq(Seq(X)) : Len(u) = n =>
                    FlattenSeq(s \o u) = FlattenSeq(s) \o FlattenSeq(u)}
<1>1. 0 \in N
  <2>1. ASSUME NEW u \in Seq(Seq(X)), Len(u) = 0
        PROVE  FlattenSeq(s \o u) = FlattenSeq(s) \o FlattenSeq(u)
    <3>1. u = <<>> /\ s \o u = s
      BY <2>1, EmptySeq
    <3>2. PICK f \in Seq(X) : f = FlattenSeq(s)
      BY FlattenProperties
    <3>3. f \o <<>> = f
      OBVIOUS
    <3>. QED
      BY <3>1, <3>2, <3>3, FlattenNone
  <2>. QED
    BY <2>1
<1>2. ASSUME NEW n \in Nat, n \in N PROVE n + 1 \in N
  <2>1. ASSUME NEW u \in Seq(Seq(X)), Len(u) = n + 1
        PROVE  FlattenSeq(s \o u) = FlattenSeq(s) \o FlattenSeq(u)
    <3>1. u # <<>>
      BY <2>1, EmptySeq
    <3>2. PICK f \in Seq(Seq(X)), y \in Seq(X) : u = Append(f, y) /\ Len(u) = Len(f) + 1
      BY <3>1, FrontAndLast
    <3>3. FlattenSeq(s \o f) = FlattenSeq(s) \o FlattenSeq(f)
      BY <1>2, <2>1, <3>2
    <3>4. PICK v \in Seq(Seq(X)) : v = s \o f /\ s \o u = Append(v, y)
      <4>1. PICK Y : Y = Seq(X)
        OBVIOUS
      <4>2. s \in Seq(Y) /\ f \in Seq(Y) /\ y \in Y
        BY <4>1
      <4>3. s \o f \in Seq(Y) /\ s \o Append(f, y) = Append(s \o f, y)
        BY <4>2, ConcatAppend
      <4>. QED
        BY <3>2, <4>1, <4>3
    <3>5. FlattenSeq(s \o u) = FlattenSeq(v) \o y /\ FlattenSeq(u) = FlattenSeq(f) \o y
      BY <3>2, <3>4, FlattenAppend
    <3>6. PICK a \in Seq(X), b \in Seq(X) : a = FlattenSeq(s) /\ b = FlattenSeq(f)
      BY FlattenProperties
    <3>7. (a \o b) \o y = a \o (b \o y)
      BY SMTT(30), Concats DEF Associative
    <3>8. FlattenSeq(v) = a \o b
      BY <3>3, <3>4, <3>6, Zenon
    <3>. QED
      BY <3>5, <3>6, <3>7, <3>8, Zenon
  <2>. QED
    BY <2>1
<1>3. Nat \subseteq N
  <2>. HIDE DEF N
  <2>. QED
    BY <1>1, <1>2, SetInduction
<1>4. Len(t) \in Nat
  OBVIOUS
<1>. QED
  BY <1>3, <1>4

\* All words of some lists of lines.
Joined(lists) == [i \in DOMAIN lists |-> FlattenSeq(lists[i])]
AllOf(lists)  == FlattenSeq(Joined(lists))

LEMMA JoinedType ==
  ASSUME NEW X, NEW c \in Seq(Seq(Seq(X)))
  PROVE  /\ Joined(c) \in Seq(Seq(X)) /\ Len(Joined(c)) = Len(c) /\ DOMAIN Joined(c) = DOMAIN c
         /\ \A i \in DOMAIN c : Joined(c)[i] = FlattenSeq(c[i]) /\ FlattenSeq(c[i]) \in Seq(X)
         /\ AllOf(c) \in Seq(X)
<1>1. PICK n \in Nat : n = Len(c) /\ DOMAIN c = 1..n
  OBVIOUS
<1>2. \A i \in 1..n : c[i] \in Seq(Seq(X))
  BY <1>1
<1>3. \A i \in 1..n : FlattenSeq(c[i]) \in Seq(X)
  BY <1>2, FlattenProperties
<1>4. Joined(c) \in [1..n -> Seq(X)] /\ \A i \in 1..n : Joined(c)[i] = FlattenSeq(c[i])
  BY <1>1, <1>3 DEF Joined
<1>5. Joined(c) \in Seq(Seq(X)) /\ Len(Joined(c)) = n
  <2>1. PICK j, Y : j = Joined(c) /\ Y = Seq(X)
    OBVIOUS
  <2>2. j \in [1..n -> Y]
    BY <1>4, <2>1
  <2>3. j \in Seq(Y) /\ Len(j) = n
    BY <2>2
  <2>. QED
    BY <2>1, <2>3
<1>6. AllOf(c) \in Seq(X)
  BY <1>5, FlattenProperties DEF AllOf
<1>. QED
  BY <1>1, <1>3, <1>4, <1>5, <1>6

LEMMA AllAppend ==
  ASSUME NEW X, NEW c \in Seq(Seq(Seq(X))), NEW x \in Seq(Seq(X)), NEW w
  PROVE  Times(AllOf(Append(c, x)), w) = Times(AllOf(c), w) + Times(FlattenSeq(x), w)
<1>1. PICK n \in Nat : n = Len(c) /\ DOMAIN c = 1..n
  OBVIOUS
<1>2. PICK d : d = Append(c, x)
  OBVIOUS
<1>3. /\ d \in Seq(Seq(Seq(X))) /\ Len(d) = n + 1 /\ d[n + 1] = x /\ \A i \in 1..n : d[i] = c[i]
      /\ DOMAIN d = 1..(n + 1)
  <2>1. PICK Y : Y = Seq(Seq(X))
    OBVIOUS
  <2>2. c \in Seq(Y) /\ x \in Y
    BY <2>1
  <2>3. d \in Seq(Y) /\ Len(d) = n + 1 /\ d[n + 1] = x /\ \A i \in 1..n : d[i] = c[i]
    BY <1>1, <1>2, <2>2
  <2>. QED
    BY <2>1, <2>3
<1>4. PICK e \in Seq(X) : e = FlattenSeq(x)
  BY FlattenProperties
<1>5. PICK m \in Seq(Seq(X)) : m = Joined(c) /\ Len(m) = n /\ \A i \in 1..n : m[i] = FlattenSeq(c[i])
  BY <1>1, JoinedType
<1>6. PICK k \in Seq(Seq(X)) : k = Joined(d) /\ Len(k) = n + 1
                               /\ \A i \in 1..(n + 1) : k[i] = FlattenSeq(d[i])
  BY <1>3, JoinedType
<1>7. PICK l : l = Append(m, e)
  OBVIOUS
<1>8. l \in Seq(Seq(X)) /\ Len(l) = n + 1 /\ l[n + 1] = e /\ \A i \in 1..n : l[i] = m[i]
  <2>1. PICK Y : Y = Seq(X)
    OBVIOUS
  <2>2. m \in Seq(Y) /\ e \in Y
    BY <2>1
  <2>3. l \in Seq(Y) /\ Len(l) = n + 1 /\ l[n + 1] = e /\ \A i \in 1..n : l[i] = m[i]
    BY <1>5, <1>7, <2>2
  <2>. QED
    BY <2>1, <2>3
<1>9. k = l
  <2>1. ASSUME NEW i \in 1..(n + 1) PROVE k[i] = l[i]
    <3>1. CASE i \in 1..n
      BY <1>3, <1>5, <1>6, <1>8, <3>1
    <3>2. CASE i = n + 1
      BY <1>3, <1>4, <1>6, <1>8, <3>2
    <3>3. i \in 1..n \/ i = n + 1
      OBVIOUS
    <3>. QED
      BY <3>1, <3>2, <3>3
  <2>. QED
    BY <1>6, <1>8, <2>1, SeqEqual
<1>10. Times(FlattenSeq(Append(m, e)), w) = Times(FlattenSeq(m), w) + Times(e, w)
  BY FlattenTimes
<1>. QED
  BY <1>2, <1>4, <1>5, <1>6, <1>7, <1>9, <1>10 DEF AllOf

LEMMA AllChanged ==
  ASSUME NEW X, NEW c \in Seq(Seq(Seq(X))), NEW j \in DOMAIN c, NEW x \in Seq(Seq(X)), NEW w,
         NEW d, Lengthened(c, j, x, d)
  PROVE  Times(AllOf(d), w) = Times(AllOf(c), w) + Times(FlattenSeq(x), w)
<1>1. PICK n \in Nat : n = Len(c) /\ DOMAIN c = 1..n
  OBVIOUS
<1>2. PICK y \in Seq(Seq(X)) : y = c[j]
  OBVIOUS
<1>3. y \o x \in Seq(Seq(X)) /\ FlattenSeq(y \o x) = FlattenSeq(y) \o FlattenSeq(x)
  BY ConcatFacts, FlattenConcat
<1>4. d = [c EXCEPT ![j] = y \o x]
  BY <1>2 DEF Lengthened
<1>5. /\ d \in Seq(Seq(Seq(X))) /\ Len(d) = n
      /\ \A i \in 1..n : d[i] = IF i = j THEN y \o x ELSE c[i]
  <2>1. PICK Y, z : Y = Seq(Seq(X)) /\ z = y \o x
    OBVIOUS
  <2>2. c \in Seq(Y) /\ z \in Y /\ j \in 1..Len(c)
    BY <1>1, <1>3, <2>1
  <2>3. d \in Seq(Y) /\ Len(d) = n
    BY <1>1, <1>4, <2>1, <2>2, ExceptSeq
  <2>4. \A i \in 1..n : d[i] = IF i = j THEN z ELSE c[i]
    BY <1>1, <1>4, <2>1
  <2>. QED
    BY <2>1, <2>3, <2>4
<1>6. PICK e \in Seq(X) : e = FlattenSeq(x)
  BY FlattenProperties
<1>7. PICK m \in Seq(Seq(X)) : m = Joined(c) /\ Len(m) = n /\ \A i \in 1..n : m[i] = FlattenSeq(c[i])
  BY <1>1, JoinedType
<1>8. PICK k \in Seq(Seq(X)) : k = Joined(d) /\ Len(k) = n
                               /\ \A i \in 1..n : k[i] = FlattenSeq(d[i])
  BY <1>5, JoinedType
<1>9. j \in 1..n /\ j \in DOMAIN m /\ DOMAIN m = 1..n /\ m[j] = FlattenSeq(y)
  BY <1>1, <1>2, <1>7
<1>10. PICK l : l = [m EXCEPT ![j] = m[j] \o e]
  OBVIOUS
<1>11. l \in Seq(Seq(X)) /\ Len(l) = n /\ \A i \in 1..n : l[i] = IF i = j THEN m[j] \o e ELSE m[i]
  <2>1. l \in Seq(Seq(X))
    <3>1. Lengthened(m, j, e, l)
      BY <1>10 DEF Lengthened
    <3>. QED
      BY <1>9, <3>1, ChangedTimes
  <2>2. DOMAIN l = 1..n /\ \A i \in 1..n : l[i] = IF i = j THEN m[j] \o e ELSE m[i]
    BY <1>9, <1>10
  <2>3. Len(l) = n
    BY <2>1, <2>2
  <2>. QED
    BY <2>1, <2>2, <2>3
<1>12. k = l
  <2>1. ASSUME NEW i \in 1..n PROVE k[i] = l[i]
    <3>1. CASE i = j
      BY <1>3, <1>5, <1>6, <1>8, <1>9, <1>11, <3>1
    <3>2. CASE i # j
      BY <1>5, <1>7, <1>8, <1>11, <3>2
    <3>. QED
      BY <3>1, <3>2
  <2>. QED
    BY <1>8, <1>11, <2>1, SeqEqual
<1>13. Times(FlattenSeq(l), w) = Times(FlattenSeq(m), w) + Times(e, w)
  <2>1. Lengthened(m, j, e, l)
    BY <1>10 DEF Lengthened
  <2>2. j \in DOMAIN m
    BY <1>9
  <2>. QED
    BY <2>1, <2>2, ChangedTimes
<1>14. AllOf(c) = FlattenSeq(m) /\ AllOf(d) = FlattenSeq(l)
  BY <1>7, <1>8, <1>12, Zenon DEF AllOf
<1>. QED
  BY <1>6, <1>13, <1>14, Zenon

LEMMA ChunksTimes ==
  ASSUME NEW S, NEW words \in Seq(S), NEW w, w # NL, w # HASH
  PROVE  Times(AllOf(Chunks(words)), w) = Times(words, w)
<1>1. PICK lines \in Seq(Seq(S)) : lines = LinesOf(words)
  BY LinesAreLines
<1>2. PICK h \in [0..Len(lines) -> Seq(Seq(Seq(S)))] :
            /\ h[0] = <<>> /\ Chunks(words) = h[Len(lines)]
            /\ \A i \in 1..Len(lines) : h[i] = AddLine(h[i - 1], lines[i])
  BY SMTT(30), <1>1, ChunksTrace
<1>3. PICK n \in Nat : n = Len(lines)
  OBVIOUS
<1>. DEFINE N == {i \in Nat : i \in 0..n =>
                    Times(AllOf(h[i]), w) = Times(FlattenSeq(SubSeq(lines, 1, i)), w)}
<1>4. 0 \in N
  <2>1. FlattenSeq(SubSeq(lines, 1, 0)) = <<>>
    <3>1. SubSeq(lines, 1, 0) = <<>>
      BY SubSeqStep
    <3>. QED
      BY <3>1, FlattenNone
  <2>2. AllOf(h[0]) = <<>>
    <3>1. Joined(<<>>) = <<>>
      <4>1. Joined(<<>>) \in Seq({}) /\ Len(Joined(<<>>)) = 0
        BY DEF Joined
      <4>. QED
        BY <4>1, EmptySeq
    <3>. QED
      BY <1>2, <3>1, FlattenNone DEF AllOf
  <2>. QED
    BY <2>1, <2>2
<1>5. ASSUME NEW i \in Nat, i \in N PROVE i + 1 \in N
  <2>. SUFFICES ASSUME i + 1 \in 0..n
                PROVE  Times(AllOf(h[i + 1]), w) = Times(FlattenSeq(SubSeq(lines, 1, i + 1)), w)
    OBVIOUS
  <2>1. i \in 0..n /\ i + 1 \in 1..n /\ (i + 1) - 1 = i
    BY <1>3
  <2>2. PICK c \in Seq(Seq(Seq(S))) : c = h[i]
    BY <1>2, <1>3, <2>1
  <2>3. PICK y \in Seq(S) : y = lines[i + 1]
    BY <1>3, <2>1
  <2>4. h[i + 1] = AddLine(c, y)
    BY <1>2, <1>3, <2>1, <2>2, <2>3
  <2>5. PICK a \in Seq(Seq(S)) : a = SubSeq(lines, 1, i) /\ SubSeq(lines, 1, i + 1) = Append(a, y)
    <3>1. i + 1 \in 1..Len(lines)
      BY <1>3, <2>1
    <3>2. /\ SubSeq(lines, 1, i) \in Seq(Seq(S))
          /\ SubSeq(lines, 1, i + 1) = Append(SubSeq(lines, 1, i), lines[i + 1])
      BY <3>1, SubSeqStep
    <3>. QED
      BY <2>3, <3>2
  <2>6. Times(FlattenSeq(Append(a, y)), w) = Times(FlattenSeq(a), w) + Times(y, w)
    BY FlattenTimes
  <2>7. Times(AllOf(c), w) = Times(FlattenSeq(a), w)
    BY <1>5, <2>1, <2>2, <2>5
  <2>8. Times(AllOf(AddLine(c, y)), w) = Times(AllOf(c), w) + Times(y, w)
    <3>1. PICK one \in Seq(Seq(S)) : one = <<y>> /\ FlattenSeq(one) = y
      <4>1. PICK Y : Y = Seq(S)
        OBVIOUS
      <4>2. y \in Y
        BY <4>1
      <4>3. <<y>> \in Seq(Y)
        BY <4>2
      <4>. QED
        BY <4>1, <4>3, FlattenOne
    <3>2. CASE c = <<>>
      <4>1. AddLine(c, y) = Append(c, one)
        BY <3>1, <3>2 DEF AddLine
      <4>. QED
        BY <3>1, <4>1, AllAppend
    <3>3. CASE c # <<>> /\ y # <<>> /\ y[1] = HASH
      <4>1. PICK t \in Seq(S), hash \in Seq(S) : t = Tail(y) /\ hash = <<HASH>>
        <5>1. Tail(y) \in Seq(S)
          BY <3>3
        <5>2. y[1] \in S
          BY <3>3, EmptySeq
        <5>3. <<HASH>> \in Seq(S)
          <6>1. PICK x \in S : x = HASH
            BY <3>3, <5>2
          <6>2. <<x>> \in Seq(S)
            OBVIOUS
          <6>. QED
            BY <6>1, <6>2
        <5>. QED
          BY <5>1, <5>3
      <4>2. PICK k \in Seq(Seq(S)) : k = <<t>> /\ FlattenSeq(k) = t
        <5>1. PICK Y : Y = Seq(S)
          OBVIOUS
        <5>2. t \in Y
          BY <5>1
        <5>3. <<t>> \in Seq(Y)
          BY <5>2
        <5>. QED
          BY <5>1, <5>3, FlattenOne
      <4>3. AddLine(c, y) = Append(c, k)
        BY <3>3, <4>1, <4>2 DEF AddLine
      <4>4. Times(AllOf(Append(c, k)), w) = Times(AllOf(c), w) + Times(t, w)
        BY <4>2, AllAppend
      <4>5. y = hash \o t
        BY <3>3, <4>1
      <4>6. Times(hash, w) = 0
        <5>1. w \notin Range(hash)
          BY <4>1 DEF Range
        <5>. QED
          BY <5>1, TimesNat
      <4>7. Times(y, w) = Times(hash, w) + Times(t, w) /\ Times(t, w) \in Nat
        BY <4>5, TimesConcat, TimesNat
      <4>. QED
        BY <4>3, <4>4, <4>6, <4>7
    <3>4. CASE c # <<>> /\ ~(y # <<>> /\ y[1] = HASH)
      <4>1. PICK j : j = Len(c) /\ j \in DOMAIN c /\ c[j] \in Seq(Seq(S))
        <5>1. PICK Y : Y = Seq(Seq(S))
          OBVIOUS
        <5>2. c \in Seq(Y) /\ Len(c) # 0
          BY <3>4, <5>1, EmptySeq
        <5>3. Len(c) \in DOMAIN c /\ c[Len(c)] \in Y
          BY <5>2
        <5>. QED
          BY <5>1, <5>3
      <4>2. Append(c[j], y) = c[j] \o one
        <5>1. PICK Y, e : Y = Seq(S) /\ e = c[j]
          OBVIOUS
        <5>2. e \in Seq(Y) /\ y \in Y
          BY <4>1, <5>1
        <5>3. <<>> \in Seq(Y) /\ Append(<<>>, y) = <<y>> /\ e \o <<>> = e
          BY <5>2
        <5>4. Append(e, y) = e \o <<y>>
          BY <5>2, <5>3, ConcatAppend
        <5>. QED
          BY <3>1, <5>1, <5>4
      <4>3. AddLine(c, y) = [c EXCEPT ![j] = c[j] \o one]
        BY <3>4, <4>1, <4>2 DEF AddLine
      <4>4. j \in DOMAIN c
        BY <4>1
      <4>5. PICK d : d = AddLine(c, y) /\ Lengthened(c, j, one, d)
        BY <4>3 DEF Lengthened
      <4>6. Times(AllOf(d), w) = Times(AllOf(c), w) + Times(FlattenSeq(one), w)
        BY <4>4, <4>5, AllChanged
      <4>. QED
        BY <3>1, <4>5, <4>6
    <3>. QED
      BY <3>2, <3>3, <3>4
  <2>. QED
    BY <2>4, <2>5, <2>6, <2>7, <2>8
<1>6. n \in N
  <2>1. Nat \subseteq N
    <3>. HIDE DEF N
    <3>. QED
      BY <1>4, <1>5, SetInduction
  <2>. QED
    BY <2>1
<1>7. SubSeq(lines, 1, n) = lines /\ n \in 0..n
  BY <1>3, SubSeqStep
<1>8. Times(AllOf(Chunks(words)), w) = Times(FlattenSeq(lines), w)
  BY <1>2, <1>3, <1>6, <1>7
<1>. QED
  BY <1>1, <1>8, LinesTimes

LEMMA BlankTimes ==
  ASSUME NEW X, NEW chunk \in Seq(Seq(X)), IsBlank(chunk), NEW w
  PROVE  Times(FlattenSeq(chunk), w) = 0
<1>1. \A i \in DOMAIN chunk : w \notin Range(chunk[i])
  BY DEF IsBlank, Range
<1>2. PICK f \in Seq(X) : f = FlattenSeq(chunk)
  BY FlattenProperties
<1>3. w \notin Range(f)
  BY <1>1, <1>2, FlattenProperties
<1>. QED
  BY <1>2, <1>3, TimesNat

\* The lines that fb.addLine keeps.
OneLine(line) == IF line = <<>> THEN <<>> ELSE <<line>>
FullLines(chunk) == FlattenSeq([i \in DOMAIN chunk |-> OneLine(chunk[i])])

LEMMA OneLineFacts ==
  ASSUME NEW X, NEW line \in Seq(X)
  PROVE  OneLine(line) \in Seq(Seq(X)) /\ FlattenSeq(OneLine(line)) = line
<1>1. CASE line = <<>>
  BY <1>1, FlattenNone DEF OneLine
<1>2. CASE line # <<>>
  <2>1. PICK Y : Y = Seq(X)
    OBVIOUS
  <2>2. line \in Y
    BY <2>1
  <2>3. <<line>> \in Seq(Y)
    BY <2>2
  <2>. QED
    BY <1>2, <2>1, <2>3, FlattenOne DEF OneLine
<1>. QED
  BY <1>1, <1>2

LEMMA FullLinesFlat ==
  ASSUME NEW X, NEW chunk \in Seq(Seq(X))
  PROVE  FullLines(chunk) \in Seq(Seq(X)) /\ FlattenSeq(FullLines(chunk)) = FlattenSeq(chunk)
<1>. DEFINE Each(c) == [i \in DOMAIN c |-> OneLine(c[i])]
            Good(c) == FlattenSeq(FullLines(c)) = FlattenSeq(c)
            N == {n \in Nat : \A c \in Seq(Seq(X)) : Len(c) = n => Good(c)}
<1>1. ASSUME NEW c \in Seq(Seq(X))
      PROVE  /\ Each(c) \in Seq(Seq(Seq(X))) /\ Len(Each(c)) = Len(c)
             /\ \A i \in DOMAIN c : Each(c)[i] = OneLine(c[i])
             /\ FullLines(c) = FlattenSeq(Each(c)) /\ FullLines(c) \in Seq(Seq(X))
  <2>1. PICK n \in Nat : n = Len(c) /\ DOMAIN c = 1..n
    <3>1. Len(c) \in Nat /\ DOMAIN c = 1..Len(c)
      OBVIOUS
    <3>. QED
      BY <3>1
  <2>2. PICK Y : Y = Seq(Seq(X))
    OBVIOUS
  <2>3. \A i \in 1..n : OneLine(c[i]) \in Y
    BY <2>1, <2>2, OneLineFacts
  <2>4. PICK e : e = Each(c)
    OBVIOUS
  <2>5. e \in [1..n -> Y] /\ \A i \in 1..n : e[i] = OneLine(c[i])
    BY <2>1, <2>3, <2>4
  <2>6. e \in Seq(Y) /\ Len(e) = n
    <3>1. e \in [1..n -> Y]
      BY <2>5
    <3>. QED
      BY <3>1
  <2>7. FullLines(c) = FlattenSeq(e)
    BY <2>4 DEF FullLines
  <2>8. FlattenSeq(e) \in Y
    BY <2>2, <2>6, FlattenProperties
  <2>. QED
    BY <2>1, <2>2, <2>4, <2>5, <2>6, <2>7, <2>8
<1>. HIDE DEF Each
<1>2. 0 \in N
  <2>1. ASSUME NEW c \in Seq(Seq(X)), Len(c) = 0 PROVE Good(c)
    <3>1. c = <<>>
      BY <2>1, EmptySeq
    <3>2. Each(c) = <<>>
      BY <1>1, <2>1, EmptySeq
    <3>. QED
      BY <1>1, <3>1, <3>2, FlattenNone
  <2>. QED
    BY <2>1
<1>3. ASSUME NEW n \in Nat, n \in N PROVE n + 1 \in N
  <2>1. ASSUME NEW c \in Seq(Seq(X)), Len(c) = n + 1 PROVE Good(c)
    <3>1. c # <<>>
      BY <2>1, EmptySeq
    <3>2. PICK f \in Seq(Seq(X)), y \in Seq(X) :
            /\ c = Append(f, y) /\ y = c[Len(c)] /\ Len(c) = Len(f) + 1
            /\ \A j \in 1..Len(f) : f[j] = c[j]
      BY <3>1, FrontAndLast
    <3>3. Len(f) = n /\ DOMAIN f = 1..n /\ DOMAIN c = 1..(n + 1) /\ y = c[n + 1]
      BY <2>1, <3>2
    <3>4. PICK Y : Y = Seq(Seq(X))
      OBVIOUS
    <3>5. PICK e \in Seq(Y), z \in Y : e = Each(f) /\ z = OneLine(y)
      BY <1>1, <3>4, OneLineFacts
    <3>6. Len(e) = n /\ \A i \in 1..n : e[i] = OneLine(f[i])
      BY <1>1, <3>3, <3>5
    <3>7. PICK d \in Seq(Y) : d = Each(c) /\ Len(d) = n + 1 /\ \A i \in 1..(n + 1) : d[i] = OneLine(c[i])
      BY <1>1, <2>1, <3>3, <3>4
    <3>8. PICK u : u = Append(e, z)
      OBVIOUS
    <3>9. u \in Seq(Y) /\ Len(u) = n + 1 /\ u[n + 1] = z /\ \A i \in 1..n : u[i] = e[i]
      BY <3>6, <3>8
    <3>10. ASSUME NEW i \in 1..(n + 1) PROVE d[i] = u[i]
      <4>1. CASE i \in 1..n
        BY <3>2, <3>3, <3>6, <3>7, <3>9, <4>1
      <4>2. CASE i = n + 1
        BY <3>3, <3>5, <3>7, <3>9, <4>2
      <4>3. i \in 1..n \/ i = n + 1
        OBVIOUS
      <4>. QED
        BY <4>1, <4>2, <4>3
    <3>11. d = u
      BY <3>7, <3>9, <3>10, SeqEqual
    <3>12. FullLines(c) = FullLines(f) \o z
      <4>1. PICK Z : Z = Seq(X) /\ Y = Seq(Z)
        BY <3>4
      <4>2. e \in Seq(Seq(Z)) /\ z \in Seq(Z)
        BY <4>1
      <4>3. FlattenSeq(Append(e, z)) = FlattenSeq(e) \o z
        BY <4>2, FlattenAppend
      <4>4. FullLines(c) = FlattenSeq(d) /\ FullLines(f) = FlattenSeq(e)
        BY <1>1, <3>5, <3>7
      <4>. QED
        BY <3>8, <3>11, <4>3, <4>4
    <3>13. FlattenSeq(z) = y /\ FullLines(f) \in Seq(Seq(X))
      BY <1>1, <3>5, OneLineFacts
    <3>14. FlattenSeq(FullLines(c)) = FlattenSeq(FullLines(f)) \o y
      BY <3>4, <3>12, <3>13, FlattenConcat
    <3>15. Good(f)
      BY <1>3, <3>3
    <3>16. FlattenSeq(c) = FlattenSeq(f) \o y
      BY <3>2, FlattenAppend
    <3>. QED
      BY <3>14, <3>15, <3>16
  <2>. HIDE DEF Good
  <2>. QED
    BY <2>1
<1>4. Nat \subseteq N
  <2>. HIDE DEF N
  <2>. QED
    BY <1>2, <1>3, SetInduction
<1>5. Len(chunk) \in Nat
  OBVIOUS
<1>. QED
  BY <1>1, <1>4, <1>5

(***************************************************************************)
(* The words of the blocks.                                                *)
(***************************************************************************)
LineLists(blocks) == [i \in DOMAIN blocks |-> blocks[i].lines]
BlockTimes(s, w) == Times(AllWords(s.scans), w) + Times(AllWords(s.headers), w)
KeptTimes(s, w) == BlockTimes(s, w) + Times(AllWords(s.ignored), w)
SameBlocks(s, t) == t.scans = s.scans /\ t.headers = s.headers

LEMMA LineListsType ==
  ASSUME NEW R, NEW b \in Seq(R), \A r \in R : r.lines \in Lines
  PROVE  /\ LineLists(b) \in Seq(Lines) /\ Len(LineLists(b)) = Len(b)
         /\ \A i \in DOMAIN b : LineLists(b)[i] = b[i].lines
         /\ AllWords(b) = AllOf(LineLists(b)) /\ AllWords(b) \in Seq(Words)
<1>1. PICK n \in Nat : n = Len(b) /\ DOMAIN b = 1..n /\ \A i \in 1..n : b[i] \in R
  <2>1. Len(b) \in Nat /\ DOMAIN b = 1..Len(b) /\ \A i \in 1..Len(b) : b[i] \in R
    OBVIOUS
  <2>. QED
    BY <2>1
<1>2. PICK l : l = LineLists(b)
  OBVIOUS
<1>3. l \in [1..n -> Lines] /\ \A i \in 1..n : l[i] = b[i].lines
  BY <1>1, <1>2 DEF LineLists
<1>4. l \in Seq(Lines) /\ Len(l) = n
  BY <1>3
<1>5. AllWords(b) = AllOf(l)
  <2>1. [i \in DOMAIN b |-> FlattenSeq(b[i].lines)] = Joined(l)
    BY <1>1, <1>3 DEF Joined
  <2>. QED
    BY <2>1 DEF AllOf, AllWords
<1>6. AllOf(l) \in Seq(Words)
  BY <1>4, JoinedType DEF Lines
<1>. QED
  BY <1>1, <1>2, <1>3, <1>4, <1>5, <1>6

HasLines(R) == \A r \in R : r.lines \in Lines

\* A new block.
LEMMA BlockAppended ==
  ASSUME NEW R, NEW b \in Seq(R), HasLines(R), NEW r \in R, NEW w
  PROVE  Times(AllWords(Append(b, r)), w) = Times(AllWords(b), w) + Times(FlattenSeq(r.lines), w)
<1>0. \A x \in R : x.lines \in Lines
  BY DEF HasLines
<1>1. PICK n \in Nat : n = Len(b) /\ DOMAIN b = 1..n
  <2>1. Len(b) \in Nat /\ DOMAIN b = 1..Len(b)
    OBVIOUS
  <2>. QED
    BY <2>1
<1>2. PICK c : c = Append(b, r)
  OBVIOUS
<1>3. c \in Seq(R) /\ Len(c) = n + 1 /\ DOMAIN c = 1..(n + 1) /\ c[n + 1] = r
      /\ \A i \in 1..n : c[i] = b[i]
  BY <1>1, <1>2
<1>4. PICK l \in Seq(Lines) : l = LineLists(b) /\ Len(l) = n /\ AllWords(b) = AllOf(l)
                              /\ \A i \in 1..n : l[i] = b[i].lines
  BY <1>0, <1>1, LineListsType
<1>5. PICK m \in Seq(Lines) : m = LineLists(c) /\ Len(m) = n + 1 /\ AllWords(c) = AllOf(m)
                              /\ \A i \in 1..(n + 1) : m[i] = c[i].lines
  BY <1>0, <1>3, LineListsType
<1>6. PICK e \in Lines : e = r.lines
  BY <1>0
<1>7. PICK k : k = Append(l, e)
  OBVIOUS
<1>8. k \in Seq(Lines) /\ Len(k) = n + 1 /\ k[n + 1] = e /\ \A i \in 1..n : k[i] = l[i]
  BY <1>4, <1>7
<1>9. ASSUME NEW i \in 1..(n + 1) PROVE m[i] = k[i]
  <2>1. CASE i \in 1..n
    BY <1>3, <1>4, <1>5, <1>8, <2>1
  <2>2. CASE i = n + 1
    BY <1>3, <1>5, <1>6, <1>8, <2>2
  <2>3. i \in 1..n \/ i = n + 1
    OBVIOUS
  <2>. QED
    BY <2>1, <2>2, <2>3
<1>10. m = k
  BY <1>5, <1>8, <1>9, SeqEqual
<1>11. Times(AllOf(k), w) = Times(AllOf(l), w) + Times(FlattenSeq(e), w)
  <2>1. l \in Seq(Seq(Seq(Words))) /\ e \in Seq(Seq(Words))
    BY DEF Lines
  <2>. QED
    BY <1>7, <2>1, AllAppend
<1>. QED
  BY <1>2, <1>4, <1>5, <1>6, <1>10, <1>11

\* A new block, which has no lines yet.
LEMMA BlockAdded ==
  ASSUME NEW R, NEW b \in Seq(R), \A r \in R : r.lines \in Lines, NEW r \in R, r.lines = <<>>, NEW w
  PROVE  Times(AllWords(Append(b, r)), w) = Times(AllWords(b), w)
<1>1. HasLines(R)
  BY DEF HasLines
<1>2. Times(AllWords(Append(b, r)), w) = Times(AllWords(b), w) + Times(FlattenSeq(r.lines), w)
  BY <1>1, BlockAppended
<1>3. Times(FlattenSeq(r.lines), w) = 0
  BY FlattenNone, TimesNone
<1>4. Times(AllWords(b), w) \in Nat
  BY LineListsType, TimesNat
<1>. QED
  BY <1>2, <1>3, <1>4

\* More lines of a block.
MoreLines(b, j, more, c) ==
    /\ j \in DOMAIN b /\ DOMAIN c = DOMAIN b /\ c[j].lines = b[j].lines \o more
    /\ \A i \in DOMAIN b : i # j => c[i] = b[i]

LEMMA LinesAdded ==
  ASSUME NEW R, HasLines(R), NEW b \in Seq(R), NEW j, NEW more \in Lines, NEW c \in Seq(R),
         MoreLines(b, j, more, c), NEW w
  PROVE  Times(AllWords(c), w) = Times(AllWords(b), w) + Times(FlattenSeq(more), w)
<1>0. /\ j \in DOMAIN b /\ DOMAIN c = DOMAIN b /\ c[j].lines = b[j].lines \o more
      /\ \A i \in DOMAIN b : i # j => c[i] = b[i]
      /\ \A r \in R : r.lines \in Lines
  BY DEF MoreLines, HasLines
<1>1. PICK n \in Nat : n = Len(b) /\ DOMAIN b = 1..n /\ n = Len(c)
  <2>1. Len(b) \in Nat /\ DOMAIN b = 1..Len(b) /\ Len(c) \in Nat /\ DOMAIN c = 1..Len(c)
    OBVIOUS
  <2>2. Len(c) = Len(b)
    BY <1>0, <2>1
  <2>. QED
    BY <2>1, <2>2
<1>4. PICK l \in Seq(Lines) : l = LineLists(b) /\ Len(l) = n /\ AllWords(b) = AllOf(l)
                              /\ \A i \in 1..n : l[i] = b[i].lines
  BY <1>0, <1>1, LineListsType
<1>5. PICK m \in Seq(Lines) : m = LineLists(c) /\ Len(m) = n /\ AllWords(c) = AllOf(m)
                              /\ \A i \in 1..n : m[i] = c[i].lines
  BY <1>0, <1>1, LineListsType
<1>6. j \in 1..n /\ DOMAIN l = 1..n
  BY <1>0, <1>1, <1>4
<1>7. PICK k : k = [l EXCEPT ![j] = l[j] \o more]
  OBVIOUS
<1>8. k \in Seq(Lines) /\ Len(k) = n /\ \A i \in 1..n : k[i] = IF i = j THEN l[j] \o more ELSE l[i]
  <2>1. l[j] \o more \in Lines
    BY <1>6, ConcatFacts DEF Lines
  <2>2. k \in Seq(Lines) /\ Len(k) = n
    BY <1>4, <1>6, <1>7, <2>1, ExceptSeq
  <2>3. \A i \in 1..n : k[i] = IF i = j THEN l[j] \o more ELSE l[i]
    BY <1>6, <1>7
  <2>. QED
    BY <2>2, <2>3
<1>9. ASSUME NEW i \in 1..n PROVE m[i] = k[i]
  <2>1. CASE i = j
    BY <1>0, <1>1, <1>4, <1>5, <1>8, <2>1
  <2>2. CASE i # j
    BY <1>0, <1>1, <1>4, <1>5, <1>8, <2>2
  <2>. QED
    BY <2>1, <2>2
<1>10. m = k
  BY <1>5, <1>8, <1>9, SeqEqual
<1>11. Times(AllOf(k), w) = Times(AllOf(l), w) + Times(FlattenSeq(more), w)
  <2>1. l \in Seq(Seq(Seq(Words))) /\ more \in Seq(Seq(Words)) /\ j \in DOMAIN l
    BY <1>6 DEF Lines
  <2>2. Lengthened(l, j, more, k)
    BY <1>7 DEF Lengthened
  <2>. QED
    BY <2>1, <2>2, AllChanged
<1>. QED
  BY <1>4, <1>5, <1>10, <1>11

LEMMA BlocksOfIndex ==
  ASSUME NEW s \in Index, NEW w
  PROVE  /\ s.scans \in Seq(Scan) /\ s.headers \in Seq(Header) /\ s.ignored \in Seq(Ignored)
         /\ \A r \in Scan : r.lines \in Lines
         /\ \A r \in Header : r.lines \in Lines
         /\ \A r \in Ignored : r.lines \in Lines
         /\ AllWords(s.scans) \in Seq(Words) /\ AllWords(s.headers) \in Seq(Words)
         /\ AllWords(s.ignored) \in Seq(Words)
         /\ Times(AllWords(s.scans), w) \in Nat /\ Times(AllWords(s.headers), w) \in Nat
         /\ Times(AllWords(s.ignored), w) \in Nat
         /\ BlockTimes(s, w) \in Nat /\ KeptTimes(s, w) \in Nat
<1>1. s.scans \in Seq(Scan) /\ s.headers \in Seq(Header) /\ s.ignored \in Seq(Ignored)
  BY DEF Index
<1>2. /\ \A r \in Scan : r.lines \in Lines
      /\ \A r \in Header : r.lines \in Lines
      /\ \A r \in Ignored : r.lines \in Lines
  BY DEF Scan, Header, Ignored
<1>3. PICK a \in Seq(Words), b \in Seq(Words), c \in Seq(Words) :
        a = AllWords(s.scans) /\ b = AllWords(s.headers) /\ c = AllWords(s.ignored)
  BY <1>1, <1>2, LineListsType
<1>4. Times(a, w) \in Nat /\ Times(b, w) \in Nat /\ Times(c, w) \in Nat
  BY TimesNat
<1>. QED
  BY <1>1, <1>2, <1>3, <1>4 DEF KeptTimes, BlockTimes

LEMMA AddLinesTimes ==
  ASSUME NEW s, IndexOK(s), NEW chunk \in Lines, NEW w
  PROVE  /\ s.fb[1] # "none" =>
              KeptTimes(AddLines(s, chunk), w) = KeptTimes(s, w) + Times(FlattenSeq(chunk), w)
         /\ s.fb[1] = "none" => AddLines(s, chunk) = s
         /\ AddLines(s, chunk).fb = s.fb /\ AddLines(s, chunk).read = s.read
<1>0. /\ s \in Index /\ s.fb \in {"none", "scan", "header"} \X Nat
      /\ s.scans \in Seq(Scan) /\ s.headers \in Seq(Header)
  BY DEF IndexOK, Index
<1>1. PICK lines \in Lines : lines = FullLines(chunk) /\ FlattenSeq(lines) = FlattenSeq(chunk)
  BY FullLinesFlat DEF Lines
<1>2. AddLines(s, chunk) =
        CASE s.fb[1] = "scan"   -> [s EXCEPT !.scans[s.fb[2]].lines = @ \o lines]
          [] s.fb[1] = "header" -> [s EXCEPT !.headers[s.fb[2]].lines = @ \o lines]
          [] s.fb[1] = "none"   -> s
  BY <1>1 DEF AddLines, FullLines, OneLine
<1>3. PICK t : t = AddLines(s, chunk) /\ t \in Index
  BY AddLinesKeeps DEF IndexOK
<1>4. CASE s.fb[1] = "scan"
  <2>1. PICK j \in DOMAIN s.scans : j = s.fb[2]
    BY <1>4 DEF IndexOK
  <2>2. t = [s EXCEPT !.scans[j].lines = @ \o lines]
    BY <1>2, <1>3, <1>4, <2>1
  <2>3. /\ t.scans = [s.scans EXCEPT ![j].lines = @ \o lines] /\ t.headers = s.headers
        /\ t.fb = s.fb /\ t.read = s.read /\ t.ignored = s.ignored
    BY <1>0, <2>2 DEF Index
  <2>4. PICK b \in Seq(Scan), c \in Seq(Scan) : b = s.scans /\ c = t.scans
    BY <1>0, <1>3 DEF Index
  <2>5. /\ DOMAIN c = DOMAIN b /\ \A i \in DOMAIN b : i # j => c[i] = b[i]
        /\ j \in DOMAIN b /\ c[j].lines = b[j].lines \o lines
    <3>1. b[j] \in Scan
      BY <2>1, <2>4
    <3>2. c[j] = [b[j] EXCEPT !.lines = @ \o lines]
      BY <2>1, <2>3, <2>4
    <3>3. c[j].lines = b[j].lines \o lines
      BY <3>1, <3>2 DEF Scan
    <3>. QED
      BY <2>1, <2>3, <2>4, <3>3
  <2>6. HasLines(Scan) /\ MoreLines(b, j, lines, c)
    BY <2>5 DEF Scan, HasLines, MoreLines
  <2>7. Times(AllWords(c), w) = Times(AllWords(b), w) + Times(FlattenSeq(lines), w)
    BY <2>6, LinesAdded
  <2>8. Times(AllWords(s.scans), w) \in Nat /\ Times(AllWords(s.headers), w) \in Nat
        /\ Times(FlattenSeq(lines), w) \in Nat /\ Times(AllWords(s.ignored), w) \in Nat
    BY <1>0, <1>1, BlocksOfIndex, FlattenProperties, TimesNat DEF Lines
  <2>. QED
    BY <1>1, <1>3, <1>4, <2>3, <2>4, <2>7, <2>8 DEF KeptTimes, BlockTimes
<1>5. CASE s.fb[1] = "header"
  <2>1. PICK j \in DOMAIN s.headers : j = s.fb[2]
    BY <1>5 DEF IndexOK
  <2>2. t = [s EXCEPT !.headers[j].lines = @ \o lines]
    BY <1>2, <1>3, <1>5, <2>1
  <2>3. /\ t.headers = [s.headers EXCEPT ![j].lines = @ \o lines] /\ t.scans = s.scans
        /\ t.fb = s.fb /\ t.read = s.read /\ t.ignored = s.ignored
    BY <1>0, <2>2 DEF Index
  <2>4. PICK b \in Seq(Header), c \in Seq(Header) : b = s.headers /\ c = t.headers
    BY <1>0, <1>3 DEF Index
  <2>5. /\ DOMAIN c = DOMAIN b /\ \A i \in DOMAIN b : i # j => c[i] = b[i]
        /\ j \in DOMAIN b /\ c[j].lines = b[j].lines \o lines
    <3>1. b[j] \in Header
      BY <2>1, <2>4
    <3>2. c[j] = [b[j] EXCEPT !.lines = @ \o lines]
      BY <2>1, <2>3, <2>4
    <3>3. c[j].lines = b[j].lines \o lines
      BY <3>1, <3>2 DEF Header
    <3>. QED
      BY <2>1, <2>3, <2>4, <3>3
  <2>6. HasLines(Header) /\ MoreLines(b, j, lines, c)
    BY <2>5 DEF Header, HasLines, MoreLines
  <2>7. Times(AllWords(c), w) = Times(AllWords(b), w) + Times(FlattenSeq(lines), w)
    BY <2>6, LinesAdded
  <2>8. Times(AllWords(s.scans), w) \in Nat /\ Times(AllWords(s.headers), w) \in Nat
        /\ Times(FlattenSeq(lines), w) \in Nat /\ Times(AllWords(s.ignored), w) \in Nat
    BY <1>0, <1>1, BlocksOfIndex, FlattenProperties, TimesNat DEF Lines
  <2>. QED
    BY <1>1, <1>3, <1>5, <2>3, <2>4, <2>7, <2>8 DEF KeptTimes, BlockTimes
<1>6. CASE s.fb[1] = "none"
  BY <1>2, <1>6
<1>. QED
  BY <1>0, <1>4, <1>5, <1>6

LEMMA NewBlockTimes ==
  ASSUME NEW s, IndexOK(s), Current(s), NEW x \in Words, NEW w
  PROVE  /\ KeptTimes(Block(s, x), w) = KeptTimes(s, w)
         /\ Block(s, x).fb[1] # "none" /\ Block(s, x).read = s.read
         /\ x.k # "S" => Block(s, x).scans = s.scans
<1>0. /\ s \in Index /\ s.scans \in Seq(Scan) /\ s.headers \in Seq(Header)
      /\ s.origfilename \in Numbers \cup {None} /\ Len(s.headers) \in Nat
      /\ x.v \in Numbers
  BY DEF IndexOK, Index, Numbers
<1>1. (\A r \in Scan : r.lines \in Lines) /\ (\A r \in Header : r.lines \in Lines) /\ <<>> \in Lines
  BY DEF Scan, Header, Lines
<1>2. CASE x.k = "S"
  <2>1. PICK r : r = [number |-> x.v, header |-> Len(s.headers), lines |-> <<>>]
    OBVIOUS
  <2>2. r \in Scan /\ r.lines = <<>>
    BY <1>0, <1>1, <2>1 DEF Scan
  <2>3. PICK t : t = Block(s, x)
    OBVIOUS
  <2>4. t = [s EXCEPT !.scans = Append(s.scans, r), !.parsed = Append(s.parsed, None),
                      !.fb = <<"scan", Len(s.scans) + 1>>]
    BY <1>2, <2>1, <2>3 DEF Block
  <2>5. t.scans = Append(s.scans, r) /\ t.headers = s.headers /\ t.read = s.read /\ t.fb[1] = "scan"
        /\ t.ignored = s.ignored
    BY <1>0, <2>4 DEF Index
  <2>6. PICK b \in Seq(Scan) : b = s.scans
    BY <1>0
  <2>7. Times(AllWords(Append(b, r)), w) = Times(AllWords(b), w)
    BY <1>1, <2>2, BlockAdded
  <2>. QED
    BY <1>2, <2>3, <2>5, <2>6, <2>7 DEF KeptTimes, BlockTimes
<1>3. CASE x.k # "S"
  <2>1. PICK file \in Numbers \cup {None} : file = IF x.k = "F" THEN x.v ELSE s.origfilename
    BY <1>0
  <2>2. PICK r : r = [file |-> file, lines |-> <<>>]
    OBVIOUS
  <2>3. r \in Header /\ r.lines = <<>>
    BY <1>1, <2>2 DEF Header
  <2>4. PICK t : t = Block(s, x)
    OBVIOUS
  <2>5. t = [s EXCEPT !.headers = Append(s.headers, r), !.origfilename = file,
                      !.fb = <<"header", Len(s.headers) + 1>>]
    BY <1>3, <2>1, <2>2, <2>4 DEF Block
  <2>6. t.headers = Append(s.headers, r) /\ t.scans = s.scans /\ t.read = s.read /\ t.fb[1] = "header"
        /\ t.ignored = s.ignored
    BY <1>0, <2>5 DEF Index
  <2>7. PICK b \in Seq(Header) : b = s.headers
    BY <1>0
  <2>8. Times(AllWords(Append(b, r)), w) = Times(AllWords(b), w)
    BY <1>1, <2>3, BlockAdded
  <2>. QED
    BY <1>3, <2>4, <2>6, <2>7, <2>8 DEF KeptTimes, BlockTimes
<1>. QED
  BY <1>2, <1>3

LEMMA EndTimes ==
  ASSUME NEW s \in Index, NEW w
  PROVE  /\ KeptTimes(End(s), w) = KeptTimes(s, w) /\ End(s).fb = s.fb /\ End(s).read = s.read
         /\ SameBlocks(s, End(s))
<1>1. /\ End(s).scans = s.scans /\ End(s).headers = s.headers /\ End(s).fb = s.fb
      /\ End(s).read = s.read /\ End(s).ignored = s.ignored
  BY DEF End, Index
<1>. QED
  BY <1>1 DEF KeptTimes, BlockTimes, SameBlocks

\* A chunk that is not the first: its words are kept.
Ignoring(chunk) == IsBlank(chunk) \/ Dropped(chunk)
Keeping(s, chunk) == s.fb[1] # "none" \/ Ignoring(chunk) \/ Opens(chunk)

LEMMA AddChunkTimes ==
  ASSUME NEW s, IndexOK(s), NEW chunk \in Lines, NEW w
  PROVE  /\ Keeping(s, chunk) =>
              KeptTimes(AddChunk(s, chunk), w) = KeptTimes(s, w) + Times(FlattenSeq(chunk), w)
         /\ ~Keeping(s, chunk) =>
              KeptTimes(AddChunk(s, chunk), w) = KeptTimes(s, w) /\ AddChunk(s, chunk).fb = s.fb
         /\ s.fb[1] # "none" \/ (~Ignoring(chunk) /\ Opens(chunk)) => AddChunk(s, chunk).fb[1] # "none"
         /\ AddChunk(s, chunk).read = (s.read \/ ~Ignoring(chunk))
         /\ Ignoring(chunk) => SameBlocks(s, AddChunk(s, chunk))
<1>0. s \in Index /\ s.read \in BOOLEAN /\ KeptTimes(s, w) \in Nat
  BY BlocksOfIndex DEF IndexOK, Index
<1>1. CASE IsBlank(chunk)
  <2>1. AddChunk(s, chunk) = s
    BY <1>1 DEF AddChunk
  <2>2. Times(FlattenSeq(chunk), w) = 0
    BY <1>1, BlankTimes DEF Lines
  <2>. QED
    BY <1>0, <1>1, <2>1, <2>2 DEF Keeping, Ignoring, SameBlocks
<1>3. CASE ~IsBlank(chunk) /\ Dropped(chunk)
  <2>1. PICK t : t = AddChunk(s, chunk)
    OBVIOUS
  <2>2. /\ t.scans = s.scans /\ t.headers = s.headers /\ t.fb = s.fb /\ t.read = s.read
        /\ t.ignored = Append(s.ignored, [lines |-> chunk])
    BY <1>0, <1>3, <2>1, DroppedFacts
  <2>3. KeptTimes(t, w) = KeptTimes(s, w) + Times(FlattenSeq(chunk), w)
    <3>1. PICK b \in Seq(Ignored), x \in Ignored : b = s.ignored /\ x = [lines |-> chunk]
      <4>1. [lines |-> chunk] \in Ignored
        BY <1>3 DEF Ignored
      <4>. QED
        BY <1>0, <4>1, BlocksOfIndex
    <3>2. x.lines = chunk /\ HasLines(Ignored)
      BY <3>1 DEF HasLines, Ignored
    <3>3. Times(AllWords(Append(b, x)), w) = Times(AllWords(b), w) + Times(FlattenSeq(x.lines), w)
      BY <3>2, BlockAppended
    <3>4. t.ignored = Append(b, x)
      BY <2>2, <3>1
    <3>5. PICK m \in Nat, k \in Nat, d \in Nat :
            m = BlockTimes(s, w) /\ k = Times(AllWords(s.ignored), w) /\ d = Times(FlattenSeq(chunk), w)
      BY <1>0, BlocksOfIndex, FlattenProperties, TimesNat DEF Lines
    <3>6. KeptTimes(s, w) = m + k
      BY <3>5 DEF KeptTimes
    <3>7. KeptTimes(t, w) = m + (k + d)
      <4>1. BlockTimes(t, w) = m
        BY <2>2, <3>5 DEF BlockTimes
      <4>2. Times(AllWords(t.ignored), w) = k + d
        BY <3>1, <3>2, <3>3, <3>4, <3>5
      <4>. QED
        BY <4>1, <4>2 DEF KeptTimes
    <3>. QED
      BY <3>5, <3>6, <3>7
  <2>. QED
    BY <1>0, <1>3, <2>1, <2>2, <2>3 DEF Keeping, Ignoring, SameBlocks
<1>2. CASE ~IsBlank(chunk) /\ ~Dropped(chunk)
  <2>1. PICK a : a = IF Opens(chunk) THEN Block(End(s), chunk[1][1]) ELSE s
    OBVIOUS
  <2>2. /\ IndexOK(a) /\ KeptTimes(a, w) = KeptTimes(s, w)
        /\ Opens(chunk) => a.fb[1] # "none"
        /\ ~Opens(chunk) => a.fb = s.fb
    <3>1. CASE Opens(chunk)
      <4>1. chunk[1] \in Seq(Words) /\ chunk[1] # <<>>
        <5>1. chunk # <<>>
          BY <1>2 DEF IsBlank
        <5>2. 1 \in 1..Len(chunk)
          BY <5>1, EmptySeq DEF Lines
        <5>. QED
          BY <3>1, <5>2 DEF Opens, Lines
      <4>2. PICK x \in Words : x = chunk[1][1]
        BY <4>1, EmptySeq
      <4>3. PICK e : e = End(s)
        OBVIOUS
      <4>4. IndexOK(e) /\ Current(e) /\ KeptTimes(e, w) = KeptTimes(s, w)
        BY <1>0, <4>3, EndKeeps, EndTimes
      <4>5. a = Block(e, x)
        BY <2>1, <3>1, <4>2, <4>3
      <4>. QED
        BY <3>1, <4>4, <4>5, BlockKeeps, NewBlockTimes
    <3>2. CASE ~Opens(chunk)
      BY <2>1, <3>2
    <3>. QED
      BY <3>1, <3>2
  <2>3. PICK t : t = AddLines(a, chunk)
    OBVIOUS
  <2>4. /\ IndexOK(t) /\ t.fb = a.fb
        /\ a.fb[1] # "none" => KeptTimes(t, w) = KeptTimes(a, w) + Times(FlattenSeq(chunk), w)
        /\ a.fb[1] = "none" => t = a
    BY <2>2, <2>3, AddLinesKeeps, AddLinesTimes
  <2>5. PICK u : u = [t EXCEPT !.read = TRUE]
    OBVIOUS
  <2>6. AddChunk(s, chunk) = u
    BY <1>2, <2>1, <2>3, <2>5 DEF AddChunk
  <2>7. u.scans = t.scans /\ u.headers = t.headers /\ u.fb = t.fb /\ u.read = TRUE
        /\ u.ignored = t.ignored
    BY <2>4, <2>5 DEF IndexOK, Index
  <2>8. KeptTimes(u, w) = KeptTimes(t, w)
    BY <2>7 DEF KeptTimes, BlockTimes
  <2>9. CASE Keeping(s, chunk)
    <3>1. a.fb[1] # "none"
      BY <1>2, <2>2, <2>9 DEF Keeping, Ignoring
    <3>. QED
      BY <1>2, <2>2, <2>4, <2>6, <2>7, <2>8, <2>9, <3>1 DEF Keeping, Ignoring
  <2>10. CASE ~Keeping(s, chunk)
    <3>1. a.fb = s.fb /\ a.fb[1] = "none"
      BY <1>2, <2>2, <2>10 DEF Keeping, Ignoring
    <3>. QED
      BY <1>2, <2>2, <2>4, <2>6, <2>7, <2>8, <2>10, <3>1 DEF Keeping, Ignoring
  <2>. QED
    BY <2>9, <2>10
<1>. QED
  BY <1>1, <1>2, <1>3

(***************************************************************************)
(* The words of an index, chunk by chunk.                                  *)
(***************************************************************************)
Adding(chunks, h) == \A i \in 1..Len(chunks) : h[i] = AddChunk(h[i - 1], chunks[i])

\* From where there is a block that takes what comes: nothing is lost.
TakesAll(chunks, h, m, i, w) ==
    /\ h[i].fb[1] # "none"
    /\ KeptTimes(h[i], w) + Times(AllOf(SubSeq(chunks, 1, m)), w)
         = KeptTimes(h[m], w) + Times(AllOf(SubSeq(chunks, 1, i)), w)
    /\ h[m].read => h[i].read
    /\ ~h[i].read => SameBlocks(h[m], h[i])

LEMMA ChunkStep ==
  ASSUME NEW chunks \in Seq(Lines), NEW i \in Nat, i + 1 \in 1..Len(chunks), NEW w
  PROVE  /\ Times(AllOf(SubSeq(chunks, 1, i + 1)), w)
              = Times(AllOf(SubSeq(chunks, 1, i)), w) + Times(FlattenSeq(chunks[i + 1]), w)
         /\ chunks[i + 1] \in Lines
         /\ Times(AllOf(SubSeq(chunks, 1, i)), w) \in Nat
         /\ Times(FlattenSeq(chunks[i + 1]), w) \in Nat
<1>1. PICK a \in Seq(Lines), y \in Lines :
        a = SubSeq(chunks, 1, i) /\ y = chunks[i + 1] /\ SubSeq(chunks, 1, i + 1) = Append(a, y)
  <2>1. /\ SubSeq(chunks, 1, i) \in Seq(Lines) /\ chunks[i + 1] \in Lines
        /\ SubSeq(chunks, 1, i + 1) = Append(SubSeq(chunks, 1, i), chunks[i + 1])
    BY SubSeqStep
  <2>. QED
    BY <2>1
<1>2. a \in Seq(Seq(Seq(Words))) /\ y \in Seq(Seq(Words))
  BY DEF Lines
<1>3. Times(AllOf(Append(a, y)), w) = Times(AllOf(a), w) + Times(FlattenSeq(y), w)
  BY <1>2, AllAppend
<1>4. AllOf(a) \in Seq(Words) /\ FlattenSeq(y) \in Seq(Words)
  BY <1>2, JoinedType, FlattenProperties
<1>5. Times(AllOf(a), w) \in Nat /\ Times(FlattenSeq(y), w) \in Nat
  BY <1>4, TimesNat
<1>. QED
  BY <1>1, <1>3, <1>5

LEMMA TraceTimes ==
  ASSUME NEW chunks \in Seq(Lines), NEW h, Adding(chunks, h),
         \A i \in 0..Len(chunks) : IndexOK(h[i]), NEW w,
         NEW m \in 0..Len(chunks), h[m].fb[1] # "none"
  PROVE  TakesAll(chunks, h, m, Len(chunks), w)
<1>1. PICK n \in Nat : n = Len(chunks)
  OBVIOUS
<1>. DEFINE N == {k \in Nat : m + k \in 0..n => TakesAll(chunks, h, m, m + k, w)}
<1>2. m \in 0..n /\ m \in Nat
  BY <1>1
<1>3. 0 \in N
  <2>1. Times(AllOf(SubSeq(chunks, 1, m)), w) \in Nat /\ KeptTimes(h[m], w) \in Nat
    <3>1. SubSeq(chunks, 1, m) \in Seq(Lines)
      BY <1>1, <1>2
    <3>2. AllOf(SubSeq(chunks, 1, m)) \in Seq(Words)
      BY <3>1, JoinedType DEF Lines
    <3>3. h[m] \in Index
      BY <1>1, <1>2 DEF IndexOK
    <3>. QED
      BY <3>2, <3>3, TimesNat, BlocksOfIndex
  <2>2. TakesAll(chunks, h, m, m, w)
    BY <2>1 DEF TakesAll, SameBlocks
  <2>. QED
    BY <1>2, <2>2
<1>4. ASSUME NEW k \in Nat, k \in N PROVE k + 1 \in N
  <2>. SUFFICES ASSUME m + (k + 1) \in 0..n PROVE TakesAll(chunks, h, m, m + (k + 1), w)
    OBVIOUS
  <2>1. PICK i \in Nat : i = m + k /\ m + (k + 1) = i + 1 /\ i \in 0..n /\ i + 1 \in 1..n
                         /\ (i + 1) - 1 = i
    <3>1. m + k \in Nat /\ m + (k + 1) = (m + k) + 1
      BY <1>2
    <3>2. m + k \in 0..n /\ (m + k) + 1 \in 1..n /\ ((m + k) + 1) - 1 = m + k
      BY <3>1
    <3>. QED
      BY <3>1, <3>2
  <2>2. TakesAll(chunks, h, m, i, w)
    BY <1>4, <2>1
  <2>3. PICK s : s = h[i] /\ IndexOK(s)
    BY <1>1, <2>1
  <2>4. PICK c \in Lines : /\ c = chunks[i + 1]
                           /\ Times(AllOf(SubSeq(chunks, 1, i + 1)), w)
                                = Times(AllOf(SubSeq(chunks, 1, i)), w) + Times(FlattenSeq(c), w)
                           /\ Times(AllOf(SubSeq(chunks, 1, i)), w) \in Nat
                           /\ Times(FlattenSeq(c), w) \in Nat
    BY <1>1, <2>1, ChunkStep
  <2>5. h[i + 1] = AddChunk(s, c)
    <3>1. h[i + 1] = AddChunk(h[(i + 1) - 1], chunks[i + 1])
      BY <1>1, <2>1 DEF Adding
    <3>. QED
      BY <2>1, <2>3, <2>4, <3>1
  <2>6. s.fb[1] # "none" /\ Keeping(s, c)
    BY <2>2, <2>3 DEF TakesAll, Keeping
  <2>7. PICK t : /\ t = AddChunk(s, c) /\ KeptTimes(t, w) = KeptTimes(s, w) + Times(FlattenSeq(c), w)
                 /\ t.fb[1] # "none" /\ t.read = (s.read \/ ~Ignoring(c))
                 /\ Ignoring(c) => SameBlocks(s, t)
    BY <2>3, <2>6, AddChunkTimes
  <2>8. ~t.read => ~s.read /\ SameBlocks(s, t)
    BY <2>7
  <2>9. s \in Index /\ s.read \in BOOLEAN /\ KeptTimes(s, w) \in Nat
    BY <2>3, BlocksOfIndex DEF IndexOK, Index
  <2>10. KeptTimes(h[m], w) \in Nat /\ Times(AllOf(SubSeq(chunks, 1, m)), w) \in Nat
    <3>1. SubSeq(chunks, 1, m) \in Seq(Lines)
      BY <1>1, <1>2
    <3>2. AllOf(SubSeq(chunks, 1, m)) \in Seq(Words)
      BY <3>1, JoinedType DEF Lines
    <3>3. h[m] \in Index
      BY <1>1, <1>2 DEF IndexOK
    <3>. QED
      BY <3>2, <3>3, TimesNat, BlocksOfIndex
  <2>11. KeptTimes(t, w) + Times(AllOf(SubSeq(chunks, 1, m)), w)
           = KeptTimes(h[m], w) + Times(AllOf(SubSeq(chunks, 1, i + 1)), w)
    <3>0. /\ Times(AllOf(SubSeq(chunks, 1, i)), w) \in Nat
          /\ Times(AllOf(SubSeq(chunks, 1, i + 1)), w) \in Nat
          /\ Times(AllOf(SubSeq(chunks, 1, m)), w) \in Nat
      BY <2>4, <2>10
    <3>1. PICK x \in Nat, y \in Nat, z \in Nat :
                         /\ x = Times(AllOf(SubSeq(chunks, 1, i)), w)
                         /\ y = Times(AllOf(SubSeq(chunks, 1, i + 1)), w)
                         /\ z = Times(AllOf(SubSeq(chunks, 1, m)), w)
      BY <3>0
    <3>2. y = x + Times(FlattenSeq(c), w) /\ x \in Nat /\ z \in Nat
      BY <2>4, <2>10, <3>1
    <3>3. KeptTimes(s, w) + z = KeptTimes(h[m], w) + x
      BY <2>2, <2>3, <3>1 DEF TakesAll
    <3>4. PICK a \in Nat, b \in Nat, g \in Nat, d \in Nat :
            /\ a = KeptTimes(s, w) /\ b = KeptTimes(t, w) /\ g = KeptTimes(h[m], w)
            /\ d = Times(FlattenSeq(c), w) /\ b = a + d
      <4>1. KeptTimes(t, w) = KeptTimes(s, w) + Times(FlattenSeq(c), w)
        BY <2>7
      <4>2. PICK a \in Nat, g \in Nat, d \in Nat :
              /\ a = KeptTimes(s, w) /\ g = KeptTimes(h[m], w) /\ d = Times(FlattenSeq(c), w)
        BY <2>4, <2>9, <2>10
      <4>3. KeptTimes(t, w) = a + d
        BY <4>1, <4>2
      <4>4. a + d \in Nat
        BY <4>2
      <4>. QED
        BY ONLY <4>2, <4>3, <4>4
    <3>5. a + z = g + x /\ y = x + d /\ x \in Nat /\ z \in Nat
      BY <3>2, <3>3, <3>4
    <3>6. b + z = g + y
      <4>1. b = a + d /\ a + z = g + x /\ y = x + d
        BY <3>4, <3>5
      <4>. QED
        BY ONLY <4>1, a \in Nat, b \in Nat, d \in Nat, g \in Nat, x \in Nat, y \in Nat, z \in Nat
    <3>. QED
      BY <3>1, <3>4, <3>6
  <2>12. ~t.read => SameBlocks(h[m], t)
    BY <2>2, <2>3, <2>8 DEF TakesAll, SameBlocks
  <2>13. h[m].read => t.read
    BY <2>2, <2>3, <2>7, <2>9 DEF TakesAll
  <2>. QED
    BY <2>1, <2>5, <2>7, <2>11, <2>12, <2>13 DEF TakesAll
<1>5. Nat \subseteq N
  <2>. HIDE DEF N
  <2>. QED
    BY <1>3, <1>4, SetInduction
<1>6. PICK k \in Nat : m + k = n
  <2>1. n - m \in Nat /\ m + (n - m) = n
    BY <1>2
  <2>. QED
    BY <2>1
<1>7. k \in N
  BY <1>5
<1>. QED
  BY <1>1, <1>6, <1>7

\* An update of a file with a scan.
LEMMA UpdateTimes ==
  ASSUME NEW old, IndexOK(old), Current(old), old.scans # <<>>, NEW words \in Seq(Words),
         NEW w, w # NL, w # HASH
  PROVE  /\ KeptTimes(IndexScans(old, words), w) = KeptTimes(old, w) + Times(words, w)
         /\ ~IndexScans(old, words).read => SameBlocks(old, IndexScans(old, words))
<1>1. PICK chunks \in Seq(Lines) : chunks = Chunks(words)
  BY ChunksAreChunks DEF Lines
<1>2. PICK h \in [0..Len(chunks) -> {t \in Index : IndexOK(t) /\ Keeps(old, t)}] :
            /\ h[0] = Resumed(old) /\ IndexScans(old, words) = End(h[Len(chunks)])
            /\ \A i \in 1..Len(chunks) : h[i] = AddChunk(h[i - 1], chunks[i])
  BY <1>1, IndexTrace
<1>3. Adding(chunks, h) /\ (\A i \in 0..Len(chunks) : IndexOK(h[i]))
  BY <1>2 DEF Adding
<1>4. 0 \in 0..Len(chunks) /\ Len(chunks) \in 0..Len(chunks)
  OBVIOUS
<1>5. old \in Index
  BY DEF IndexOK
<1>6. h[0].fb[1] # "none" /\ ~h[0].read /\ KeptTimes(h[0], w) = KeptTimes(old, w)
      /\ SameBlocks(old, h[0])
  <2>1. /\ h[0].scans = old.scans /\ h[0].headers = old.headers /\ h[0].fb[1] = "scan"
        /\ h[0].read = FALSE /\ h[0].ignored = old.ignored
    BY <1>2, <1>5 DEF Resumed, Index
  <2>. QED
    BY <2>1 DEF KeptTimes, BlockTimes, SameBlocks
<1>7. PICK t \in Index : t = h[Len(chunks)]
  BY <1>2, <1>4
<1>8. TakesAll(chunks, h, 0, Len(chunks), w)
  BY <1>3, <1>4, <1>6, TraceTimes
<1>9. Times(AllOf(SubSeq(chunks, 1, 0)), w) = 0
  <2>1. SubSeq(chunks, 1, 0) = <<>>
    BY SubSeqStep
  <2>2. Joined(<<>>) = <<>>
    <3>1. Joined(<<>>) \in Seq({}) /\ Len(Joined(<<>>)) = 0
      BY DEF Joined
    <3>. QED
      BY <3>1, EmptySeq
  <2>. QED
    BY <2>1, <2>2, FlattenNone, TimesNone DEF AllOf
<1>10. Times(AllOf(SubSeq(chunks, 1, Len(chunks))), w) = Times(words, w)
  BY <1>1, SubSeqStep, ChunksTimes
<1>11. /\ KeptTimes(t, w) = KeptTimes(old, w) + Times(words, w)
       /\ ~t.read => SameBlocks(old, t)
  BY <1>6, <1>7, <1>8, <1>9, <1>10, BlocksOfIndex DEF TakesAll, SameBlocks
<1>12. KeptTimes(End(t), w) = KeptTimes(t, w) /\ End(t).read = t.read /\ SameBlocks(t, End(t))
  BY EndTimes
<1>. QED
  BY <1>2, <1>7, <1>11, <1>12 DEF SameBlocks

(***************************************************************************)
(* How a file begins: with the lines of its first header.                  *)
(***************************************************************************)
\* The first two lines of l are "#f" and "#e".
Begins(l, f, e) == Len(l) >= 2 /\ l[1] = <<HASH, f>> /\ l[2] = <<HASH, e>>

LEMMA AddWordLast ==
  ASSUME NEW S, NEW f \in Seq(Seq(S)), NEW y \in Seq(S), NEW x \in S
  PROVE  AddWord(Append(f, y), x) = IF x = NL THEN Append(Append(f, y), <<>>) ELSE Append(f, Append(y, x))
<1>1. PICK Y, z : Y = Seq(S) /\ z = Append(y, x)
  OBVIOUS
<1>2. f \in Seq(Y) /\ y \in Y /\ z \in Y
  BY <1>1
<1>3. PICK l : l = Append(f, y)
  OBVIOUS
<1>4. PICK n \in Nat : n = Len(f)
  BY <1>2
<1>5. l \in Seq(Y) /\ Len(l) = n + 1 /\ l[n + 1] = y /\ \A i \in 1..n : l[i] = f[i]
  BY <1>2, <1>3, <1>4
<1>6. PICK k : k = [l EXCEPT ![n + 1] = z]
  OBVIOUS
<1>7. k \in Seq(Y) /\ Len(k) = n + 1 /\ \A i \in 1..(n + 1) : k[i] = IF i = n + 1 THEN z ELSE l[i]
  <2>1. n + 1 \in 1..Len(l)
    BY <1>5
  <2>2. k \in Seq(Y) /\ Len(k) = Len(l)
    BY <1>2, <1>5, <1>6, <2>1, ExceptSeq
  <2>3. DOMAIN l = 1..(n + 1)
    BY <1>5
  <2>. QED
    BY <1>5, <1>6, <2>2, <2>3
<1>8. PICK m : m = Append(f, z)
  OBVIOUS
<1>9. m \in Seq(Y) /\ Len(m) = n + 1 /\ m[n + 1] = z /\ \A i \in 1..n : m[i] = f[i]
  BY <1>2, <1>4, <1>8
<1>10. ASSUME NEW i \in 1..(n + 1) PROVE k[i] = m[i]
  <2>1. CASE i \in 1..n
    BY <1>5, <1>7, <1>9, <2>1
  <2>2. CASE i = n + 1
    BY <1>7, <1>9, <2>2
  <2>3. i \in 1..n \/ i = n + 1
    OBVIOUS
  <2>. QED
    BY <2>1, <2>2, <2>3
<1>11. k = m
  BY <1>7, <1>9, <1>10, SeqEqual
<1>12. AddWord(l, x) = IF x = NL THEN Append(l, <<>>) ELSE k
  BY <1>1, <1>5, <1>6 DEF AddWord
<1>. QED
  BY <1>1, <1>3, <1>8, <1>11, <1>12

LEMMA AppendAt ==
  ASSUME NEW S, NEW a \in Seq(S), NEW x \in S, NEW n \in Nat, Len(a) = n, NEW k, k = n + 1
  PROVE  /\ Append(a, x) \in Seq(S) /\ Len(Append(a, x)) = k
         /\ Append(a, x)[k] = x /\ \A i \in 1..n : Append(a, x)[i] = a[i]
OBVIOUS

LEMMA TwoWords ==
  ASSUME NEW S, NEW x \in S, NEW y \in S
  PROVE  Append(Append(<<>>, x), y) = <<x, y>>
<1>1. PICK a : a = Append(<<>>, x)
  OBVIOUS
<1>2. a \in Seq(S) /\ Len(a) = 1 /\ a[1] = x
  BY <1>1
<1>3. PICK b : b = Append(a, y)
  OBVIOUS
<1>4. b \in Seq(S) /\ Len(b) = 2 /\ b[1] = x /\ b[2] = y
  <2>1. 1 \in Nat /\ 2 = 1 + 1 /\ 1 \in 1..1
    OBVIOUS
  <2>. QED
    BY <1>2, <1>3, <2>1, AppendAt
<1>5. PICK c : c = <<x, y>>
  OBVIOUS
<1>6. c \in Seq(S) /\ Len(c) = 2 /\ c[1] = x /\ c[2] = y
  BY <1>5
<1>7. \A i \in 1..2 : b[i] = c[i]
  BY <1>4, <1>6
<1>8. b = c
  BY <1>4, <1>6, <1>7, SeqEqual
<1>. QED
  BY <1>1, <1>3, <1>5, <1>8

\* One word more in the last line.
LEMMA WordAdded ==
  ASSUME NEW S, NEW f \in Seq(Seq(S)), NEW y \in Seq(S), NEW x \in S, x # NL
  PROVE  AddWord(Append(f, y), x) = Append(f, Append(y, x)) /\ Append(y, x) \in Seq(S)
<1>1. AddWord(Append(f, y), x) = Append(f, Append(y, x))
  BY AddWordLast
<1>. QED
  BY <1>1

LEMMA LineEnded ==
  ASSUME NEW S, NEW l \in Seq(Seq(S)), NEW k, k = AddWord(l, NL)
  PROVE  k = Append(l, <<>>) /\ k \in Seq(Seq(S))
<1>1. PICK Y, e : Y = Seq(S) /\ e = <<>>
  OBVIOUS
<1>2. l \in Seq(Y) /\ e \in Y
  BY <1>1
<1>3. Append(l, e) \in Seq(Y)
  BY <1>2
<1>4. k = Append(l, e)
  BY <1>1 DEF AddWord
<1>. QED
  BY <1>1, <1>3, <1>4

\* Two words and the end of the line.
LEMMA LineAdded ==
  ASSUME NEW S, HASH \in S, NEW f \in Seq(Seq(S)), NEW x \in S, x # NL,
         NEW line, line = <<HASH, x>>
  PROVE  /\ Append(f, line) \in Seq(Seq(S))
         /\ AddWord(AddWord(AddWord(Append(f, <<>>), HASH), x), NL) = Append(Append(f, line), <<>>)
<1>0. PICK h0, h1, h2, h3 : /\ h0 = Append(f, <<>>) /\ h1 = AddWord(h0, HASH)
                            /\ h2 = AddWord(h1, x) /\ h3 = AddWord(h2, NL)
  OBVIOUS
<1>1. HASH # NL
  BY DEF HASH, NL, W
<1>2. PICK no \in Seq(S) : no = <<>>
  <2>1. <<>> \in Seq(S)
    OBVIOUS
  <2>. QED
    BY <2>1
<1>3. PICK a \in Seq(S) : a = Append(no, HASH) /\ h1 = Append(f, a)
  <2>1. h1 = AddWord(Append(f, no), HASH)
    BY <1>0, <1>2
  <2>2. AddWord(Append(f, no), HASH) = Append(f, Append(no, HASH)) /\ Append(no, HASH) \in Seq(S)
    BY <1>1, WordAdded
  <2>. QED
    BY <2>1, <2>2
<1>4. PICK b \in Seq(S) : b = Append(a, x) /\ h2 = Append(f, b)
  <2>1. h2 = AddWord(Append(f, a), x)
    BY <1>0, <1>3
  <2>2. AddWord(Append(f, a), x) = Append(f, Append(a, x)) /\ Append(a, x) \in Seq(S)
    BY WordAdded
  <2>. QED
    BY <2>1, <2>2
<1>5. b = line
  <2>1. b = Append(Append(<<>>, HASH), x)
    BY <1>2, <1>3, <1>4
  <2>. QED
    BY <2>1, TwoWords
<1>6. Append(f, b) \in Seq(Seq(S))
  <2>1. PICK Y : Y = Seq(S)
    OBVIOUS
  <2>2. f \in Seq(Y) /\ b \in Y
    BY <2>1
  <2>3. Append(f, b) \in Seq(Y)
    BY <2>2
  <2>. QED
    BY <2>1, <2>3
<1>7. h3 = Append(h2, <<>>)
  BY <1>0, <1>4, <1>6, LineEnded
<1>. QED
  BY <1>0, <1>4, <1>5, <1>6, <1>7

LEMMA LinesBegin ==
  ASSUME NEW S, NEW words \in Seq(S), Len(words) >= 6, NEW f, NEW e, f # NL, e # NL,
         words[1] = HASH, words[2] = f, words[3] = NL, words[4] = HASH, words[5] = e, words[6] = NL
  PROVE  Begins(LinesOf(words), f, e)
<1>1. PICK h \in [0..Len(words) -> {l \in Seq(Seq(S)) : l # <<>>}] :
            /\ h[0] = << <<>> >> /\ LinesOf(words) = h[Len(words)]
            /\ \A i \in 1..Len(words) : h[i] = AddWord(h[i - 1], words[i])
  BY LinesTrace
<1>2. PICK n \in Nat : n = Len(words) /\ n >= 6
  OBVIOUS
<1>3. /\ h[1] = AddWord(h[0], HASH) /\ h[2] = AddWord(h[1], f) /\ h[3] = AddWord(h[2], NL)
      /\ h[4] = AddWord(h[3], HASH) /\ h[5] = AddWord(h[4], e) /\ h[6] = AddWord(h[5], NL)
      /\ HASH \in S /\ f \in S /\ e \in S
  <2>1. 1 \in 1..n /\ 2 \in 1..n /\ 3 \in 1..n /\ 4 \in 1..n /\ 5 \in 1..n /\ 6 \in 1..n
    BY <1>2
  <2>2. /\ h[1] = AddWord(h[1 - 1], words[1]) /\ h[2] = AddWord(h[2 - 1], words[2])
        /\ h[3] = AddWord(h[3 - 1], words[3]) /\ h[4] = AddWord(h[4 - 1], words[4])
        /\ h[5] = AddWord(h[5 - 1], words[5]) /\ h[6] = AddWord(h[6 - 1], words[6])
    BY ONLY <1>1, <1>2, <2>1
  <2>3. /\ words[1] \in S /\ words[2] \in S /\ words[5] \in S
    BY <1>2, <2>1
  <2>. QED
    BY <2>2, <2>3
<1>4. PICK none \in Seq(Seq(S)) : none = <<>> /\ h[0] = Append(none, <<>>)
  <2>1. <<>> \in Seq(Seq(S)) /\ << <<>> >> = Append(<<>>, <<>>)
    OBVIOUS
  <2>. QED
    BY <1>1, <2>1
<1>5. PICK a, b : a = <<HASH, f>> /\ b = <<HASH, e>>
  OBVIOUS
<1>6. PICK first \in Seq(Seq(S)) : first = Append(none, a) /\ h[3] = Append(first, <<>>)
  <2>1. h[3] = AddWord(AddWord(AddWord(Append(none, <<>>), HASH), f), NL)
    BY ONLY <1>3, <1>4
  <2>2. /\ Append(none, a) \in Seq(Seq(S))
        /\ AddWord(AddWord(AddWord(Append(none, <<>>), HASH), f), NL) = Append(Append(none, a), <<>>)
    BY <1>3, <1>5, LineAdded
  <2>. QED
    BY <2>1, <2>2
<1>7. PICK second \in Seq(Seq(S)) : second = Append(first, b) /\ h[6] = Append(second, <<>>)
  <2>1. h[6] = AddWord(AddWord(AddWord(Append(first, <<>>), HASH), e), NL)
    BY ONLY <1>3, <1>6
  <2>2. /\ Append(first, b) \in Seq(Seq(S))
        /\ AddWord(AddWord(AddWord(Append(first, <<>>), HASH), e), NL) = Append(Append(first, b), <<>>)
    BY SMTT(30), <1>3, <1>5, LineAdded
  <2>. QED
    BY <2>1, <2>2
<1>14. Begins(h[6], f, e) /\ Len(h[6]) >= 3
  <2>0. PICK Y, none2, g1, g2, no : /\ Y = Seq(S) /\ none2 = none /\ g1 = first /\ g2 = second
                                   /\ no = <<>>
    OBVIOUS
  <2>1. a \in Y /\ b \in Y /\ no \in Y
    BY <1>3, <1>5, <2>0
  <2>2. none2 = <<>> /\ g1 = Append(none2, a) /\ g2 = Append(g1, b)
    BY <1>4, <1>6, <1>7, <2>0
  <2>3. g1 \in Seq(Y) /\ Len(g1) = 1 /\ g1[1] = a
    BY <2>1, <2>2
  <2>4. g2 \in Seq(Y) /\ Len(g2) = 2 /\ g2[1] = a /\ g2[2] = b
    BY <2>1, <2>2, <2>3
  <2>5. PICK c : c = Append(g2, no)
    OBVIOUS
  <2>6. Len(c) = 3 /\ c[1] = a /\ c[2] = b
    <3>1. 2 \in Nat /\ 3 = 2 + 1 /\ 1 \in 1..2 /\ 2 \in 1..2
      OBVIOUS
    <3>2. /\ Len(Append(g2, no)) = 3
          /\ \A i \in 1..2 : Append(g2, no)[i] = g2[i]
      <4>1. PICK d, S1, y : d = g2 /\ S1 = Y /\ y = no
        OBVIOUS
      <4>2. PICK n2 \in Nat : n2 = 2
        OBVIOUS
      <4>3. d \in Seq(S1) /\ y \in S1 /\ Len(d) = n2
        BY ONLY <2>1, <2>4, <4>1, <4>2
      <4>4. Len(Append(d, y)) = n2 + 1 /\ \A i \in 1..n2 : Append(d, y)[i] = d[i]
        BY ONLY <4>3, AppendAt
      <4>. QED
        BY ONLY <4>1, <4>2, <4>4
    <3>. QED
      BY ONLY <2>4, <2>5, <3>1, <3>2
  <2>. QED
    BY <1>5, <1>7, <2>0, <2>5, <2>6 DEF Begins
<1>. DEFINE Good(i) == Begins(h[i], f, e) /\ Len(h[i]) >= 3
            N == {k \in Nat : k + 6 \in 0..n => Good(k + 6)}
<1>15. 0 \in N
  BY <1>14
<1>16. ASSUME NEW k \in Nat, k \in N PROVE k + 1 \in N
  <2>. SUFFICES ASSUME (k + 1) + 6 \in 0..n PROVE Good((k + 1) + 6)
    OBVIOUS
  <2>1. PICK i \in Nat : i = k + 6 /\ i + 1 = (k + 1) + 6 /\ i \in 0..n /\ i + 1 \in 1..n
                         /\ (i + 1) - 1 = i
    OBVIOUS
  <2>2. Begins(h[i], f, e) /\ Len(h[i]) >= 3
    BY <1>16, <2>1
  <2>. HIDE DEF Good, N
  <2>3. PICK Y : Y = Seq(S)
    OBVIOUS
  <2>4. PICK l \in Seq(Y), x \in S : l = h[i] /\ l # <<>> /\ x = words[i + 1]
    <3>1. h[i] \in Seq(Seq(S)) /\ h[i] # <<>>
      BY <1>1, <1>2, <2>1
    <3>2. words[i + 1] \in S
      BY <1>2, <2>1
    <3>. QED
      BY <2>3, <3>1, <3>2
  <2>5. h[i + 1] = AddWord(l, x)
    BY <1>1, <1>2, <2>1, <2>4
  <2>6. PICK t : t = AddWord(l, x)
    OBVIOUS
  <2>7. Len(t) >= 3 /\ t[1] = l[1] /\ t[2] = l[2]
    <3>1. Len(l) \in Nat /\ Len(l) >= 3
      BY <2>2, <2>4
    <3>2. CASE x = NL
      <4>1. t = Append(l, <<>>)
        BY <2>6, <3>2 DEF AddWord
      <4>. QED
        BY <3>1, <4>1
    <3>3. CASE x # NL
      <4>1. t = [l EXCEPT ![Len(l)] = Append(@, x)]
        BY <2>6, <3>3 DEF AddWord
      <4>2. DOMAIN t = DOMAIN l /\ t[1] = l[1] /\ t[2] = l[2]
        BY <3>1, <4>1
      <4>3. Len(t) = Len(l)
        BY <4>1, <4>2
      <4>. QED
        BY <3>1, <4>2, <4>3
    <3>. QED
      BY <3>2, <3>3
  <2>8. Begins(t, f, e)
    BY <2>2, <2>4, <2>7 DEF Begins
  <2>. QED
    BY <2>1, <2>5, <2>6, <2>7, <2>8 DEF Good
<1>17. Nat \subseteq N
  <2>. HIDE DEF N
  <2>. QED
    BY <1>15, <1>16, SetInduction
<1>18. n - 6 \in N /\ (n - 6) + 6 = n /\ n \in 0..n
  <2>1. n - 6 \in Nat
    BY <1>2
  <2>. HIDE DEF N
  <2>. QED
    BY <1>17, <2>1
<1>19. Begins(h[n], f, e)
  BY <1>18
<1>. QED
  BY <1>1, <1>2, <1>19

\* The first chunk is the line "#f", the second begins with the line "e".
Starts(c, f, e) == Len(c) >= 2 /\ c[1] = << <<HASH, f>> >> /\ c[2] # <<>> /\ c[2][1] = <<e>>

LEMMA LineAfter ==
  ASSUME NEW S, NEW c \in Seq(Seq(Seq(S))), NEW y \in Seq(S), NEW f, NEW e, Starts(c, f, e)
  PROVE  Starts(AddLine(c, y), f, e)
<1>1. PICK X, n : X = Seq(Seq(S)) /\ n = Len(c) /\ n \in Nat /\ c \in Seq(X)
  OBVIOUS
<1>2. n >= 2 /\ c[1] = << <<HASH, f>> >> /\ c[2] # <<>> /\ c[2][1] = <<e>>
  BY <1>1 DEF Starts
<1>3. c # <<>> /\ 1 \in 1..n /\ 2 \in 1..n /\ n \in 1..n
  BY <1>1, <1>2
<1>4. PICK t : t = AddLine(c, y)
  OBVIOUS
<1>5. CASE y # <<>> /\ y[1] = HASH
  <2>1. PICK x : x = <<Tail(y)>>
    OBVIOUS
  <2>2. t = Append(c, x)
    BY <1>3, <1>4, <1>5, <2>1 DEF AddLine
  <2>3. x \in X
    <3>1. PICK Y : Y = Seq(S)
      OBVIOUS
    <3>2. Tail(y) \in Y
      BY <1>5, <3>1
    <3>3. <<Tail(y)>> \in Seq(Y)
      BY <3>2
    <3>. QED
      BY <1>1, <2>1, <3>1, <3>3
  <2>4. Len(t) = n + 1 /\ t[1] = c[1] /\ t[2] = c[2]
    BY ONLY <1>1, <1>3, <2>2, <2>3, AppendAt
  <2>5. Starts(t, f, e)
    BY <1>1, <1>2, <2>4 DEF Starts
  <2>. QED
    BY <1>4, <2>5
<1>6. CASE ~(y # <<>> /\ y[1] = HASH)
  <2>1. PICK z : z = Append(c[n], y)
    OBVIOUS
  <2>2. t = [c EXCEPT ![n] = z]
    BY <1>1, <1>3, <1>4, <1>6, <2>1 DEF AddLine
  <2>3. Len(t) = n /\ t[1] = (IF n = 1 THEN z ELSE c[1]) /\ t[2] = (IF n = 2 THEN z ELSE c[2])
    BY <1>1, <1>3, <2>2
  <2>4. n = 2 => z # <<>> /\ z[1] = <<e>>
    <3>1. SUFFICES ASSUME n = 2 PROVE z # <<>> /\ z[1] = <<e>>
      OBVIOUS
    <3>2. PICK Y, d : Y = Seq(S) /\ d \in Seq(Y) /\ d = c[2]
      <4>1. c[2] \in Seq(Seq(S))
        BY <1>1, <1>3
      <4>. QED
        BY <4>1
    <3>3. PICK m \in Nat : m = Len(d)
      BY <3>2
    <3>4. 1 \in 1..m /\ d # <<>>
      BY <1>2, <3>2, <3>3, EmptySeq
    <3>5. z = Append(d, y) /\ y \in Y
      BY <2>1, <3>1, <3>2
    <3>6. Len(z) = m + 1 /\ z[1] = d[1]
      BY ONLY <3>2, <3>3, <3>4, <3>5, AppendAt
    <3>. QED
      BY <1>2, <3>2, <3>6
  <2>5. t[1] = c[1] /\ t[2] # <<>> /\ t[2][1] = <<e>> /\ Len(t) >= 2
    <3>0. n \in Nat /\ n >= 2
      BY <1>1, <1>2
    <3>1. n # 1 /\ Len(t) >= 2 /\ t[1] = c[1]
      <4>1. n # 1
        BY ONLY <3>0
      <4>2. Len(t) = n
        BY <2>3
      <4>3. t[1] = c[1]
        BY ONLY <2>3, <4>1
      <4>. QED
        BY ONLY <3>0, <4>1, <4>2, <4>3
    <3>2. CASE n = 2
      BY ONLY <2>3, <2>4, <3>1, <3>2
    <3>3. CASE n # 2
      BY ONLY <1>2, <2>3, <3>1, <3>3
    <3>. QED
      BY <3>2, <3>3
  <2>6. Starts(t, f, e)
    BY <1>2, <2>5 DEF Starts
  <2>. QED
    BY <1>4, <2>6
<1>. QED
  BY <1>5, <1>6

LEMMA FirstChunks ==
  ASSUME NEW f, NEW e
  PROVE  Starts(AddLine(AddLine(<<>>, <<HASH, f>>), <<HASH, e>>), f, e)
<1>1. PICK a, b, one, two : /\ a = <<HASH, f>> /\ b = <<HASH, e>>
                            /\ one = << <<a>> >> /\ two = << <<a>>, << <<e>> >> >>
  OBVIOUS
<1>2. AddLine(<<>>, a) = one
  BY <1>1 DEF AddLine
<1>3. Tail(b) = <<e>> /\ b # <<>> /\ b[1] = HASH
  BY <1>1
<1>4. Append(one, << <<e>> >>) = two /\ one # <<>>
  <2>1. PICK x, y, S : x = <<a>> /\ y = << <<e>> >> /\ S = {x, y}
    OBVIOUS
  <2>2. Append(Append(<<>>, x), y) = <<x, y>>
    BY <2>1, TwoWords
  <2>3. <<>> \in Seq(S) /\ x \in S
    BY <2>1
  <2>4. Append(<<>>, x) = <<x>>
    BY <2>3
  <2>. QED
    BY <1>1, <2>1, <2>2, <2>4
<1>5. AddLine(one, b) = two
  BY <1>3, <1>4 DEF AddLine
<1>6. Len(two) = 2 /\ two[1] = <<a>> /\ two[2] # <<>> /\ two[2][1] = <<e>>
  BY <1>1
<1>7. Starts(two, f, e)
  BY <1>1, <1>6 DEF Starts
<1>8. AddLine(AddLine(<<>>, a), b) = two
  BY <1>2, <1>5, Zenon
<1>. QED
  BY <1>1, <1>7, <1>8, Zenon

LEMMA ChunksBegin ==
  ASSUME NEW S, NEW words \in Seq(S), NEW f, NEW e, Begins(LinesOf(words), f, e)
  PROVE  Starts(Chunks(words), f, e)
<1>1. PICK lines \in Seq(Seq(S)) : lines = LinesOf(words)
  BY LinesAreLines
<1>2. PICK h \in [0..Len(lines) -> Seq(Seq(Seq(S)))] :
            /\ h[0] = <<>> /\ Chunks(words) = h[Len(lines)]
            /\ \A i \in 1..Len(lines) : h[i] = AddLine(h[i - 1], lines[i])
  BY SMTT(30), <1>1, ChunksTrace
<1>3. PICK n \in Nat : n = Len(lines) /\ n >= 2
  BY <1>1 DEF Begins
<1>4. lines[1] = <<HASH, f>> /\ lines[2] = <<HASH, e>>
  BY <1>1 DEF Begins
<1>5. Starts(h[2], f, e)
  <2>1. 1 \in 1..n /\ 2 \in 1..n
    BY <1>3
  <2>2. h[1] = AddLine(h[1 - 1], lines[1]) /\ h[2] = AddLine(h[2 - 1], lines[2])
    BY ONLY <1>2, <1>3, <2>1
  <2>3. h[2] = AddLine(AddLine(<<>>, <<HASH, f>>), <<HASH, e>>)
    BY <1>2, <1>4, <2>2
  <2>. QED
    BY <2>3, FirstChunks
<1>. DEFINE N == {k \in Nat : k + 2 \in 0..n => Starts(h[k + 2], f, e)}
<1>6. 0 \in N
  BY <1>5
<1>7. ASSUME NEW k \in Nat, k \in N PROVE k + 1 \in N
  <2>. SUFFICES ASSUME (k + 1) + 2 \in 0..n PROVE Starts(h[(k + 1) + 2], f, e)
    OBVIOUS
  <2>1. PICK i \in Nat : i = k + 2 /\ i + 1 = (k + 1) + 2 /\ i \in 0..n /\ i + 1 \in 1..n
                         /\ (i + 1) - 1 = i
    OBVIOUS
  <2>2. Starts(h[i], f, e)
    BY <1>7, <2>1
  <2>. HIDE DEF N
  <2>3. h[i] \in Seq(Seq(Seq(S))) /\ lines[i + 1] \in Seq(S)
    <3>1. PICK Y, Z : Y = Seq(S) /\ Z = Seq(Seq(Seq(S)))
      OBVIOUS
    <3>2. h \in [0..n -> Z] /\ lines \in Seq(Y)
      BY <1>2, <1>3, <3>1
    <3>3. h[i] \in Z
      BY ONLY <2>1, <3>2
    <3>4. lines[i + 1] \in Y
      <4>1. n = Len(lines)
        BY <1>3
      <4>. QED
        BY ONLY <2>1, <3>2, <4>1
    <3>. QED
      BY <3>1, <3>3, <3>4
  <2>4. h[i + 1] = AddLine(h[i], lines[i + 1])
    BY <1>2, <1>3, <2>1
  <2>. QED
    BY <2>1, <2>2, <2>3, <2>4, LineAfter
<1>8. Nat \subseteq N
  <2>. HIDE DEF N
  <2>. QED
    BY <1>6, <1>7, SetInduction
<1>9. PICK k \in Nat : k + 2 = n
  <2>1. n - 2 \in Nat /\ (n - 2) + 2 = n
    BY <1>3
  <2>. QED
    BY <2>1
<1>10. k \in N /\ n \in 0..n
  BY <1>8
<1>. QED
  BY <1>2, <1>3, <1>9, <1>10

(***************************************************************************)
(* Opening a file.                                                         *)
(***************************************************************************)
NotScan == {w \in Words : w.k # "S"}

\* No chunk without a "#S" opens a scan.
LEMMA ChunkNoScan ==
  ASSUME NEW s, IndexOK(s), s.scans = <<>>, NEW chunk \in Lines, chunk \in Seq(Seq(NotScan))
  PROVE  AddChunk(s, chunk).scans = <<>>
<1>0. s \in Index
  BY DEF IndexOK
<1>1. CASE IsBlank(chunk)
  BY <1>1 DEF AddChunk
<1>3. CASE ~IsBlank(chunk) /\ Dropped(chunk)
  BY <1>0, <1>3, DroppedFacts
<1>2. CASE ~IsBlank(chunk) /\ ~Dropped(chunk)
  <2>1. PICK a : a = IF Opens(chunk) THEN Block(End(s), chunk[1][1]) ELSE s
    OBVIOUS
  <2>2. IndexOK(a) /\ a.scans = <<>>
    <3>1. CASE Opens(chunk)
      <4>1. chunk[1] \in Seq(NotScan) /\ chunk[1] # <<>>
        <5>1. chunk # <<>>
          BY <1>2 DEF IsBlank
        <5>2. 1 \in 1..Len(chunk)
          BY <5>1, EmptySeq DEF Lines
        <5>. QED
          BY <3>1, <5>2 DEF Opens
      <4>2. PICK x \in Words : x = chunk[1][1] /\ x.k # "S"
        <5>1. chunk[1][1] \in NotScan
          BY <4>1, EmptySeq
        <5>. QED
          BY <5>1 DEF NotScan
      <4>3. PICK e : e = End(s)
        OBVIOUS
      <4>4. IndexOK(e) /\ Current(e) /\ e.scans = <<>>
        BY <1>0, <4>3, EndKeeps
      <4>5. a = Block(e, x)
        BY <2>1, <3>1, <4>2, <4>3
      <4>. QED
        BY <4>2, <4>4, <4>5, BlockKeeps, NewBlockTimes
    <3>2. CASE ~Opens(chunk)
      BY <2>1, <3>2
    <3>. QED
      BY <3>1, <3>2
  <2>3. PICK t : t = AddLines(a, chunk)
    OBVIOUS
  <2>4. a \in Index /\ a.fb[1] # "scan"
    BY <2>2 DEF IndexOK
  <2>5. IndexOK(t) /\ t.scans = <<>>
    <3>1. IndexOK(t) /\ t \in Index
      BY <2>2, <2>3, AddLinesKeeps DEF IndexOK
    <3>2. a.fb[1] \in {"none", "header"}
      BY <2>4 DEF Index
    <3>3. CASE a.fb[1] = "none"
      BY <2>2, <2>3, <3>1, <3>3, AddLinesTimes
    <3>4. CASE a.fb[1] = "header"
      <4>1. PICK j, more : t = [a EXCEPT !.headers[j].lines = @ \o more]
        BY <2>3, <3>4 DEF AddLines
      <4>2. t.scans = a.scans
        BY <2>4, <4>1 DEF Index
      <4>. QED
        BY <2>2, <3>1, <4>2
    <3>. QED
      BY <3>2, <3>3, <3>4
  <2>6. AddChunk(s, chunk) = [t EXCEPT !.read = TRUE]
    BY <1>2, <2>1, <2>3 DEF AddChunk
  <2>7. t \in Index
    BY <2>5 DEF IndexOK
  <2>. QED
    BY <2>5, <2>6, <2>7 DEF Index
<1>. QED
  BY <1>1, <1>2, <1>3

LEMMA WordsNoScan ==
  ASSUME NEW words \in Seq(Words), words \in Seq(NotScan)
  PROVE  IndexScans(NoIndex, words).scans = <<>>
<1>0. IndexOK(NoIndex) /\ Current(NoIndex)
  BY NoIndexOK
<1>1. PICK chunks \in Seq(Lines) : chunks = Chunks(words)
  BY ChunksAreChunks DEF Lines
<1>2. chunks \in Seq(Seq(Seq(NotScan)))
  BY <1>1, ChunksAreChunks
<1>3. PICK h \in [0..Len(chunks) -> {t \in Index : IndexOK(t) /\ Keeps(NoIndex, t)}] :
            /\ h[0] = Resumed(NoIndex) /\ IndexScans(NoIndex, words) = End(h[Len(chunks)])
            /\ \A i \in 1..Len(chunks) : h[i] = AddChunk(h[i - 1], chunks[i])
  BY <1>0, <1>1, IndexTrace
<1>4. PICK n \in Nat : n = Len(chunks)
  OBVIOUS
<1>5. /\ \A i \in 0..n : IndexOK(h[i])
      /\ \A i \in 1..n : chunks[i] \in Lines /\ chunks[i] \in Seq(Seq(NotScan))
                         /\ h[i] = AddChunk(h[i - 1], chunks[i])
  <2>1. PICK Y : Y = Seq(Seq(NotScan))
    OBVIOUS
  <2>2. \A i \in 1..n : chunks[i] \in Lines /\ chunks[i] \in Y
    BY <1>2, <1>4, <2>1
  <2>. QED
    BY <1>3, <1>4, <2>1, <2>2
<1>. DEFINE N == {i \in Nat : i \in 0..n => h[i].scans = <<>>}
<1>6. 0 \in N
  BY <1>3 DEF Resumed, NoIndex
<1>7. ASSUME NEW i \in Nat, i \in N PROVE i + 1 \in N
  <2>. SUFFICES ASSUME i + 1 \in 0..n PROVE h[i + 1].scans = <<>>
    OBVIOUS
  <2>1. i \in 0..n /\ i + 1 \in 1..n /\ (i + 1) - 1 = i
    BY <1>4
  <2>2. h[i].scans = <<>> /\ IndexOK(h[i])
    BY <1>5, <1>7, <2>1
  <2>3. h[i + 1] = AddChunk(h[i], chunks[i + 1]) /\ chunks[i + 1] \in Lines
        /\ chunks[i + 1] \in Seq(Seq(NotScan))
    BY <1>5, <2>1
  <2>. QED
    BY <2>2, <2>3, ChunkNoScan
<1>8. n \in N
  <2>1. Nat \subseteq N
    <3>. HIDE DEF N
    <3>. QED
      BY <1>6, <1>7, SetInduction
  <2>. QED
    BY <2>1
<1>9. n \in 0..n
  OBVIOUS
<1>10. h[n].scans = <<>>
  BY <1>8, <1>9
<1>11. End(h[n]).scans = h[n].scans
  BY <1>5, <1>9, EndKeeps
<1>. QED
  BY <1>3, <1>4, <1>10, <1>11

LEMMA NothingYet ==
  ASSUME NEW w
  PROVE  /\ KeptTimes(Resumed(NoIndex), w) = 0 /\ Resumed(NoIndex).fb[1] = "none"
<1>1. Resumed(NoIndex).scans = <<>> /\ Resumed(NoIndex).headers = <<>> /\ Resumed(NoIndex).fb = <<"none", 0>>
      /\ Resumed(NoIndex).ignored = <<>>
  BY DEF Resumed, NoIndex
<1>2. AllWords(<<>>) = <<>>
  <2>1. PICK e : e = [i \in DOMAIN <<>> |-> FlattenSeq(<<>>[i].lines)]
    OBVIOUS
  <2>2. e \in Seq({}) /\ Len(e) = 0
    BY <2>1
  <2>3. e = <<>>
    BY <2>2, EmptySeq
  <2>. QED
    BY <2>1, <2>3, FlattenNone DEF AllWords
<1>3. Times(<<>>, w) = 0
  BY TimesNone
<1>. QED
  BY <1>1, <1>2, <1>3 DEF KeptTimes, BlockTimes

\* The first reading: the first line is nobody's.
LEMMA OpenTimes ==
  ASSUME NEW words \in Seq(Words), Len(words) >= 6, NEW f, NEW e, f # NL, e # NL, e.k = "E",
         words[1] = HASH, words[2] = f, words[3] = NL, words[4] = HASH, words[5] = e, words[6] = NL,
         NEW w, w # NL, w # HASH
  PROVE  /\ KeptTimes(IndexScans(NoIndex, words), w) + Counts(f, w) = Times(words, w)
         /\ IndexScans(NoIndex, words).read = TRUE
<1>0. IndexOK(NoIndex) /\ Current(NoIndex) /\ HASH \in Words /\ f \in Words
  <2>1. words[1] \in Words /\ words[2] \in Words
    OBVIOUS
  <2>. QED
    BY <2>1, NoIndexOK
<1>1. PICK c \in Seq(Lines) : c = Chunks(words)
  BY ChunksAreChunks DEF Lines
<1>2. Starts(c, f, e)
  <2>1. Begins(LinesOf(words), f, e)
    BY LinesBegin
  <2>. QED
    BY <1>1, <2>1, ChunksBegin
<1>3. PICK h \in [0..Len(c) -> {t \in Index : IndexOK(t) /\ Keeps(NoIndex, t)}] :
            /\ h[0] = Resumed(NoIndex) /\ IndexScans(NoIndex, words) = End(h[Len(c)])
            /\ \A i \in 1..Len(c) : h[i] = AddChunk(h[i - 1], c[i])
  BY <1>0, <1>1, IndexTrace
<1>4. PICK n \in Nat : n = Len(c) /\ n >= 2
  <2>1. Len(c) >= 2
    BY <1>2, Zenon DEF Starts
  <2>2. Len(c) \in Nat
    OBVIOUS
  <2>. QED
    BY ONLY <2>1, <2>2
<1>5. Adding(c, h) /\ \A i \in 0..n : IndexOK(h[i]) /\ h[i] \in Index
  BY <1>3, <1>4 DEF Adding
<1>6. /\ 0 \in 0..n /\ 1 \in 0..n /\ 2 \in 0..n /\ n \in 0..n /\ 1 \in 1..n /\ 2 \in 1..n
      /\ 1 - 1 = 0 /\ 2 - 1 = 1 /\ 0 + 1 = 1 /\ 1 + 1 = 2
  BY <1>4
<1>7. PICK c1 \in Lines, c2 \in Lines : c1 = c[1] /\ c2 = c[2]
  BY <1>4, <1>6
<1>8. PICK h0, h1, h2, hn : h0 = h[0] /\ h1 = h[1] /\ h2 = h[2] /\ hn = h[n]
  OBVIOUS
<1>9. /\ IndexOK(h0) /\ IndexOK(h1) /\ IndexOK(h2) /\ IndexOK(hn)
      /\ h0 \in Index /\ h1 \in Index /\ h2 \in Index /\ hn \in Index
      /\ h0 = Resumed(NoIndex) /\ IndexScans(NoIndex, words) = End(hn)
      /\ h1 = AddChunk(h0, c1) /\ h2 = AddChunk(h1, c2)
  <2>1. h[1] = AddChunk(h[1 - 1], c[1]) /\ h[2] = AddChunk(h[2 - 1], c[2])
    BY ONLY <1>3, <1>4, <1>6
  <2>. QED
    BY <1>3, <1>4, <1>5, <1>6, <1>7, <1>8, <2>1
<1>10. KeptTimes(h0, w) = 0 /\ h0.fb[1] = "none"
  BY <1>9, NothingYet
<1>11. c1 = << <<HASH, f>> >> /\ c2 # <<>> /\ c2[1] = <<e>>
  BY <1>2, <1>7 DEF Starts
<1>12. ~Ignoring(c1) /\ ~Opens(c1)
  <2>1. c1[1] = <<HASH, f>> /\ 1 \in DOMAIN c1
    BY <1>11
  <2>2. c1[1] # <<>> /\ c1[1][1] = HASH
    BY <2>1
  <2>3. HASH.k = "#"
    BY DEF HASH, W
  <2>. QED
    BY <2>1, <2>2, <2>3 DEF IsBlank, Dropped, Ignoring, Opens
<1>13. ~Ignoring(c2) /\ Opens(c2)
  <2>1. 1 \in DOMAIN c2
    BY <1>11, EmptySeq DEF Lines
  <2>2. c2[1] # <<>> /\ c2[1][1] = e
    BY <1>11
  <2>. QED
    BY <2>1, <2>2 DEF IsBlank, Dropped, Ignoring, Opens
<1>14. KeptTimes(h1, w) = 0 /\ h1.fb = h0.fb
  <2>1. ~Keeping(h0, c1)
    BY <1>10, <1>12 DEF Keeping
  <2>. QED
    BY <1>9, <1>10, <2>1, AddChunkTimes
<1>15. /\ KeptTimes(h2, w) = KeptTimes(h1, w) + Times(FlattenSeq(c2), w) /\ h2.fb[1] # "none"
       /\ h2.read = TRUE
  <2>1. Keeping(h1, c2)
    BY <1>13 DEF Keeping
  <2>2. h2.read = (h1.read \/ ~Ignoring(c2))
    BY <1>9, AddChunkTimes
  <2>3. KeptTimes(AddChunk(h1, c2), w) = KeptTimes(h1, w) + Times(FlattenSeq(c2), w)
    BY <1>9, <2>1, AddChunkTimes
  <2>4. AddChunk(h1, c2).fb[1] # "none"
    BY <1>9, <1>13, AddChunkTimes
  <2>5. h2.read = TRUE
    BY <1>13, <2>2
  <2>. QED
    BY <1>9, <2>3, <2>4, <2>5
<1>16. TakesAll(c, h, 2, n, w)
  BY <1>4, <1>5, <1>6, <1>8, <1>15, TraceTimes
<1>17. PICK a0, a1, a2, an : /\ a0 = Times(AllOf(SubSeq(c, 1, 0)), w) /\ a1 = Times(AllOf(SubSeq(c, 1, 1)), w)
                              /\ a2 = Times(AllOf(SubSeq(c, 1, 2)), w)
                              /\ an = Times(AllOf(SubSeq(c, 1, n)), w)
  OBVIOUS
<1>18. /\ a1 = a0 + Times(FlattenSeq(c1), w) /\ a2 = a1 + Times(FlattenSeq(c2), w)
       /\ a0 \in Nat /\ a1 \in Nat /\ Times(FlattenSeq(c1), w) \in Nat /\ Times(FlattenSeq(c2), w) \in Nat
  <2>0. PICK z \in Nat, o \in Nat : z = 0 /\ o = 1 /\ z + 1 \in 1..Len(c) /\ o + 1 \in 1..Len(c)
    BY <1>4, <1>6
  <2>1. /\ Times(AllOf(SubSeq(c, 1, z + 1)), w)
              = Times(AllOf(SubSeq(c, 1, z)), w) + Times(FlattenSeq(c[z + 1]), w)
        /\ Times(AllOf(SubSeq(c, 1, z)), w) \in Nat /\ Times(FlattenSeq(c[z + 1]), w) \in Nat
    BY <2>0, ChunkStep
  <2>2. /\ Times(AllOf(SubSeq(c, 1, o + 1)), w)
              = Times(AllOf(SubSeq(c, 1, o)), w) + Times(FlattenSeq(c[o + 1]), w)
        /\ Times(AllOf(SubSeq(c, 1, o)), w) \in Nat /\ Times(FlattenSeq(c[o + 1]), w) \in Nat
    BY <2>0, ChunkStep
  <2>3. z + 1 = 1 /\ o + 1 = 2
    BY <2>0
  <2>4. /\ a1 = a0 + Times(FlattenSeq(c1), w) /\ a0 \in Nat /\ Times(FlattenSeq(c1), w) \in Nat
    BY <1>7, <1>17, <2>0, <2>1, <2>3
  <2>5. /\ a2 = a1 + Times(FlattenSeq(c2), w) /\ a1 \in Nat /\ Times(FlattenSeq(c2), w) \in Nat
    BY <1>7, <1>17, <2>0, <2>2, <2>3
  <2>. QED
    BY <2>4, <2>5
<1>19. a0 = 0 /\ an = Times(words, w)
  <2>1. SubSeq(c, 1, 0) = <<>> /\ SubSeq(c, 1, n) = c
    BY <1>4, SubSeqStep
  <2>2. Joined(<<>>) = <<>>
    <3>1. Joined(<<>>) \in Seq({}) /\ Len(Joined(<<>>)) = 0
      BY DEF Joined
    <3>. QED
      BY <3>1, EmptySeq
  <2>3. Times(AllOf(<<>>), w) = 0
    BY <2>2, FlattenNone, TimesNone DEF AllOf
  <2>4. Times(AllOf(c), w) = Times(words, w)
    BY <1>1, ChunksTimes
  <2>. QED
    BY <1>17, <2>1, <2>3, <2>4
<1>20. Times(FlattenSeq(c1), w) = Counts(f, w)
  <2>0. PICK X, x, y : /\ X = Words /\ x = HASH /\ y = f /\ x \in X /\ y \in X
    BY <1>0
  <2>1. PICK l : l = <<HASH, f>> /\ l \in Seq(Words)
    <3>1. <<x, y>> \in Seq(X)
      BY ONLY <2>0
    <3>. QED
      BY <2>0, <3>1
  <2>2. FlattenSeq(c1) = l
    BY <1>11, <2>1, FlattenOne
  <2>3. l = Append(Append(<<>>, HASH), f)
    BY <1>0, <2>1, TwoWords
  <2>4. PICK one, none : none = <<>> /\ one = Append(none, x) /\ none \in Seq(X) /\ one \in Seq(X)
    <3>1. <<>> \in Seq(X) /\ Append(<<>>, x) \in Seq(X)
      BY ONLY <2>0
    <3>. QED
      BY <3>1
  <2>5. Times(one, w) = Times(none, w) + Counts(x, w)
    <3>1. none \in Seq(X) /\ x \in X
      BY <2>0, <2>4
    <3>2. Times(Append(none, x), w) = Times(none, w) + Counts(x, w)
      BY ONLY <3>1, TimesAppend
    <3>. QED
      BY <2>4, <3>2
  <2>6. Times(Append(one, y), w) = Times(one, w) + Counts(y, w)
    <3>1. one \in Seq(X) /\ y \in X
      BY <2>0, <2>4
    <3>. QED
      BY ONLY <3>1, TimesAppend
  <2>7. Counts(x, w) = 0 /\ Counts(f, w) \in Nat /\ Times(none, w) = 0
    BY <2>0, <2>4, TimesNone DEF Counts
  <2>8. Times(one, w) = 0
    BY <2>5, <2>7
  <2>. QED
    BY <2>0, <2>2, <2>3, <2>4, <2>6, <2>7, <2>8
<1>21. KeptTimes(hn, w) + a2 = KeptTimes(h2, w) + an /\ hn.read
  BY <1>8, <1>15, <1>16, <1>17 DEF TakesAll
<1>22. KeptTimes(hn, w) \in Nat /\ KeptTimes(h2, w) \in Nat /\ Times(words, w) \in Nat /\ Counts(f, w) \in Nat
  BY <1>9, BlocksOfIndex, TimesNat DEF Counts
<1>23. KeptTimes(hn, w) + Counts(f, w) = Times(words, w)
  <2>1. PICK x \in Nat, y \in Nat, z \in Nat, v \in Nat, u \in Nat :
          /\ x = KeptTimes(hn, w) /\ y = KeptTimes(h2, w) /\ z = Times(words, w) /\ v = Counts(f, w)
          /\ u = Times(FlattenSeq(c2), w)
    BY <1>18, <1>22
  <2>2. a1 = v
    BY <1>18, <1>19, <1>20, <2>1
  <2>3. a2 = v + u /\ y = u /\ an = z
    BY <1>14, <1>15, <1>18, <1>19, <2>1, <2>2
  <2>4. x + (v + u) = u + z
    BY <1>21, <2>1, <2>3
  <2>5. x + v = z
    BY ONLY <2>4, x \in Nat, z \in Nat, v \in Nat, u \in Nat
  <2>. QED
    BY <2>1, <2>5
<1>24. KeptTimes(End(hn), w) = KeptTimes(hn, w) /\ End(hn).read = hn.read
  BY <1>9, EndTimes
<1>25. hn.read \in BOOLEAN
  BY <1>9 DEF Index
<1>. QED
  BY <1>9, <1>21, <1>23, <1>24, <1>25

(***************************************************************************)
(* How the text begins, and its parts.                                     *)
(***************************************************************************)
\* A sequence that joins two, and a part of one.
Joining(c, S, a, b, n, k) ==
    /\ c \in Seq(S) /\ Len(c) = n + k /\ n \in Nat /\ k \in Nat
    /\ \A i \in 1..n : c[i] = a[i]
    /\ \A i \in 1..k : c[n + i] = b[i]
PartOf(x, S, a, n, k) == x \in Seq(S) /\ Len(x) = k /\ \A i \in 1..k : x[i] = a[n + i]

LEMMA JoiningFacts ==
  ASSUME NEW S, NEW a \in Seq(S), NEW b \in Seq(S), NEW n, n = Len(a), NEW k, k = Len(b),
         NEW c, c = a \o b
  PROVE  Joining(c, S, a, b, n, k)
BY ConcatFacts DEF Joining

LEMMA PartFacts ==
  ASSUME NEW S, NEW a \in Seq(S), NEW n \in Nat, NEW k \in Nat, NEW m, m = n + k, m <= Len(a),
         NEW x, x = SubSeq(a, n + 1, m)
  PROVE  PartOf(x, S, a, n, k)
BY SubSeqFacts DEF PartOf

\* Three words, three words, and more.
Triples(t, x, y) ==
    /\ Len(t) >= 6 /\ t[1] = x[1] /\ t[2] = x[2] /\ t[3] = x[3]
    /\ t[4] = y[1] /\ t[5] = y[2] /\ t[6] = y[3]
LEMMA TwoTriples ==
  ASSUME NEW S, NEW x \in Seq(S), NEW y \in Seq(S), NEW z \in Seq(S), NEW r \in Seq(S),
         Len(x) = 3, Len(y) = 3, NEW t, t = ((x \o y) \o z) \o r
  PROVE  Triples(t, x, y)
<1>1. PICK a, b : a = x \o y /\ b = a \o z /\ t = b \o r
  OBVIOUS
<1>2. PICK n, m, k : n = Len(z) /\ m = Len(r) /\ k = 3
  OBVIOUS
<1>3. /\ a \in Seq(S) /\ Len(a) = k + k /\ \A i \in 1..k : a[i] = x[i] /\ a[k + i] = y[i]
      /\ k \in Nat
  <2>1. k = Len(x) /\ k = Len(y) /\ k \in Nat
    BY <1>2
  <2>2. Joining(a, S, x, y, k, k)
    BY <1>1, <2>1, JoiningFacts
  <2>. QED
    BY <2>2 DEF Joining
<1>4. PICK j \in Nat : j = k + k /\ j = 6
  BY <1>2
<1>5. /\ b \in Seq(S) /\ Len(b) = j + n /\ \A i \in 1..j : b[i] = a[i]
      /\ n \in Nat
  <2>1. j = Len(a) /\ n = Len(z) /\ a \in Seq(S)
    BY <1>2, <1>3, <1>4
  <2>2. Joining(b, S, a, z, j, n)
    BY <1>1, <2>1, JoiningFacts
  <2>. QED
    BY <2>2 DEF Joining
<1>6. PICK l \in Nat : l = j + n
  BY <1>5
<1>7. /\ Len(t) = l + m /\ \A i \in 1..l : t[i] = b[i]
      /\ m \in Nat
  <2>1. l = Len(b) /\ m = Len(r) /\ b \in Seq(S)
    BY <1>2, <1>5, <1>6
  <2>2. Joining(t, S, b, r, l, m)
    BY <1>1, <2>1, JoiningFacts
  <2>. QED
    BY <2>2 DEF Joining
<1>8. Len(t) >= 6
  BY ONLY <1>4, <1>5, <1>6, <1>7, j \in Nat, l \in Nat
<1>9. \A i \in 1..6 : i \in 1..l /\ i \in 1..j
  BY ONLY <1>4, <1>5, <1>6, j \in Nat, l \in Nat
<1>10. \A i \in 1..6 : t[i] = a[i]
  BY ONLY <1>5, <1>7, <1>9
<1>11. a[1] = x[1] /\ a[2] = x[2] /\ a[3] = x[3] /\ a[4] = y[1] /\ a[5] = y[2] /\ a[6] = y[3]
  <2>1. /\ 1 \in 1..k /\ 2 \in 1..k /\ 3 \in 1..k /\ k + 1 = 4 /\ k + 2 = 5 /\ k + 3 = 6
    BY <1>2
  <2>2. /\ a[1] = x[1] /\ a[2] = x[2] /\ a[3] = x[3]
        /\ a[k + 1] = y[1] /\ a[k + 2] = y[2] /\ a[k + 3] = y[3]
    BY ONLY <1>3, <2>1
  <2>. QED
    BY <2>1, <2>2
<1>12. /\ t[1] = a[1] /\ t[2] = a[2] /\ t[3] = a[3] /\ t[4] = a[4] /\ t[5] = a[5] /\ t[6] = a[6]
  <2>1. 1 \in 1..6 /\ 2 \in 1..6 /\ 3 \in 1..6 /\ 4 \in 1..6 /\ 5 \in 1..6 /\ 6 \in 1..6
    OBVIOUS
  <2>. QED
    BY ONLY <1>10, <2>1
<1>. QED
  BY <1>8, <1>11, <1>12 DEF Triples

\* The text is empty or begins with the "#F" and the "#E" of a header.
HasHeader(f, e) ==
    /\ f # NL /\ e # NL /\ f.k = "F" /\ e.k = "E" /\ Len(Text) >= 6
    /\ Text[1] = HASH /\ Text[2] = f /\ Text[3] = NL
    /\ Text[4] = HASH /\ Text[5] = e /\ Text[6] = NL

LEMMA TextStart == Text = <<>> \/ \E f, e : HasHeader(f, e)
<1>. DEFINE Block1(i) == IF i = 1 THEN Written(Plan[i]) ELSE <<NL>> \o Written(Plan[i])
            s == [i \in DOMAIN Plan |-> Block1(i)]
<1>1. PICK n \in Nat : DOMAIN Plan = 1..n /\ \A i \in 1..n : Plan[i] \in Range(Plan)
  BY SpecFileAssumption, SequenceFacts
<1>2. ASSUME NEW i \in 1..n PROVE IsSequence(Block1(i))
  <2>1. IsSequence(Written(Plan[i]))
    BY <1>1, WrittenSequence
  <2>2. IsSequence(<<NL>>)
    BY OneSequence
  <2>. QED
    BY <2>1, <2>2, ConcatSequences
<1>3. Text = FlattenSeq(s) /\ (1 \in 1..n => s[1] = Written(Plan[1]))
  BY <1>1 DEF Text
<1>. HIDE DEF Block1
<1>4. s = [i \in 1..n |-> s[i]] /\ \A i \in 1..n : IsSequence(s[i])
  BY <1>1, <1>2
<1>. HIDE DEF s
<1>5. PICK X : s \in Seq(Seq(X)) /\ Len(s) = n
  BY <1>4, SequencesOf
<1>6. CASE n = 0
  <2>1. s = <<>>
    BY <1>5, <1>6, EmptySeq
  <2>. QED
    BY <1>3, <2>1, FlattenNone
<1>7. CASE n # 0
  <2>1. s # <<>> /\ 1 \in 1..n
    BY <1>5, <1>7
  <2>2. PICK r \in Seq(X) : Text = Head(s) \o r
    <3>1. Tail(s) \in Seq(Seq(X))
      BY <1>5, <2>1
    <3>2. FlattenSeq(Tail(s)) \in Seq(X)
      BY <3>1, FlattenProperties
    <3>3. FlattenSeq(s) = Head(s) \o FlattenSeq(Tail(s))
      BY <1>5, <2>1, FlattenHead
    <3>. QED
      BY <1>3, <3>2, <3>3
  <2>3. Head(s) = Written(Plan[1])
    <3>1. Head(s) = s[1]
      BY <1>5, <2>1
    <3>. QED
      BY <1>3, <2>1, <3>1
  <2>4. Plan[1].kind = "header"
    <3>1. Plan # <<>>
      BY <1>1, <2>1
    <3>. QED
      BY <3>1, SpecFileAssumption
  <2>5. PICK f, e : f = W("F", Plan[1].file) /\ e = W("E", 0)
    OBVIOUS
  <2>6. PICK x, y, z : /\ x = <<HASH, f, NL>> /\ y = <<HASH, e, NL>>
                       /\ z = HeaderLine("O", Plan[1].names)
    OBVIOUS
  <2>7. Written(Plan[1]) = (x \o y) \o z
    BY <2>4, <2>5, <2>6 DEF Written, HeaderLine
  <2>8. PICK S : x \in Seq(S) /\ y \in Seq(S) /\ z \in Seq(S) /\ r \in Seq(S)
    <3>1. PICK Z : z \in Seq(Z)
      BY <2>6, HeaderLineSequence DEF IsSequence
    <3>2. PICK B : B = {HASH, f, e, NL}
      OBVIOUS
    <3>3. x \in Seq(B) /\ y \in Seq(B)
      BY <2>6, <3>2
    <3>4. PICK S : B \subseteq S /\ Z \subseteq S /\ X \subseteq S
      <4>1. B \subseteq B \cup Z \cup X /\ Z \subseteq B \cup Z \cup X /\ X \subseteq B \cup Z \cup X
        OBVIOUS
      <4>. QED
        BY <4>1
    <3>5. Seq(B) \subseteq Seq(S) /\ Seq(Z) \subseteq Seq(S) /\ Seq(X) \subseteq Seq(S)
      BY <3>4, SeqMonotonic
    <3>. QED
      BY <3>1, <3>3, <3>5
  <2>9. Text = ((x \o y) \o z) \o r /\ Len(x) = 3 /\ Len(y) = 3
    BY <2>2, <2>3, <2>6, <2>7
  <2>10. PICK t : t = Text
    OBVIOUS
  <2>11. /\ Len(t) >= 6 /\ t[1] = x[1] /\ t[2] = x[2] /\ t[3] = x[3]
         /\ t[4] = y[1] /\ t[5] = y[2] /\ t[6] = y[3]
    <3>1. t = ((x \o y) \o z) \o r /\ Len(x) = 3 /\ Len(y) = 3
      BY <2>9, <2>10
    <3>2. Triples(t, x, y)
      BY ONLY <2>8, <3>1, TwoTriples
    <3>. QED
      BY <3>2 DEF Triples
  <2>12. x[1] = HASH /\ x[2] = f /\ x[3] = NL /\ y[1] = HASH /\ y[2] = e /\ y[3] = NL
    BY <2>6
  <2>13. f.k = "F" /\ e.k = "E" /\ NL.k = "end of line"
    BY <2>5 DEF NL, W
  <2>14. f # NL /\ e # NL
    <3>1. "F" # "end of line" /\ "E" # "end of line"
      OBVIOUS
    <3>2. f.k # NL.k /\ e.k # NL.k
      BY ONLY <2>13, <3>1, Zenon
    <3>. QED
      BY ONLY <3>2, Zenon
  <2>15. HasHeader(f, e)
    BY <2>10, <2>11, <2>12, <2>13, <2>14, Zenon DEF HasHeader
  <2>. QED
    BY <2>15
<1>. QED
  BY <1>6, <1>7

LEMMA SubSeqSplit ==
  ASSUME NEW S, NEW a \in Seq(S), NEW i \in Nat, NEW j \in Nat, NEW k \in Nat,
         i <= j, j <= k, k <= Len(a)
  PROVE  /\ SubSeq(a, i + 1, j) \in Seq(S) /\ SubSeq(a, j + 1, k) \in Seq(S)
         /\ SubSeq(a, i + 1, k) = SubSeq(a, i + 1, j) \o SubSeq(a, j + 1, k)
<1>1. PICK p \in Nat, q \in Nat : j = i + p /\ k = j + q
  <2>1. j - i \in Nat /\ k - j \in Nat /\ j = i + (j - i) /\ k = j + (k - j)
    OBVIOUS
  <2>. QED
    BY <2>1
<1>2. PICK x, y, z : x = SubSeq(a, i + 1, i + p) /\ y = SubSeq(a, j + 1, j + q)
                     /\ z = SubSeq(a, i + 1, i + (p + q))
  OBVIOUS
<1>3. p + q \in Nat /\ i + (p + q) = k /\ i + p <= Len(a) /\ j + q <= Len(a) /\ i + (p + q) <= Len(a)
  BY <1>1
<1>4. /\ x \in Seq(S) /\ Len(x) = p /\ \A m \in 1..p : x[m] = a[i + m]
      /\ y \in Seq(S) /\ Len(y) = q /\ \A m \in 1..q : y[m] = a[j + m]
      /\ z \in Seq(S) /\ Len(z) = p + q /\ \A m \in 1..(p + q) : z[m] = a[i + m]
  <2>1. PICK u, v : u \in Nat /\ u = p + q /\ v = i + u /\ v = k /\ v <= Len(a)
    BY <1>3
  <2>2. PICK v1, v2 : v1 = i + p /\ v2 = j + q /\ v1 <= Len(a) /\ v2 <= Len(a)
    BY <1>3
  <2>3. x = SubSeq(a, i + 1, v1) /\ y = SubSeq(a, j + 1, v2) /\ z = SubSeq(a, i + 1, v)
    BY <1>2, <2>1, <2>2
  <2>4. PartOf(x, S, a, i, p) /\ PartOf(y, S, a, j, q) /\ PartOf(z, S, a, i, u)
    BY <2>1, <2>2, <2>3, PartFacts
  <2>. QED
    BY <2>1, <2>4 DEF PartOf
<1>5. PICK c : c = x \o y
  OBVIOUS
<1>6. /\ c \in Seq(S) /\ Len(c) = p + q /\ \A m \in 1..p : c[m] = x[m]
      /\ \A m \in 1..q : c[p + m] = y[m]
  <2>1. p = Len(x) /\ q = Len(y) /\ x \in Seq(S) /\ y \in Seq(S)
    BY <1>4
  <2>2. Joining(c, S, x, y, p, q)
    BY <1>5, <2>1, JoiningFacts
  <2>. QED
    BY <2>2 DEF Joining
<1>7. ASSUME NEW m \in 1..(p + q) PROVE z[m] = c[m]
  <2>1. CASE m <= p
    <3>1. m \in 1..p
      BY <2>1
    <3>. QED
      BY <1>4, <1>6, <3>1
  <2>2. CASE ~(m <= p)
    <3>1. PICK u \in 1..q : m = p + u
      <4>1. m - p \in 1..q /\ m = p + (m - p)
        BY <2>2
      <4>. QED
        BY <4>1
    <3>2. c[m] = y[u] /\ y[u] = a[j + u]
      BY <1>4, <1>6, <3>1
    <3>3. j + u = i + m
      BY <1>1, <3>1
    <3>. QED
      BY <1>4, <3>2, <3>3
  <2>. QED
    BY <2>1, <2>2
<1>8. PICK l \in Nat : l = p + q
  BY <1>3
<1>9. z = c
  BY <1>4, <1>6, <1>7, <1>8, SeqEqual
<1>. QED
  BY <1>1, <1>2, <1>3, <1>4, <1>5, <1>9

(***************************************************************************)
(* Every word is kept, at every position a read may end.                   *)
(***************************************************************************)
IsWord(w) == w # NL /\ w # HASH
KeptUpTo(s, n) ==
    /\ n \in 3..Len(Text)
    /\ \A w : IsWord(w) => KeptTimes(s, w) = Times(SubSeq(Text, 3 + 1, n), w)
Kept == pc # "closed" => KeptUpTo(index, lastpos)

LEMMA FirstPart ==
  ASSUME NEW S, NEW a \in Seq(S), NEW n \in Nat, n <= Len(a)
  PROVE  /\ SubSeq(a, 1, n) \in Seq(S) /\ Len(SubSeq(a, 1, n)) = n
         /\ \A i \in 1..n : SubSeq(a, 1, n)[i] = a[i]
OBVIOUS

\* The kinds of the first words.
LEMMA FirstKinds == HASH.k = "#" /\ NL.k = "end of line" /\ HASH # NL
<1>1. HASH.k = "#" /\ NL.k = "end of line"
  BY DEF HASH, NL, W
<1>2. "#" # "end of line"
  OBVIOUS
<1>3. HASH.k # NL.k
  BY <1>1, <1>2, Zenon
<1>. QED
  BY <1>1, <1>3, Zenon

\* Without a "#S" among them, the first words make no index.
LEMMA FirstWords ==
  ASSUME NEW n \in 0..Len(Text), IndexScans(NoIndex, SubSeq(Text, 1, n)).scans # <<>>
  PROVE  n >= 6 /\ \E f, e : HasHeader(f, e)
<1>0. /\ Text \in Seq(Words) /\ Len(Text) \in Nat /\ n \in Nat
  BY TextSequence
<1>1. PICK words \in Seq(Words) : /\ words = SubSeq(Text, 1, n) /\ Len(words) = n
                                  /\ \A i \in 1..n : words[i] = Text[i]
  <2>1. PICK a, S : a = Text /\ S = Words /\ a \in Seq(S) /\ n <= Len(a)
    BY <1>0
  <2>2. /\ SubSeq(a, 1, n) \in Seq(S) /\ Len(SubSeq(a, 1, n)) = n
        /\ \A i \in 1..n : SubSeq(a, 1, n)[i] = a[i]
    BY ONLY <1>0, <2>1, FirstPart
  <2>. QED
    BY <2>1, <2>2
<1>2. words \notin Seq(NotScan)
  BY <1>1, WordsNoScan
<1>3. Text # <<>>
  <2>1. SUFFICES ASSUME Text = <<>> PROVE FALSE
    OBVIOUS
  <2>2. n = 0
    BY <1>0, <2>1
  <2>3. words = <<>>
    BY <1>1, <2>2, EmptySeq
  <2>. QED
    BY <1>2, <2>3
<1>4. PICK f, e : HasHeader(f, e)
  BY <1>3, TextStart
<1>5. SUFFICES ASSUME ~(n >= 6) PROVE FALSE
  BY <1>4
<1>6. ASSUME NEW i \in 1..n PROVE words[i] \in NotScan
  <2>1. words[i] = Text[i] /\ words[i] \in Words
    BY <1>1
  <2>3. Text[i] \in {HASH, f, NL, e}
    <3>1. i \in {1, 2, 3, 4, 5}
      BY <1>0, <1>5
    <3>. QED
      BY <1>4, <3>1, Zenon DEF HasHeader
  <2>4. f.k = "F" /\ e.k = "E"
    BY <1>4, Zenon DEF HasHeader
  <2>5. Text[i].k # "S"
    <3>1. "#" # "S" /\ "F" # "S" /\ "end of line" # "S" /\ "E" # "S"
      OBVIOUS
    <3>2. HASH.k # "S" /\ f.k # "S" /\ NL.k # "S" /\ e.k # "S"
      BY <2>4, <3>1, FirstKinds, Zenon
    <3>. QED
      BY <2>3, <3>2, Zenon
  <2>. QED
    BY <2>1, <2>5 DEF NotScan
<1>7. words \in Seq(NotScan)
  <2>0. words \in [1..n -> Words]
    <3>1. words \in [1..Len(words) -> Words]
      OBVIOUS
    <3>. QED
      BY ONLY <1>1, <3>1
  <2>1. words \in [1..n -> NotScan]
    BY ONLY <1>6, <2>0
  <2>. QED
    BY <1>0, <2>1
<1>. QED
  BY <1>2, <1>7

LEMMA OpenKeeps ==
  ASSUME NEW n \in 0..Len(Text), NEW t, t = IndexScans(NoIndex, SubSeq(Text, 1, n)),
         t.scans # <<>>
  PROVE  t.read = TRUE /\ KeptUpTo(t, n)
<1>0. /\ Text \in Seq(Words) /\ Len(Text) \in Nat /\ n \in Nat
  BY TextSequence
<1>1. n >= 6
  BY FirstWords
<1>2. PICK f, e : HasHeader(f, e)
  BY FirstWords
<1>3. PICK words \in Seq(Words) : /\ words = SubSeq(Text, 1, n) /\ Len(words) = n
                                  /\ \A i \in 1..n : words[i] = Text[i]
  <2>1. PICK a, S : a = Text /\ S = Words /\ a \in Seq(S) /\ n <= Len(a)
    BY <1>0
  <2>2. /\ SubSeq(a, 1, n) \in Seq(S) /\ Len(SubSeq(a, 1, n)) = n
        /\ \A i \in 1..n : SubSeq(a, 1, n)[i] = a[i]
    BY ONLY <1>0, <2>1, FirstPart
  <2>. QED
    BY <2>1, <2>2
<1>4. /\ f # NL /\ e # NL /\ e.k = "E" /\ f.k = "F"
      /\ Text[1] = HASH /\ Text[2] = f /\ Text[3] = NL
      /\ Text[4] = HASH /\ Text[5] = e /\ Text[6] = NL
  BY <1>2, Zenon DEF HasHeader
<1>5. /\ words[1] = HASH /\ words[2] = f /\ words[3] = NL
      /\ words[4] = HASH /\ words[5] = e /\ words[6] = NL
  <2>1. 1 \in 1..n /\ 2 \in 1..n /\ 3 \in 1..n /\ 4 \in 1..n /\ 5 \in 1..n /\ 6 \in 1..n
    BY <1>0, <1>1
  <2>2. /\ words[1] = Text[1] /\ words[2] = Text[2] /\ words[3] = Text[3]
        /\ words[4] = Text[4] /\ words[5] = Text[5] /\ words[6] = Text[6]
    BY ONLY <1>3, <2>1, Zenon
  <2>. QED
    BY ONLY <1>4, <2>2, Zenon
<1>6. Len(words) >= 6
  BY <1>1, <1>3
<1>7. ASSUME NEW w, w # NL, w # HASH
      PROVE  KeptTimes(t, w) + Counts(f, w) = Times(words, w) /\ t.read = TRUE
  <2>1. /\ KeptTimes(IndexScans(NoIndex, words), w) + Counts(f, w) = Times(words, w)
        /\ IndexScans(NoIndex, words).read = TRUE
    BY <1>4, <1>5, <1>6, <1>7, OpenTimes, ZenonT(30)
  <2>. QED
    BY <1>3, <2>1
<1>8. t.read = TRUE
  <2>1. f # HASH
    <3>1. "F" # "#"
      OBVIOUS
    <3>. QED
      BY <1>4, <3>1, FirstKinds, Zenon
  <2>. QED
    BY <1>4, <1>7, <2>1
<1>9. PICK a \in Seq(Words), b \in Seq(Words) :
        a = SubSeq(Text, 1, 3) /\ b = SubSeq(Text, 3 + 1, n) /\ words = a \o b
  <2>1. 0 \in Nat /\ 3 \in Nat /\ 0 <= 3 /\ 3 <= n /\ n <= Len(Text)
    BY <1>0, <1>1
  <2>2. /\ SubSeq(Text, 0 + 1, 3) \in Seq(Words) /\ SubSeq(Text, 3 + 1, n) \in Seq(Words)
        /\ SubSeq(Text, 0 + 1, n) = SubSeq(Text, 0 + 1, 3) \o SubSeq(Text, 3 + 1, n)
    BY ONLY <1>0, <2>1, SubSeqSplit
  <2>3. 0 + 1 = 1
    OBVIOUS
  <2>. QED
    BY <1>3, <2>2, <2>3
<1>10. ASSUME NEW w, w # NL, w # HASH PROVE Times(a, w) = Counts(f, w)
  <2>1. PICK p1, p2, o, k2 : /\ p1 = SubSeq(Text, 1, 1) /\ p2 = SubSeq(Text, 1, 2)
                             /\ o = SubSeq(Text, 1, 0) /\ k2 = Words
    OBVIOUS
  <2>2. /\ o = <<>> /\ p1 = Append(o, HASH) /\ p2 = Append(p1, f) /\ a = Append(p2, NL)
        /\ o \in Seq(k2) /\ p1 \in Seq(k2) /\ p2 \in Seq(k2) /\ HASH \in k2 /\ f \in k2 /\ NL \in k2
    <3>1. PICK i0 \in Nat, i1 \in Nat, i2 \in Nat :
            /\ i0 = 0 /\ i1 = 1 /\ i2 = 2 /\ i0 + 1 \in 1..Len(Text) /\ i1 + 1 \in 1..Len(Text)
            /\ i2 + 1 \in 1..Len(Text) /\ i0 + 1 = 1 /\ i1 + 1 = 2 /\ i2 + 1 = 3
      BY <1>0, <1>1
    <3>2. /\ SubSeq(Text, 1, i0) \in Seq(Words) /\ Text[i0 + 1] \in Words
          /\ SubSeq(Text, 1, i0 + 1) = Append(SubSeq(Text, 1, i0), Text[i0 + 1])
          /\ SubSeq(Text, 1, i1) \in Seq(Words) /\ Text[i1 + 1] \in Words
          /\ SubSeq(Text, 1, i1 + 1) = Append(SubSeq(Text, 1, i1), Text[i1 + 1])
          /\ SubSeq(Text, 1, i2) \in Seq(Words) /\ Text[i2 + 1] \in Words
          /\ SubSeq(Text, 1, i2 + 1) = Append(SubSeq(Text, 1, i2), Text[i2 + 1])
          /\ SubSeq(Text, 1, 0) = <<>>
      BY <1>0, <3>1, SubSeqStep
    <3>. QED
      BY ONLY <1>4, <1>9, <2>1, <3>1, <3>2
  <2>3. Times(Append(o, HASH), w) = Times(o, w) + Counts(HASH, w)
    BY ONLY <2>2, TimesAppend, ZenonT(30)
  <2>4. Times(Append(p1, f), w) = Times(p1, w) + Counts(f, w)
    BY ONLY <2>2, TimesAppend, ZenonT(30)
  <2>5. Times(Append(p2, NL), w) = Times(p2, w) + Counts(NL, w)
    BY ONLY <2>2, TimesAppend, ZenonT(30)
  <2>6. Times(o, w) = 0 /\ Counts(HASH, w) = 0 /\ Counts(NL, w) = 0 /\ Counts(f, w) \in Nat
    BY <1>10, <2>2, TimesNone DEF Counts
  <2>7. Times(p1, w) = 0
    BY <2>2, <2>3, <2>6
  <2>8. Times(p2, w) = Counts(f, w)
    BY <2>2, <2>4, <2>6, <2>7
  <2>. QED
    BY <2>2, <2>5, <2>6, <2>8
<1>11. ASSUME NEW w, w # NL, w # HASH PROVE KeptTimes(t, w) = Times(b, w)
  <2>1. /\ KeptTimes(t, w) + Counts(f, w) = Times(words, w) /\ Times(a, w) = Counts(f, w)
    BY <1>7, <1>10, <1>11
  <2>2. Times(words, w) = Times(a, w) + Times(b, w) /\ Times(b, w) \in Nat /\ Counts(f, w) \in Nat
    <3>1. Times(a \o b, w) = Times(a, w) + Times(b, w)
      BY TimesConcat
    <3>2. Times(b, w) \in Nat /\ Counts(f, w) \in Nat
      BY TimesNat DEF Counts
    <3>. QED
      BY <1>9, <3>1, <3>2
  <2>3. KeptTimes(t, w) \in Nat
    <3>1. IndexOK(t)
      BY <1>3, NoIndexOK, IndexScansKeeps
    <3>. QED
      BY <3>1, BlocksOfIndex DEF IndexOK
  <2>. QED
    BY <2>1, <2>2, <2>3
<1>12. n \in 3..Len(Text)
  BY <1>0, <1>1
<1>. QED
  BY <1>8, <1>9, <1>11, <1>12 DEF KeptUpTo, IsWord

LEMMA UpdateKeeps ==
  ASSUME NEW s, IndexOK(s), Current(s), s.scans # <<>>, NEW m, KeptUpTo(s, m),
         NEW n \in 0..Len(Text), m <= n, NEW t, t = IndexScans(s, SubSeq(Text, m + 1, n))
  PROVE  /\ t.read => KeptUpTo(t, n)
         /\ ~t.read => SameBlocks(s, t)
<1>0. /\ Text \in Seq(Words) /\ Len(Text) \in Nat /\ n \in Nat /\ m \in 3..Len(Text) /\ m \in Nat
      /\ n \in 3..Len(Text)
  BY TextSequence DEF KeptUpTo
<1>1. PICK a \in Seq(Words), b \in Seq(Words) :
        a = SubSeq(Text, 3 + 1, m) /\ b = SubSeq(Text, m + 1, n) /\ SubSeq(Text, 3 + 1, n) = a \o b
  <2>1. 3 \in Nat /\ 3 <= m /\ m <= n /\ n <= Len(Text)
    BY <1>0
  <2>2. /\ SubSeq(Text, 3 + 1, m) \in Seq(Words) /\ SubSeq(Text, m + 1, n) \in Seq(Words)
        /\ SubSeq(Text, 3 + 1, n) = SubSeq(Text, 3 + 1, m) \o SubSeq(Text, m + 1, n)
    BY ONLY <1>0, <2>1, SubSeqSplit
  <2>. QED
    BY <2>2
<1>2. ASSUME NEW w, IsWord(w)
      PROVE  KeptTimes(t, w) = Times(a \o b, w)
  <2>1. KeptTimes(IndexScans(s, b), w) = KeptTimes(s, w) + Times(b, w)
    BY <1>2, UpdateTimes DEF IsWord
  <2>2. KeptTimes(s, w) = Times(a, w)
    BY <1>1, <1>2 DEF KeptUpTo
  <2>3. Times(a \o b, w) = Times(a, w) + Times(b, w) /\ Times(a, w) \in Nat /\ Times(b, w) \in Nat
    BY TimesConcat, TimesNat
  <2>4. t = IndexScans(s, b)
    BY <1>1
  <2>5. KeptTimes(t, w) = Times(a, w) + Times(b, w)
    BY <2>1, <2>2, <2>4
  <2>. QED
    BY <2>3, <2>5
<1>3. ~t.read => SameBlocks(s, t)
  <2>1. PICK w : IsWord(w)
    <3>1. More.k = "\\" /\ "\\" # "#" /\ "\\" # "end of line"
      BY DEF More, W
    <3>2. More # NL /\ More # HASH
      BY <3>1, FirstKinds, Zenon
    <3>. QED
      BY <3>2 DEF IsWord
  <2>2. ~IndexScans(s, b).read => SameBlocks(s, IndexScans(s, b))
    BY <2>1, UpdateTimes DEF IsWord
  <2>. QED
    BY <1>1, <2>2
<1>. QED
  BY <1>0, <1>1, <1>2, <1>3 DEF KeptUpTo

LEMMA SameTimes ==
  ASSUME NEW s, NEW t, SameBlocks(s, t), t.ignored = s.ignored, NEW n, KeptUpTo(s, n)
  PROVE  KeptUpTo(t, n)
<1>1. \A w : KeptTimes(t, w) = KeptTimes(s, w)
  BY DEF KeptTimes, BlockTimes, SameBlocks
<1>. QED
  BY <1>1 DEF KeptUpTo

LEMMA KeptStep ==
  ASSUME Inv, Kept, [Next]_vars
  PROVE  Kept'
<1>0. /\ size \in 0..Len(Text) /\ lastpos \in 0..size /\ size \in Nat /\ lastpos <= size
      /\ IndexOK(index) /\ Current(index)
  BY TextSequence DEF Inv
<1>1. ASSUME SameBlocks(index, index'), index'.ignored = index.ignored, pc' = pc \/ pc # "closed",
             lastpos' = lastpos
      PROVE  Kept'
  <2>1. \A w : KeptTimes(index', w) = KeptTimes(index, w)
    BY <1>1 DEF KeptTimes, BlockTimes, SameBlocks
  <2>2. KeptUpTo(index, lastpos) => KeptUpTo(index', lastpos')
    BY <1>1, <2>1 DEF KeptUpTo
  <2>. QED
    BY <1>1, <2>2 DEF Kept
<1>2. CASE Write
  BY <1>1, <1>2 DEF Write, SameBlocks
<1>3. CASE Open
  <2>1. PICK t : t = IndexScans(NoIndex, SubSeq(Text, 1, size)) /\ t.scans # <<>> /\ Indexed(t)
    BY <1>3 DEF Open
  <2>2. t.read = TRUE /\ KeptUpTo(t, size)
    BY <1>0, <2>1, OpenKeeps
  <2>3. lastpos' = size /\ index' = [t EXCEPT !.ignored = IF t.read THEN @ ELSE index.ignored]
    BY <2>1, <2>2 DEF Indexed, Position
  <2>4. IndexOK(t) /\ Current(t) /\ Keeps(NoIndex, t)
    <3>1. SubSeq(Text, 1, size) \in Seq(Words)
      BY <1>0, TextSequence
    <3>. QED
      BY <2>1, <3>1, NoIndexOK, IndexScansKeeps
  <2>5. Keeps(index, t)
    BY <1>3, <2>4 DEF Open, Inv
  <2>6. SameBlocks(t, index') /\ index'.ignored = t.ignored
    BY <1>0, <2>2, <2>3, <2>4, <2>5, IgnoringKeeps DEF SameBlocks
  <2>7. KeptUpTo(index', size)
    BY <2>2, <2>6, SameTimes
  <2>. QED
    BY <2>3, <2>7 DEF Kept
<1>4. CASE Update
  BY <1>1, <1>4 DEF Update, SameBlocks
<1>5. CASE UpdateReads
  <2>1. PICK t : t = IndexScans(index, SubSeq(Text, lastpos + 1, size)) /\ Indexed(t)
    BY <1>5 DEF UpdateReads
  <2>2. pc # "closed" /\ index.scans # <<>> /\ KeptUpTo(index, lastpos)
    BY <1>5 DEF UpdateReads, Inv, Kept
  <2>3. (t.read => KeptUpTo(t, size)) /\ (~t.read => SameBlocks(index, t))
    BY <1>0, <2>1, <2>2, UpdateKeeps
  <2>4. /\ lastpos' = IF t.read THEN size ELSE lastpos
        /\ index' = [t EXCEPT !.ignored = IF t.read THEN @ ELSE index.ignored]
    BY <2>1 DEF Indexed, Position
  <2>5. IndexOK(t) /\ Current(t) /\ Keeps(index, t)
    <3>1. SubSeq(Text, lastpos + 1, size) \in Seq(Words)
      BY <1>0, PartsOfText
    <3>. QED
      BY <1>0, <2>1, <3>1, IndexScansKeeps
  <2>6. /\ SameBlocks(t, index')
        /\ index'.ignored = IF t.read THEN t.ignored ELSE index.ignored
    BY <1>0, <2>4, <2>5, IgnoringKeeps DEF SameBlocks
  <2>7. CASE t.read
    <3>1. KeptUpTo(index', size)
      BY <2>3, <2>6, <2>7, SameTimes
    <3>. QED
      BY <2>4, <2>7, <3>1 DEF Kept
  <2>8. CASE ~t.read
    BY <1>1, <2>2, <2>3, <2>4, <2>6, <2>8 DEF SameBlocks
  <2>. QED
    BY <2>7, <2>8
<1>6. ASSUME NEW i \in DOMAIN Plan, ParseScan(i) PROVE Kept'
  <2>1. PICK p : index' = [index EXCEPT !.parsed[i] = p]
    BY <1>6 DEF ParseScan
  <2>2. SameBlocks(index, index') /\ index'.ignored = index.ignored
    BY <1>0, <2>1 DEF IndexOK, Index, SameBlocks
  <2>. QED
    BY <1>1, <1>6, <2>2 DEF ParseScan
<1>7. CASE UNCHANGED vars
  BY <1>1, <1>7 DEF vars, SameBlocks
<1>. QED
  BY <1>2, <1>3, <1>4, <1>5, <1>6, <1>7 DEF Next

LEMMA KeptAlways == Spec => []Kept
<1>1. Init => Kept
  BY DEF Init, Kept
<1>2. Inv /\ Kept /\ [Next]_vars => Kept'
  BY KeptStep
<1>. QED
  BY <1>1, <1>2, Invariance, PTL DEF Spec

\* However the file is cut into updates, even in the middle of a line or of "\n#",
\* no word is indexed twice and none is lost but in what follows a remark: after
\* the first line, which is nobody's, the blocks and the ignored chunks have each
\* word as often as the file up to lastpos.
THEOREM NothingLost == Spec => []EveryWordKept
<1>1. Inv /\ Kept => EveryWordKept
  <2>. SUFFICES ASSUME Inv, Kept, pc # "closed" PROVE EveryWordKept
    BY DEF EveryWordKept
  <2>. DEFINE IsFirst(i) == Text[i] = NL /\ \A j \in 1..i - 1 : Text[j] # NL
  <2>1. /\ lastpos \in 3..Len(Text) /\ Len(Text) \in Nat /\ index \in Index
        /\ \A w : IsWord(w) => KeptTimes(index, w) = Times(SubSeq(Text, 3 + 1, lastpos), w)
    BY TextSequence DEF Kept, KeptUpTo, Inv, IndexOK
  <2>2. PICK f, e : HasHeader(f, e)
    <3>1. Text # <<>>
      BY <2>1
    <3>. QED
      BY <3>1, TextStart
  <2>3. Text[1] # NL /\ Text[2] # NL /\ Text[3] = NL
    <3>1. HASH # NL
      BY FirstKinds, Zenon
    <3>2. Text[1] = HASH /\ Text[2] = f /\ Text[3] = NL /\ f # NL
      BY <2>2, Zenon DEF HasHeader
    <3>. QED
      BY <3>1, <3>2
  <2>4. ASSUME NEW i \in DOMAIN Text, IsFirst(i) PROVE i = 3
    <3>1. i \in Nat /\ i >= 1
      BY TextSequence
    <3>2. i # 1 /\ i # 2
      BY <2>3, <2>4
    <3>3. CASE i > 3
      <4>1. 3 \in 1..i - 1
        BY <3>1, <3>3
      <4>. QED
        BY <2>3, <2>4, <4>1
    <3>. QED
      BY <3>1, <3>2, <3>3
  <2>5. 3 \in DOMAIN Text /\ IsFirst(3)
    <3>1. 3 \in DOMAIN Text
      BY <2>1, TextSequence
    <3>2. \A j \in 1..3 - 1 : j = 1 \/ j = 2
      OBVIOUS
    <3>. QED
      BY <2>3, <3>1, <3>2
  <2>6. (CHOOSE i \in DOMAIN Text : IsFirst(i)) = 3
    <3>. HIDE DEF IsFirst
    <3>. QED
      BY <2>4, <2>5
  <2>7. ASSUME NEW w, IsWord(w)
        PROVE  Times(AllWords(index.scans) \o AllWords(index.headers) \o AllWords(index.ignored), w)
                 = Times(SubSeq(Text, 3 + 1, lastpos), w)
    <3>1. KeptTimes(index, w) = Times(SubSeq(Text, 3 + 1, lastpos), w)
      BY <2>1, <2>7
    <3>2. PICK a \in Seq(Words), b \in Seq(Words), c \in Seq(Words) :
            a = AllWords(index.scans) /\ b = AllWords(index.headers) /\ c = AllWords(index.ignored)
      BY <2>1, BlocksOfIndex
    <3>3. Times(a \o b, w) = Times(a, w) + Times(b, w)
      BY TimesConcat
    <3>4. Times((a \o b) \o c, w) = Times(a \o b, w) + Times(c, w)
      <4>1. PICK d \in Seq(Words) : d = a \o b
        <5>1. a \o b \in Seq(Words)
          BY ConcatFacts
        <5>. QED
          BY <5>1
      <4>2. Times(d \o c, w) = Times(d, w) + Times(c, w)
        BY TimesConcat
      <4>. QED
        BY <4>1, <4>2
    <3>5. KeptTimes(index, w) = (Times(a, w) + Times(b, w)) + Times(c, w)
      BY <3>2 DEF KeptTimes, BlockTimes
    <3>. QED
      BY <3>1, <3>2, <3>3, <3>4, <3>5
  <2>8. \A c \in Range(index.ignored) : Dropped(c.lines)
    <3>1. index.ignored \in Seq(Ignored)
      BY <2>1 DEF Index
    <3>2. Range(index.ignored) \subseteq Ignored
      BY <3>1 DEF Range
    <3>. QED
      BY <3>2 DEF Ignored
  <2>. QED
    BY <2>6, <2>7, <2>8 DEF EveryWordKept, IsWord
<1>. QED
  BY <1>1, Invariance, KeptAlways, PTL

===============================================================================
