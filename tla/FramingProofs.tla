---------------------------- MODULE FramingProofs ----------------------------
(***************************************************************************)
(* Proofs about Framing: what a payload is made of, what is in the buffers *)
(* and streams of a connection, and the byte order its messages have; that *)
(* sends which are not cut in two make the connection a channel of whole   *)
(* messages, what stops a listener then, and what the client's cache of an *)
(* array is.                                                               *)
(***************************************************************************)
EXTENDS Framing, SequenceLemmas

(***************************************************************************)
(* Payloads.                                                               *)
(***************************************************************************)
Byte == {b \in (Characters \cup Elements \cup {NUL, KS, "None"}) \X Nat : b # Magic}

\* An encoded text has no fewer bytes than characters, none of them a prefix.
LEMMA Utf8Bytes ==
  ASSUME NEW text \in Seq(Characters \cup {KS, "None"})
  PROVE  Utf8(text) \in Seq(Byte) /\ Len(text) <= Len(Utf8(text))
<1>. DEFINE Bytes1(c) == IF c \in Wide THEN << <<c, 1>>, <<c, 2>> >> ELSE << <<c, 0>> >>
            parts == [i \in DOMAIN text |-> Bytes1(text[i])]
<1>1. ASSUME NEW c \in Characters \cup {KS, "None"}
      PROVE  Bytes1(c) \in Seq(Byte) /\ Bytes1(c) # <<>>
  <2>1. \A n \in Nat : <<c, n>> # Magic => <<c, n>> \in Byte
    BY DEF Byte
  <2>2. <<c, 0>> # Magic /\ <<c, 1>> # Magic /\ <<c, 2>> # Magic
    BY CodecAssumption DEF Magic, KS
  <2>3. <<c, 0>> \in Byte /\ <<c, 1>> \in Byte /\ <<c, 2>> \in Byte
    BY <2>1, <2>2
  <2>4. \A b \in Byte : <<b>> \in Seq(Byte) /\ <<b>> # <<>>
    OBVIOUS
  <2>5. \A b, d \in Byte : <<b, d>> \in Seq(Byte) /\ <<b, d>> # <<>>
    OBVIOUS
  <2>. QED
    BY <2>3, <2>4, <2>5
<1>2. /\ DOMAIN parts = 1..Len(text) /\ Len(text) \in Nat
      /\ parts = [i \in 1..Len(text) |-> parts[i]]
      /\ \A i \in 1..Len(text) : parts[i] \in Seq(Byte) /\ parts[i] # <<>>
  <2>. HIDE DEF Bytes1
  <2>. QED
    BY <1>1
<1>3. Utf8(text) = FlattenSeq(parts)
  BY DEF Utf8
<1>. HIDE DEF parts
<1>4. parts \in Seq(Seq(Byte)) /\ Len(parts) = Len(text) /\ \A i \in DOMAIN parts : parts[i] # <<>>
  <2>1. parts \in [1..Len(text) -> Seq(Byte)]
    BY <1>2
  <2>. QED
    BY <1>2, <2>1
<1>. QED
  BY <1>3, <1>4, FlattenProperties, FlattenLength

\* A sequence of payloads.
LEMMA PartsFlatten ==
  ASSUME NEW n \in Nat, NEW parts, DOMAIN parts = 1..n,
         parts = [i \in 1..n |-> parts[i]], \A i \in 1..n : parts[i] \in Seq(Byte)
  PROVE  FlattenSeq(parts) \in Seq(Byte)
<1>1. parts \in [1..n -> Seq(Byte)]
  OBVIOUS
<1>2. parts \in Seq(Seq(Byte))
  BY <1>1
<1>. QED
  BY <1>2, FlattenProperties

\* The zero byte that ends a text.
LEMMA EndBytes == EndByte \in Byte
BY CodecAssumption DEF EndByte, Byte, Magic, NUL

LEMMA AssocBytesAreBytes ==
  ASSUME NEW data, IsFiniteSet(DOMAIN data),
         \A k \in DOMAIN data : /\ k \in Seq(Characters \cup {KS})
                                /\ data[k] = Deleted \/ data[k].text \in Seq(Characters)
  PROVE  AssocBytes(data) \in Seq(Byte)
<1>. DEFINE keys == SetToSeq(DOMAIN data)
            Item(k) == Utf8(k) \o <<EndByte>> \o Utf8(AssocText(data[k])) \o <<EndByte>>
<1>1. keys \in Seq(DOMAIN data)
  BY SetToSeqProperties
<1>2. ASSUME NEW k \in DOMAIN data
      PROVE  Item(k) \in Seq(Byte)
  <2>1. k \in Seq(Characters \cup {KS, "None"})
    <3>1. k \in Seq(Characters \cup {KS})
      OBVIOUS
    <3>. QED
      BY <3>1
  <2>2. AssocText(data[k]) \in Seq(Characters \cup {KS, "None"})
    <3>1. CASE data[k] = Deleted
      <4>1. AssocText(data[k]) = <<"None">>
        BY <3>1 DEF AssocText
      <4>. QED
        BY <4>1
    <3>2. CASE data[k] # Deleted
      <4>1. AssocText(data[k]) = data[k].text /\ data[k].text \in Seq(Characters)
        BY <3>2 DEF AssocText
      <4>2. \A t \in Seq(Characters) : t \in Seq(Characters \cup {KS, "None"})
        OBVIOUS
      <4>. QED
        BY <4>1, <4>2
    <3>. QED
      BY <3>1, <3>2
  <2>3. PICK a, b \in Seq(Byte) : a = Utf8(k) /\ b = Utf8(AssocText(data[k]))
    BY <2>1, <2>2, Utf8Bytes
  <2>4. a \o <<EndByte>> \o b \o <<EndByte>> \in Seq(Byte)
    BY EndBytes
  <2>. QED
    BY <2>3, <2>4
<1>3. AssocBytes(data) = IF keys = <<>> THEN <<EndByte>>
                         ELSE FlattenSeq([i \in DOMAIN keys |-> Item(keys[i])])
  BY DEF AssocBytes
<1>. HIDE DEF keys, Item
<1>4. FlattenSeq([i \in DOMAIN keys |-> Item(keys[i])]) \in Seq(Byte)
  <2>1. PICK n \in Nat : n = Len(keys) /\ DOMAIN keys = 1..n
    BY <1>1
  <2>2. \A i \in 1..n : keys[i] \in DOMAIN data
    BY <1>1, <2>1
  <2>. DEFINE parts == [i \in 1..n |-> Item(keys[i])]
  <2>3. /\ DOMAIN parts = 1..n
        /\ parts = [i \in 1..n |-> parts[i]]
        /\ \A i \in 1..n : parts[i] \in Seq(Byte)
    BY <1>2, <2>2
  <2>4. parts = [i \in DOMAIN keys |-> Item(keys[i])]
    BY <2>1
  <2>. HIDE DEF parts
  <2>. QED
    BY <2>3, <2>4, PartsFlatten
<1>5. <<EndByte>> \in Seq(Byte)
  BY EndBytes
<1>. QED
  BY <1>3, <1>4, <1>5

LEMMA ElementBytesAreBytes ==
  ASSUME NEW e \in Elements, NEW n \in Nat, NEW o
  PROVE  ElementBytes(e, n, o) \in Seq(Byte)
<1>1. ASSUME NEW k \in Nat \ {0} PROVE <<e, k>> \in Byte
  BY DEF Byte, Magic
<1>2. \A i \in 1..n : /\ i \in Nat \ {0} /\ n + 1 - i \in Nat \ {0}
                      /\ (IF o = "<" THEN i ELSE n + 1 - i) \in Nat \ {0}
  OBVIOUS
<1>3. ElementBytes(e, n, o) \in [1..n -> Byte]
  BY <1>1, <1>2 DEF ElementBytes
<1>. QED
  BY <1>3

\* What Serialize returns, by the type of the value, but for the shape.
LEMMA SerializedBytes ==
  ASSUME NEW v, IsValue(v), NEW o
  PROVE  Serialize(v, o).bytes \in Seq(Byte)
<1>0. \A b \in Seq(Byte) : \A t, r, c : Payload(t, r, c, b).bytes \in Seq(Byte)
  <2>1. \A b \in Seq(Byte) : Append(b, EndByte) \in Seq(Byte)
    BY EndBytes
  <2>. QED
    BY <2>1 DEF Payload
<1>1. CASE v = NoValue
  <2>1. <<>> \in Seq(Byte)
    OBVIOUS
  <2>2. v.is = "none"
    BY <1>1 DEF NoValue
  <2>3. Serialize(v, o) = Payload("STRING", 0, 0, <<>>)
    BY <2>2 DEF Serialize
  <2>. QED
    BY <1>0, <2>1, <2>3
<1>2. CASE v.is \in {"string", "number", "error"} /\ v.text \in Seq(Characters)
  <2>1. PICK t : t = v.text /\ t \in Seq(Characters)
    BY <1>2
  <2>2. t \in Seq(Characters \cup {KS, "None"})
    BY <2>1
  <2>3. PICK b \in Seq(Byte) : b = Utf8(t) /\ Len(t) <= Len(b)
    BY <2>2, Utf8Bytes
  <2>4. SubSeq(b, 1, Len(t)) \in Seq(Byte)
    <3>1. Len(t) \in Nat /\ Len(b) \in Nat
      BY <2>1, <2>3
    <3>2. \A n \in Nat : n <= Len(b) => SubSeq(b, 1, n) \in Seq(Byte)
      OBVIOUS
    <3>. QED
      BY <2>3, <3>1, <3>2
  <2>5. CASE v.is = "error"
    <3>1. Serialize(v, o) = Payload("ERROR", 0, 0, b)
      BY <2>1, <2>3, <2>5 DEF Serialize
    <3>. QED
      BY <1>0, <3>1
  <2>6. CASE v.is \in {"string", "number"}
    <3>1. Serialize(v, o) = Payload("STRING", 0, 0, SubSeq(b, 1, Len(t)))
      BY <2>1, <2>3, <2>6 DEF Serialize
    <3>. QED
      BY <1>0, <2>4, <3>1
  <2>. QED
    BY <1>2, <2>5, <2>6
<1>3. CASE /\ v.is = "assoc" /\ IsFiniteSet(DOMAIN v.data)
           /\ \A k \in DOMAIN v.data :
                 /\ k \in Seq(Characters \cup {KS})
                 /\ \/ v.data[k] = Deleted
                    \/ /\ v.data[k].is \in {"string", "number"}
                       /\ v.data[k].text \in Seq(Characters)
  <2>1. AssocBytes(v.data) \in Seq(Byte)
    BY <1>3, AssocBytesAreBytes
  <2>2. Serialize(v, o) = Payload("ASSOC", 0, 0, AssocBytes(v.data))
    BY <1>3 DEF Serialize
  <2>. QED
    BY <1>0, <2>1, <2>2
<1>4. CASE v.is = "strings" /\ v.items \in Seq(Seq(Characters))
  <2>. DEFINE Item(t) == Utf8(t) \o <<EndByte>>
              parts == [i \in DOMAIN v.items |-> Item(v.items[i])]
  <2>1. ASSUME NEW t \in Seq(Characters) PROVE Item(t) \in Seq(Byte)
    <3>1. t \in Seq(Characters \cup {KS, "None"})
      OBVIOUS
    <3>2. PICK b \in Seq(Byte) : b = Utf8(t)
      BY <3>1, Utf8Bytes
    <3>3. b \o <<EndByte>> \in Seq(Byte)
      BY EndBytes
    <3>. QED
      BY <3>2, <3>3
  <2>2. PICK n \in Nat : n = Len(v.items) /\ DOMAIN v.items = 1..n
    BY <1>4
  <2>3. \A i \in 1..n : v.items[i] \in Seq(Characters)
    BY <1>4, <2>2
  <2>4. Serialize(v, o).bytes = IF FlattenSeq(parts) = <<>> THEN FlattenSeq(parts)
                                ELSE Append(FlattenSeq(parts), EndByte)
    BY <1>4 DEF Serialize, Payload
  <2>. HIDE DEF Item
  <2>5. /\ DOMAIN parts = 1..n
        /\ parts = [i \in 1..n |-> parts[i]]
        /\ \A i \in 1..n : parts[i] \in Seq(Byte)
    BY <2>1, <2>2, <2>3
  <2>. HIDE DEF parts
  <2>6. PICK b \in Seq(Byte) : b = FlattenSeq(parts)
    BY <2>5, PartsFlatten
  <2>7. Append(b, EndByte) \in Seq(Byte)
    BY EndBytes
  <2>. QED
    BY <2>4, <2>6, <2>7
<1>5. CASE v.is = "array" /\ v.items \in Seq(Elements) /\ v.dtype[2] \in Nat
  <2>. DEFINE Item(e) == ElementBytes(e, v.dtype[2], o)
              parts == [i \in DOMAIN v.items |-> Item(v.items[i])]
  <2>1. ASSUME NEW e \in Elements PROVE Item(e) \in Seq(Byte)
    BY <1>5, ElementBytesAreBytes
  <2>2. PICK n \in Nat : n = Len(v.items) /\ DOMAIN v.items = 1..n
    BY <1>5
  <2>3. \A i \in 1..n : v.items[i] \in Elements
    BY <1>5, <2>2
  <2>4. Serialize(v, o).bytes = IF FlattenSeq(parts) = <<>> THEN FlattenSeq(parts)
                                ELSE Append(FlattenSeq(parts), EndByte)
    BY <1>5 DEF Serialize, Payload
  <2>. HIDE DEF Item
  <2>5. /\ DOMAIN parts = 1..n
        /\ parts = [i \in 1..n |-> parts[i]]
        /\ \A i \in 1..n : parts[i] \in Seq(Byte)
    BY <2>1, <2>2, <2>3
  <2>. HIDE DEF parts
  <2>6. PICK b \in Seq(Byte) : b = FlattenSeq(parts)
    BY <2>5, PartsFlatten
  <2>7. Append(b, EndByte) \in Seq(Byte)
    BY EndBytes
  <2>. QED
    BY <2>4, <2>6, <2>7
<1>. QED
  BY <1>1, <1>2, <1>3, <1>4, <1>5 DEF IsValue

(***************************************************************************)
(* Words: those of the frames of messages in one byte order.               *)
(***************************************************************************)
Headers(o) == {HeaderOf(v, m, o) : v \in Versions \cup {4}, m \in Message}
DataWords(o) == {Word(b, h) : b \in Byte, h \in Headers(o)}
WordsIn(o) == {Word(b, h) : b \in Byte \cup {Magic, Field}, h \in Headers(o)}

LEMMA HeaderFacts ==
  ASSUME NEW o, NEW h \in Headers(o)
  PROVE  h.order = o /\ h.size \in Nat \ {0} /\ h.length \in Nat /\ h.prop \in Props
<1>1. PICK v \in Versions \cup {4}, m \in Message : h = HeaderOf(v, m, o)
  BY DEF Headers
<1>2. HeaderSize(v) \in Nat \ {0}
  BY DEF HeaderSize, HeaderWords
<1>3. Serialize(Pack(m.prop, m.value), o).bytes \in Seq(Byte)
  BY FramingAssumption, SerializedBytes
<1>4. Len(Serialize(Pack(m.prop, m.value), o).bytes) \in Nat
  BY <1>3
<1>5. m.prop \in Props
  BY DEF Props
<1>. QED
  BY <1>1, <1>2, <1>4, <1>5 DEF HeaderOf

LEMMA WordFacts ==
  ASSUME NEW o
  PROVE  /\ DataWords(o) \subseteq WordsIn(o)
         /\ \A w \in DataWords(o) : w.byte # Magic
         /\ \A w \in WordsIn(o) : w.header \in Headers(o)
BY DEF DataWords, WordsIn, Word, Byte

(***************************************************************************)
(* How many messages start in a sequence of words.                         *)
(***************************************************************************)
Starts(s) == {i \in DOMAIN s : s[i].byte = Magic}
Count(s) == Cardinality(Starts(s))

LEMMA CountType ==
  ASSUME NEW S, NEW s \in Seq(S)
  PROVE  IsFiniteSet(Starts(s)) /\ Count(s) \in Nat
<1>1. IsFiniteSet(DOMAIN s)
  <2>1. PICK n \in Nat : DOMAIN s = 1..n
    OBVIOUS
  <2>. QED
    BY <2>1, FS_Interval
<1>2. Starts(s) \in SUBSET DOMAIN s
  BY DEF Starts
<1>. QED
  BY <1>1, <1>2, FS_Subset, FS_CardinalityType DEF Count

LEMMA CountConcat ==
  ASSUME NEW S, NEW s \in Seq(S), NEW t \in Seq(S)
  PROVE  Count(s \o t) = Count(s) + Count(t)
<1>1. PICK n \in Nat, k \in Nat : /\ n = Len(s) /\ k = Len(t)
                                  /\ DOMAIN s = 1..n /\ DOMAIN t = 1..k
  OBVIOUS
<1>2. /\ DOMAIN (s \o t) = 1..(n + k)
      /\ \A i \in 1..n : (s \o t)[i] = s[i]
      /\ \A i \in 1..k : (s \o t)[n + i] = t[i]
  BY <1>1
<1>. DEFINE B == {n + i : i \in Starts(t)}
            f == [i \in Starts(t) |-> n + i]
<1>3. Starts(s \o t) = Starts(s) \cup B
  <2>1. ASSUME NEW i \in Starts(s \o t) PROVE i \in Starts(s) \cup B
    <3>1. i \in 1..(n + k) /\ (s \o t)[i].byte = Magic
      BY <1>2, <2>1 DEF Starts
    <3>2. CASE i <= n
      <4>1. i \in 1..n
        BY <3>1, <3>2
      <4>. QED
        BY <1>1, <1>2, <3>1, <4>1 DEF Starts
    <3>3. CASE i > n
      <4>1. PICK j \in 1..k : i = n + j
        <5>1. i - n \in 1..k /\ i = n + (i - n)
          BY <3>1, <3>3
        <5>. QED
          BY <5>1
      <4>2. j \in Starts(t)
        BY <1>1, <1>2, <3>1, <4>1 DEF Starts
      <4>. QED
        BY <4>1, <4>2
    <3>. QED
      BY <3>1, <3>2, <3>3
  <2>2. ASSUME NEW i \in Starts(s) PROVE i \in Starts(s \o t)
    <3>1. i \in 1..n /\ i \in 1..(n + k) /\ s[i].byte = Magic
      BY <1>1 DEF Starts
    <3>. QED
      BY <1>2, <3>1 DEF Starts
  <2>3. ASSUME NEW i \in Starts(t) PROVE n + i \in Starts(s \o t)
    <3>1. i \in 1..k /\ n + i \in 1..(n + k) /\ t[i].byte = Magic
      BY <1>1 DEF Starts
    <3>. QED
      BY <1>2, <3>1 DEF Starts
  <2>. QED
    BY <2>1, <2>2, <2>3
<1>4. Starts(s) \cap B = {}
  BY <1>1 DEF Starts
<1>5. IsFiniteSet(B) /\ Cardinality(B) = Count(t)
  <2>1. Starts(t) \subseteq Nat
    BY <1>1 DEF Starts
  <2>2. f \in Bijection(Starts(t), B)
    <3>1. f \in [Starts(t) -> B]
      OBVIOUS
    <3>2. \A i, j \in Starts(t) : f[i] = f[j] => i = j
      BY <2>1
    <3>3. \A b \in B : \E i \in Starts(t) : f[i] = b
      OBVIOUS
    <3>. QED
      BY <3>1, <3>2, <3>3 DEF Bijection, Injection, IsInjective, Surjection
  <2>3. ExistsBijection(Starts(t), B)
    BY <2>2 DEF ExistsBijection
  <2>. QED
    BY <2>3, CountType, FS_Bijection DEF Count
<1>6. IsFiniteSet(Starts(s)) /\ Count(s) \in Nat /\ Count(t) \in Nat
  BY CountType
<1>7. Cardinality(Starts(s) \cup B) = Cardinality(Starts(s)) + Cardinality(B) - Cardinality({})
  BY <1>4, <1>5, <1>6, FS_Union
<1>. QED
  BY <1>3, <1>5, <1>6, <1>7, FS_EmptySet DEF Count

\* None in what has no prefix, one in a header.
LEMMA CountNone ==
  ASSUME NEW s, \A i \in DOMAIN s : s[i].byte # Magic
  PROVE  Count(s) = 0
<1>1. Starts(s) = {}
  BY DEF Starts
<1>. QED
  BY <1>1, FS_EmptySet DEF Count

LEMMA CountFirst ==
  ASSUME NEW s, 1 \in DOMAIN s, s[1].byte = Magic, \A i \in DOMAIN s : i # 1 => s[i].byte # Magic
  PROVE  Count(s) = 1
<1>1. Starts(s) = {1}
  BY DEF Starts
<1>. QED
  BY <1>1, FS_Singleton DEF Count

\* What is left when the first message is taken.
LEMMA CountRest ==
  ASSUME NEW S, NEW s \in Seq(S), NEW n \in 1..Len(s), s[1].byte = Magic
  PROVE  Count(SubSeq(s, n + 1, Len(s))) + 1 <= Count(s)
<1>1. PICK a \in Seq(S), b \in Seq(S) : /\ a = SubSeq(s, 1, n) /\ b = SubSeq(s, n + 1, Len(s))
                                        /\ s = a \o b /\ Len(a) = n
  <2>1. SubSeq(s, 1, n) \in Seq(S) /\ SubSeq(s, n + 1, Len(s)) \in Seq(S)
    OBVIOUS
  <2>2. Len(SubSeq(s, 1, n)) = n
    OBVIOUS
  <2>3. s = SubSeq(s, 1, n) \o SubSeq(s, n + 1, Len(s))
    OBVIOUS
  <2>. QED
    BY <2>1, <2>2, <2>3
<1>2. 1 \in Starts(a)
  <2>1. 1 \in DOMAIN a /\ a[1] = s[1]
    BY <1>1
  <2>. QED
    BY <2>1 DEF Starts
<1>3. Count(a) >= 1
  <2>1. IsFiniteSet(Starts(a)) /\ Count(a) \in Nat
    BY CountType
  <2>2. Count(a) # 0
    BY <1>2, <2>1, FS_EmptySet DEF Count
  <2>. QED
    BY <2>1, <2>2
<1>4. Count(a) \in Nat /\ Count(b) \in Nat /\ Count(s) = Count(a) + Count(b)
  BY <1>1, CountType, CountConcat
<1>. QED
  BY <1>1, <1>3, <1>4

(***************************************************************************)
(* The parts of a frame, and the words a message takes from a stream.      *)
(***************************************************************************)
LEMMA FrameFacts ==
  ASSUME NEW e \in Ends, NEW m \in Message, version[e] \in Versions \cup {4}
  PROVE  /\ Frame(e, m).header \in Seq(WordsIn(OrderFor(e)))
         /\ Frame(e, m).data \in Seq(DataWords(OrderFor(e)))
         /\ Count(Frame(e, m).header) = 1
<1>. DEFINE o == OrderFor(e)
            b == Serialize(Pack(m.prop, m.value), o).bytes
            h == HeaderOf(version[e], m, o)
            n == HeaderSize(version[e])
            header == [i \in 1..n |-> Word(IF i = 1 THEN Magic ELSE Field, h)]
            data == [i \in DOMAIN b |-> Word(b[i], h)]
<1>1. Frame(e, m).header = header /\ Frame(e, m).data = data
  BY DEF Frame, FrameOf
<1>2. h \in Headers(o)
  BY DEF Headers
<1>3. n \in Nat \ {0}
  BY DEF HeaderSize, HeaderWords
<1>4. b \in Seq(Byte)
  BY FramingAssumption, SerializedBytes
<1>. HIDE DEF o, b, h, n
<1>5. header \in Seq(WordsIn(o))
  <2>1. \A i \in 1..n : Word(IF i = 1 THEN Magic ELSE Field, h) \in WordsIn(o)
    BY <1>2 DEF WordsIn
  <2>2. header \in [1..n -> WordsIn(o)]
    BY <2>1
  <2>. QED
    BY <1>3, <2>2
<1>6. data \in Seq(DataWords(o))
  <2>1. PICK k \in Nat : DOMAIN b = 1..k /\ \A i \in 1..k : b[i] \in Byte
    BY <1>4
  <2>2. \A i \in 1..k : Word(b[i], h) \in DataWords(o)
    BY <1>2, <2>1 DEF DataWords
  <2>3. data \in [1..k -> DataWords(o)]
    BY <2>1, <2>2
  <2>. QED
    BY <2>3
<1>7. Count(header) = 1
  <2>1. Magic # Field
    BY DEF Magic, Field
  <2>2. /\ 1 \in DOMAIN header /\ header[1].byte = Magic
        /\ \A i \in DOMAIN header : i # 1 => header[i].byte # Magic
    BY <1>3, <2>1 DEF Word
  <2>. HIDE DEF header
  <2>. QED
    BY <2>2, CountFirst
<1>. QED
  BY <1>1, <1>5, <1>6, <1>7 DEF o

\* The structure a header is read as is one of the three there are.
LEMMA StructFacts ==
  ASSUME NEW v, NEW n \in Nat
  PROVE  HeaderStruct(v, n) \in 2..4
<1>. DEFINE fits == {s \in 2..4 : HeaderWords(s) <= n}
<1>1. \A s \in 2..4 : HeaderWords(s) = s
  BY DEF HeaderWords
<1>2. fits # {} => \E s \in fits : \A r \in fits : r <= s
  <2>1. CASE 4 \in fits
    BY <2>1
  <2>2. CASE 4 \notin fits /\ 3 \in fits
    BY <2>2
  <2>3. CASE 4 \notin fits /\ 3 \notin fits
    BY <2>3
  <2>. QED
    BY <2>1, <2>2, <2>3
<1>3. fits # {} => (CHOOSE s \in fits : \A r \in fits : r <= s) \in fits
  <2>. HIDE DEF fits
  <2>. QED
    BY <1>2
<1>. QED
  BY <1>3 DEF HeaderStruct

LEMMA IncomingFacts ==
  ASSUME NEW e \in Ends, NEW o, stream[Peer(e)] \in Seq(WordsIn(o)),
         NEW m \in Incoming(e), m.value # Failed
  PROVE  /\ m.h \in Headers(o)
         /\ m.rest \in Seq(WordsIn(o))
         /\ Count(m.rest) + 1 <= Count(stream[Peer(e)])
<1>. DEFINE in == stream[Peer(e)]
            h == in[1].header
            struct == HeaderStruct(h.version, h.size)
            data == Words(h, struct)
            end == data + h.length
<1>1. in # <<>>
  BY DEF Incoming
<1>2. /\ in[1].byte = Magic /\ ~(Len(in) < end)
      /\ m.h = h /\ m.rest = SubSeq(in, end + 1, Len(in))
  BY SMTT(30), <1>1 DEF Incoming
<1>. HIDE DEF in
<1>3. in \in Seq(WordsIn(o)) /\ Len(in) \in Nat \ {0} /\ in[1] \in WordsIn(o)
  <2>1. in \in Seq(WordsIn(o))
    BY DEF in
  <2>. QED
    BY <1>1, <2>1
<1>4. h \in Headers(o)
  BY <1>3, WordFacts
<1>. HIDE DEF h
<1>5. h.size \in Nat \ {0} /\ h.length \in Nat
  BY <1>4, HeaderFacts
<1>6. struct \in 2..4
  BY <1>5, StructFacts
<1>. HIDE DEF struct
<1>7. data \in Nat \ {0}
  <2>1. HeaderWords(struct) \in 2..4
    BY <1>6 DEF HeaderWords
  <2>. QED
    BY <1>5, <2>1 DEF Words
<1>. HIDE DEF data
<1>8. end \in 1..Len(in)
  BY <1>2, <1>3, <1>5, <1>7
<1>. HIDE DEF end
<1>9. SubSeq(in, end + 1, Len(in)) \in Seq(WordsIn(o))
  BY <1>3, <1>8
<1>10. Count(SubSeq(in, end + 1, Len(in))) + 1 <= Count(in)
  BY <1>2, <1>3, <1>8, CountRest
<1>. QED
  BY <1>2, <1>4, <1>9, <1>10 DEF in

(***************************************************************************)
(* The invariant.  All messages are in the byte order of the client: it    *)
(* never learns another, and the server does not speak before it has read  *)
(* the client's.  Every message received started with a prefix that is no  *)
(* longer in the stream.                                                   *)
(***************************************************************************)
IsList(s) == \E S : s \in Seq(S)

LEMMA ListFacts ==
  /\ IsList(<<>>)
  /\ \A s, x : IsList(s) => /\ IsList(Append(s, x)) /\ Append(s, x) # <<>>
                            /\ Len(s) \in Nat /\ Len(Append(s, x)) = Len(s) + 1
<1>1. <<>> \in Seq({})
  OBVIOUS
<1>2. ASSUME NEW s, NEW x, IsList(s)
      PROVE  /\ IsList(Append(s, x)) /\ Append(s, x) # <<>>
             /\ Len(s) \in Nat /\ Len(Append(s, x)) = Len(s) + 1
  <2>1. PICK S : s \in Seq(S)
    BY <1>2 DEF IsList
  <2>2. s \in Seq(S \cup {x})
    BY <2>1
  <2>3. Append(s, x) \in Seq(S \cup {x})
    BY <2>2
  <2>4. Append(s, x) # <<>> /\ Len(s) \in Nat /\ Len(Append(s, x)) = Len(s) + 1
    BY <2>2
  <2>. QED
    BY <2>3, <2>4 DEF IsList
<1>. QED
  BY <1>1, <1>2 DEF IsList

States == {"idle", "header", "resumed", "drain", "over"}
Theirs == WordsIn(native["client"])

FixedOK ==
    /\ version \in [Ends -> Versions \cup {4}]
    /\ native \in [Ends -> Orders]
    /\ high \in [Ends -> Nat] /\ \A e \in Ends : high[e] >= LowWater
WordsOK ==
    /\ buffer \in [Ends -> Seq(Theirs)] /\ stream \in [Ends -> Seq(Theirs)]
    /\ task \in [Senders -> [state : States, data : Seq(DataWords(native["client"]))]]
OrderOK ==
    /\ order \in [Ends -> {None, native["client"]}]
    /\ received["server"] # <<>> => order["server"] = native["client"]
PausedOK ==
    /\ paused \in [Ends -> BOOLEAN]
    /\ \A e \in Ends : paused[e] => Len(buffer[e]) > LowWater
ListsOK ==
    /\ sent \in [Ends -> Seq(Message)]
    /\ DOMAIN received = Ends /\ \A e \in Ends : IsList(received[e])
    /\ deaf \subseteq Ends /\ DOMAIN table \subseteq Props
CountOK ==
    \A e \in Ends : Len(received[Peer(e)]) + Count(stream[e]) + Count(buffer[e]) <= Len(sent[e])
Inv == FixedOK /\ WordsOK /\ OrderOK /\ PausedOK /\ ListsOK /\ CountOK

LEMMA PeerFacts == \A e \in Ends : Peer(e) \in Ends /\ Peer(Peer(e)) = e /\ Peer(e) # e
BY DEF Ends, Peer

LEMMA InvInit == Init => Inv
<1>. SUFFICES ASSUME Init PROVE Inv
  OBVIOUS
<1>1. FixedOK
  <2>1. version \in [Ends -> Versions \cup {4}]
    BY DEF Init
  <2>2. native \in [Ends -> Orders]
    BY FramingAssumption DEF Init
  <2>3. high \in [Ends -> Nat] /\ \A e \in Ends : high[e] >= LowWater
    <3>1. DOMAIN high = Ends /\ high = [e \in Ends |-> high[e]] /\ \A e \in Ends : high[e] \in Marks[e]
      BY DEF Init
    <3>2. \A e \in Ends : high[e] \in Nat /\ high[e] >= LowWater
      BY <3>1, FramingAssumption
    <3>. QED
      BY <3>1, <3>2
  <2>. QED
    BY <2>1, <2>2, <2>3 DEF FixedOK
<1>2. WordsOK
  BY DEF Init, WordsOK, Task, States
<1>3. OrderOK
  BY DEF Init, OrderOK, Ends
<1>4. PausedOK
  BY DEF Init, PausedOK
<1>5. ListsOK
  BY ListFacts DEF Init, ListsOK
<1>6. CountOK
  <2>1. Count(<<>>) = 0
    BY CountNone
  <2>2. \A e \in Ends : stream[e] = <<>> /\ buffer[e] = <<>> /\ Len(received[Peer(e)]) = 0
                        /\ Len(sent[e]) = 0
    BY PeerFacts DEF Init
  <2>. QED
    BY <2>1, <2>2 DEF CountOK
<1>. QED
  BY <1>1, <1>2, <1>3, <1>4, <1>5, <1>6 DEF Inv

LEMMA WriteKeeps ==
  ASSUME Inv, NEW e \in Ends, NEW more \in Seq(Theirs), Write(e, buffer[e] \o more)
  PROVE  /\ buffer' \in [Ends -> Seq(Theirs)]
         /\ PausedOK'
         /\ Count(buffer'[e]) = Count(buffer[e]) + Count(more)
         /\ \A d \in Ends \ {e} : buffer'[d] = buffer[d]
<1>. DEFINE words == buffer[e] \o more
<1>1. buffer \in [Ends -> Seq(Theirs)] /\ buffer[e] \in Seq(Theirs)
  BY DEF Inv, WordsOK
<1>2. words \in Seq(Theirs) /\ Len(words) = Len(buffer[e]) + Len(more)
      /\ Len(more) \in Nat /\ Len(buffer[e]) \in Nat
  BY <1>1
<1>3. Count(words) = Count(buffer[e]) + Count(more)
  BY <1>1, CountConcat
<1>. HIDE DEF words
<1>4. buffer' = [buffer EXCEPT ![e] = words] /\ paused' = [paused EXCEPT ![e] = Full(e, words)]
  BY DEF Write, words
<1>5. PausedOK'
  <2>1. Full(e, words) \in BOOLEAN
    BY DEF Full, Inv, PausedOK
  <2>2. Full(e, words) => Len(words) > LowWater
    <3>1. LowWater \in Nat /\ high[e] \in Nat /\ high[e] >= LowWater
      BY FramingAssumption DEF Inv, FixedOK
    <3>2. paused[e] => Len(buffer[e]) > LowWater
      BY DEF Inv, PausedOK
    <3>. QED
      BY <1>2, <3>1, <3>2 DEF Full
  <2>. QED
    BY <1>1, <1>4, <2>1, <2>2 DEF Inv, PausedOK
<1>. QED
  BY <1>1, <1>2, <1>3, <1>4, <1>5

LEMMA CountFacts ==
  ASSUME Inv, NEW e \in Ends
  PROVE  /\ Len(received[Peer(e)]) \in Nat /\ Count(stream[e]) \in Nat
         /\ Count(buffer[e]) \in Nat /\ Len(sent[e]) \in Nat
         /\ Len(received[Peer(e)]) + Count(stream[e]) + Count(buffer[e]) <= Len(sent[e])
<1>1. stream[e] \in Seq(Theirs) /\ buffer[e] \in Seq(Theirs)
  BY DEF Inv, WordsOK
<1>2. IsList(received[Peer(e)]) /\ sent[e] \in Seq(Message)
  BY PeerFacts DEF Inv, ListsOK
<1>. QED
  BY <1>1, <1>2, CountType, ListFacts DEF Inv, CountOK

\* Whatever is sent is sent in the byte order of the client.
LEMMA SendOrder ==
  ASSUME Inv, NEW t \in Senders, Send(t)
  PROVE  OrderFor(EndOf[t]) = native["client"]
<1>. DEFINE e == EndOf[t]
            o == native["client"]
<1>0. e \in Ends
  BY FramingAssumption
<1>1. CASE e = "client"
  BY <1>0, <1>1 DEF Inv, OrderOK, OrderFor
<1>2. CASE e = "server"
  <2>1. received["server"] # <<>>
    BY <1>2 DEF Send, MaySpeak
  <2>2. order["server"] = o /\ o # None
    <3>1. o \in Orders
      BY DEF Inv, FixedOK, Ends
    <3>. QED
      BY <2>1, <3>1, FramingAssumption DEF Inv, OrderOK
  <2>. QED
    BY <1>2, <2>2 DEF OrderFor
<1>. QED
  BY <1>0, <1>1, <1>2 DEF Ends

LEMMA InvSend ==
  ASSUME Inv, NEW t \in Senders, Send(t)
  PROVE  Inv'
<1>. DEFINE e == EndOf[t]
            o == native["client"]
<1>1. e \in Ends
  BY FramingAssumption
<1>2. OrderFor(e) = o
  BY SendOrder
<1>. HIDE DEF e
<1>3. PICK m \in Contents[t] :
        LET frame  == Frame(e, m)
            header == buffer[e] \o frame.header
            all    == header \o frame.data
        IN /\ IF Full(e, header)
                THEN Write(e, header) /\ task' = [task EXCEPT ![t] = Task("header", frame.data)]
                ELSE Write(e, all) /\ task' = [task EXCEPT ![t] =
                       Task(IF Full(e, all) THEN "drain" ELSE "over", <<>>)]
           /\ sent' = [sent EXCEPT ![e] = Append(@, m)]
  BY DEF Send, e
<1>4. UNCHANGED <<version, native, high, order, stream, deaf, table, received>>
  BY DEF Send
<1>5. m \in Message
  BY DEF Message
<1>6. PICK head, data : head = Frame(e, m).header /\ data = Frame(e, m).data
  OBVIOUS
<1>7. head \in Seq(Theirs) /\ data \in Seq(DataWords(o)) /\ Count(head) = 1
  BY <1>1, <1>2, <1>5, <1>6, FrameFacts DEF Theirs, Inv, FixedOK
<1>8. data \in Seq(Theirs) /\ Count(data) = 0
  <2>1. DataWords(o) \subseteq Theirs
    BY WordFacts DEF Theirs
  <2>2. \A i \in DOMAIN data : data[i].byte # Magic
    <3>1. \A i \in DOMAIN data : data[i] \in DataWords(o)
      BY <1>7
    <3>. QED
      BY <3>1, WordFacts
  <2>3. data \in Seq(Theirs)
    BY <1>7, <2>1
  <2>. QED
    BY <2>2, <2>3, CountNone
<1>9. PICK more \in Seq(Theirs), s \in States, d \in Seq(DataWords(o)) :
        /\ Write(e, buffer[e] \o more) /\ Count(more) = 1
        /\ task' = [task EXCEPT ![t] = Task(s, d)]
  <2>1. buffer[e] \in Seq(Theirs)
    BY <1>1 DEF Inv, WordsOK
  <2>2. (buffer[e] \o head) \o data = buffer[e] \o (head \o data)
    <3>1. \A a, b, c \in Seq(Theirs) : (a \o b) \o c = a \o (b \o c)
      BY ConcatAssociative
    <3>. QED
      BY <1>7, <1>8, <2>1, <3>1
  <2>3. head \o data \in Seq(Theirs) /\ Count(head \o data) = 1
    <3>1. head \o data \in Seq(Theirs)
      BY <1>7, <1>8
    <3>2. Count(head \o data) = 1 + 0
      BY <1>7, <1>8, CountConcat
    <3>. QED
      BY <3>1, <3>2
  <2>4. <<>> \in Seq(DataWords(o))
    OBVIOUS
  <2>5. CASE Full(e, buffer[e] \o head)
    <3>1. /\ Write(e, buffer[e] \o head)
          /\ task' = [task EXCEPT ![t] = Task("header", data)]
      BY <1>3, <1>6, <2>5
    <3>2. "header" \in States
      BY DEF States
    <3>. QED
      BY <1>7, <3>1, <3>2
  <2>6. CASE ~Full(e, buffer[e] \o head)
    <3>1. PICK s \in States : s = IF Full(e, (buffer[e] \o head) \o data) THEN "drain" ELSE "over"
      BY DEF States
    <3>2. /\ Write(e, (buffer[e] \o head) \o data)
          /\ task' = [task EXCEPT ![t] = Task(s, <<>>)]
      BY <1>3, <1>6, <2>6, <3>1
    <3>3. Write(e, buffer[e] \o (head \o data))
      BY <2>2, <3>2
    <3>. QED
      BY <2>3, <2>4, <3>2, <3>3
  <2>. QED
    BY <2>5, <2>6
<1>10. /\ buffer' \in [Ends -> Seq(Theirs)] /\ PausedOK'
       /\ Count(buffer'[e]) = Count(buffer[e]) + 1
       /\ \A d1 \in Ends \ {e} : buffer'[d1] = buffer[d1]
  BY <1>1, <1>9, WriteKeeps
<1>11. FixedOK' /\ OrderOK' /\ Theirs' = Theirs
  BY <1>4 DEF Inv, FixedOK, OrderOK, Theirs, WordsIn, Headers, HeaderOf
<1>12. WordsOK'
  <2>1. task \in [Senders -> [state : States, data : Seq(DataWords(o))]]
    BY DEF Inv, WordsOK
  <2>2. Task(s, d) \in [state : States, data : Seq(DataWords(o))]
    BY <1>9 DEF Task
  <2>3. task' \in [Senders -> [state : States, data : Seq(DataWords(o))]]
    BY <1>9, <2>1, <2>2
  <2>4. DataWords(native'["client"]) = DataWords(o)
    BY <1>4
  <2>5. stream' \in [Ends -> Seq(Theirs)]
    BY <1>4 DEF Inv, WordsOK
  <2>6. o' = o
    BY <1>4
  <2>. QED
    BY <1>10, <1>11, <2>3, <2>4, <2>5, <2>6 DEF WordsOK
<1>13. sent' \in [Ends -> Seq(Message)] /\ Len(sent'[e]) = Len(sent[e]) + 1
       /\ \A d1 \in Ends \ {e} : sent'[d1] = sent[d1]
  <2>1. sent \in [Ends -> Seq(Message)]
    BY DEF Inv, ListsOK
  <2>2. sent' = [sent EXCEPT ![e] = Append(@, m)]
    BY <1>3
  <2>3. Append(sent[e], m) \in Seq(Message) /\ Len(Append(sent[e], m)) = Len(sent[e]) + 1
    BY <1>1, <1>5, <2>1
  <2>. QED
    BY <1>1, <2>1, <2>2, <2>3
<1>14. ListsOK'
  BY <1>4, <1>13 DEF Inv, ListsOK
<1>15. CountOK'
  <2>1. ASSUME NEW d1 \in Ends
        PROVE  Len(received'[Peer(d1)]) + Count(stream'[d1]) + Count(buffer'[d1]) <= Len(sent'[d1])
    <3>1. /\ Len(received[Peer(d1)]) \in Nat /\ Count(stream[d1]) \in Nat
          /\ Count(buffer[d1]) \in Nat /\ Len(sent[d1]) \in Nat
          /\ Len(received[Peer(d1)]) + Count(stream[d1]) + Count(buffer[d1]) <= Len(sent[d1])
      BY CountFacts
    <3>2. received' = received /\ stream' = stream
      BY <1>4
    <3>3. CASE d1 = e
      BY <1>10, <1>13, <3>1, <3>2, <3>3
    <3>4. CASE d1 # e
      BY <1>10, <1>13, <3>1, <3>2, <3>4
    <3>. QED
      BY <3>3, <3>4
  <2>. QED
    BY <2>1 DEF CountOK
<1>. QED
  BY <1>10, <1>11, <1>12, <1>14, <1>15 DEF Inv

LEMMA InvSendData ==
  ASSUME Inv, NEW t \in Senders, SendData(t)
  PROVE  Inv'
<1>. DEFINE e == EndOf[t]
            o == native["client"]
<1>1. e \in Ends
  BY FramingAssumption
<1>2. UNCHANGED <<version, native, high, order, stream, deaf, table, array, sent, received>>
  BY DEF SendData
<1>3. PICK data \in Seq(DataWords(o)) : data = task[t].data
  BY DEF Inv, WordsOK
<1>4. data \in Seq(Theirs) /\ Count(data) = 0
  <2>1. DataWords(o) \subseteq Theirs
    BY WordFacts DEF Theirs
  <2>2. \A i \in DOMAIN data : data[i].byte # Magic
    <3>1. \A i \in DOMAIN data : data[i] \in DataWords(o)
      OBVIOUS
    <3>. QED
      BY <3>1, WordFacts
  <2>3. data \in Seq(Theirs)
    BY <2>1
  <2>. QED
    BY <2>2, <2>3, CountNone
<1>5. PICK s \in States : /\ Write(e, buffer[e] \o data)
                          /\ task' = [task EXCEPT ![t] = Task(s, <<>>)]
  BY <1>3 DEF SendData, States
<1>. HIDE DEF e
<1>6. /\ buffer' \in [Ends -> Seq(Theirs)] /\ PausedOK'
      /\ Count(buffer'[e]) = Count(buffer[e]) + 0
      /\ \A d \in Ends \ {e} : buffer'[d] = buffer[d]
  BY <1>1, <1>4, <1>5, WriteKeeps
<1>7. FixedOK' /\ OrderOK' /\ ListsOK' /\ Theirs' = Theirs
  BY <1>2 DEF Inv, FixedOK, OrderOK, ListsOK, Theirs, WordsIn, Headers, HeaderOf
<1>8. WordsOK'
  <2>1. task \in [Senders -> [state : States, data : Seq(DataWords(o))]]
    BY DEF Inv, WordsOK
  <2>2. Task(s, <<>>) \in [state : States, data : Seq(DataWords(o))]
    BY DEF Task
  <2>3. task' \in [Senders -> [state : States, data : Seq(DataWords(o))]]
    BY <1>5, <2>1, <2>2
  <2>4. o' = o
    BY <1>2
  <2>5. stream' \in [Ends -> Seq(Theirs)]
    BY <1>2 DEF Inv, WordsOK
  <2>. QED
    BY <1>6, <1>7, <2>3, <2>4, <2>5 DEF WordsOK
<1>9. CountOK'
  <2>1. ASSUME NEW d \in Ends
        PROVE  Len(received'[Peer(d)]) + Count(stream'[d]) + Count(buffer'[d]) <= Len(sent'[d])
    <3>1. Count(buffer'[d]) = Count(buffer[d])
      <4>1. CASE d = e
        BY <1>6, <4>1, CountFacts
      <4>2. CASE d # e
        BY <1>6, <4>2
      <4>. QED
        BY <4>1, <4>2
    <3>2. received' = received /\ stream' = stream /\ sent' = sent
      BY <1>2
    <3>. QED
      BY <3>1, <3>2, CountFacts
  <2>. QED
    BY <2>1 DEF CountOK
<1>. QED
  BY <1>6, <1>7, <1>8, <1>9 DEF Inv

\* What does not touch the words keeps all that is known of them.
LEMMA InvCancel ==
  ASSUME Inv, NEW t \in Senders, Cancel(t)
  PROVE  Inv'
<1>1. UNCHANGED <<version, native, high, order, buffer, paused, stream, deaf, table, array,
                  sent, received>>
  BY DEF Cancel
<1>2. FixedOK' /\ OrderOK' /\ PausedOK' /\ ListsOK' /\ CountOK' /\ Theirs' = Theirs
  BY <1>1 DEF Inv, FixedOK, OrderOK, PausedOK, ListsOK, CountOK, Theirs, WordsIn, Headers, HeaderOf
<1>3. WordsOK'
  <2>1. Task("over", <<>>) \in [state : States, data : Seq(DataWords(native["client"]))]
    BY DEF Task, States
  <2>2. task' = [task EXCEPT ![t] = Task("over", <<>>)]
    BY DEF Cancel
  <2>3. task' \in [Senders -> [state : States, data : Seq(DataWords(native["client"]))]]
    BY <2>1, <2>2 DEF Inv, WordsOK
  <2>4. buffer' \in [Ends -> Seq(Theirs)] /\ stream' \in [Ends -> Seq(Theirs)]
    BY <1>1 DEF Inv, WordsOK
  <2>. QED
    BY <1>1, <1>2, <2>3, <2>4 DEF WordsOK
<1>. QED
  BY <1>2, <1>3 DEF Inv

LEMMA InvTransmit ==
  ASSUME Inv, NEW e \in Ends, Transmit(e)
  PROVE  Inv'
<1>1. UNCHANGED <<version, native, high, order, deaf, table, array, sent, received>>
  BY DEF Transmit
<1>2. FixedOK' /\ OrderOK' /\ ListsOK' /\ Theirs' = Theirs
  BY <1>1 DEF Inv, FixedOK, OrderOK, ListsOK, Theirs, WordsIn, Headers, HeaderOf
<1>3. buffer \in [Ends -> Seq(Theirs)] /\ stream \in [Ends -> Seq(Theirs)]
  BY DEF Inv, WordsOK
<1>4. /\ stream' = [stream EXCEPT ![e] = @ \o buffer[e]]
      /\ buffer' = [buffer EXCEPT ![e] = <<>>]
      /\ paused' = [paused EXCEPT ![e] = FALSE]
  BY DEF Transmit
<1>5. buffer' \in [Ends -> Seq(Theirs)] /\ stream' \in [Ends -> Seq(Theirs)]
  <2>1. stream[e] \o buffer[e] \in Seq(Theirs)
    BY <1>3
  <2>. QED
    BY <1>3, <1>4, <2>1
<1>6. WordsOK'
  <2>. DEFINE D == Seq(DataWords(native["client"]))
  <2>1. \A t \in Senders : task[t].state \in States /\ task[t].data \in D
                           /\ task[t] = Task(task[t].state, task[t].data)
    BY DEF Inv, WordsOK, Task
  <2>2. task' = [t \in Senders |->
                  CASE EndOf[t] = e /\ task[t].state = "header" -> Task("resumed", task[t].data)
                    [] EndOf[t] = e /\ task[t].state = "drain"  -> Task("over", <<>>)
                    [] OTHER                                    -> task[t]]
    BY DEF Transmit
  <2>3. <<>> \in D
    OBVIOUS
  <2>4. \A s \in States : \A d \in D : Task(s, d) \in [state : States, data : D]
    BY DEF Task
  <2>5. "resumed" \in States /\ "over" \in States
    BY DEF States
  <2>. HIDE DEF D
  <2>6. ASSUME NEW t \in Senders PROVE task'[t] \in [state : States, data : D]
    <3>1. CASE EndOf[t] = e /\ task[t].state = "header"
      <4>1. task'[t] = Task("resumed", task[t].data)
        BY <2>2, <3>1
      <4>. QED
        BY <2>1, <2>4, <2>5, <4>1
    <3>2. CASE EndOf[t] = e /\ task[t].state = "drain"
      <4>1. task'[t] = Task("over", <<>>)
        BY <2>2, <3>2
      <4>. QED
        BY <2>3, <2>4, <2>5, <4>1
    <3>3. CASE ~(EndOf[t] = e /\ task[t].state = "header") /\ ~(EndOf[t] = e /\ task[t].state = "drain")
      <4>1. task'[t] = task[t]
        BY <2>2, <3>3
      <4>. QED
        BY <2>1, <2>4, <4>1
    <3>. QED
      BY <3>1, <3>2, <3>3
  <2>7. task' \in [Senders -> [state : States, data : D]]
    <3>1. task' = [t \in Senders |-> task'[t]]
      BY <2>2
    <3>. QED
      BY <2>6, <3>1
  <2>. QED
    BY <1>1, <1>2, <1>5, <2>7 DEF WordsOK, D
<1>7. PausedOK'
  BY <1>4 DEF Inv, PausedOK
<1>8. CountOK'
  <2>1. ASSUME NEW d \in Ends
        PROVE  Len(received'[Peer(d)]) + Count(stream'[d]) + Count(buffer'[d]) <= Len(sent'[d])
    <3>1. received' = received /\ sent' = sent
      BY <1>1
    <3>2. CASE d = e
      <4>1. stream'[d] = stream[d] \o buffer[d] /\ buffer'[d] = <<>>
        BY <1>3, <1>4, <3>2
      <4>2. stream[d] \in Seq(Theirs) /\ buffer[d] \in Seq(Theirs)
        BY <1>3
      <4>3. Count(stream[d] \o buffer[d]) = Count(stream[d]) + Count(buffer[d])
        BY <4>2, CountConcat
      <4>4. Count(<<>>) = 0
        BY CountNone
      <4>5. Count(stream'[d]) = Count(stream[d]) + Count(buffer[d]) /\ Count(buffer'[d]) = 0
        BY <4>1, <4>3, <4>4
      <4>. QED
        BY <3>1, <4>5, CountFacts
    <3>3. CASE d # e
      <4>1. stream'[d] = stream[d] /\ buffer'[d] = buffer[d]
        BY <1>3, <1>4, <3>3
      <4>. QED
        BY <3>1, <4>1, CountFacts
    <3>. QED
      BY <3>2, <3>3
  <2>. QED
    BY <2>1 DEF CountOK
<1>. QED
  BY <1>2, <1>6, <1>7, <1>8 DEF Inv

LEMMA InvReceive ==
  ASSUME Inv, NEW e \in Ends, Receive(e)
  PROVE  Inv'
<1>. DEFINE o == native["client"]
<1>1. PICK m \in Incoming(e) :
        /\ m.value # Failed
        /\ stream' = [stream EXCEPT ![Peer(e)] = m.rest]
        /\ order' = [order EXCEPT ![e] = m.h.order]
        /\ received' = [received EXCEPT ![e] = Append(@, m.value)]
        /\ table' = IF e = "client" THEN Cache(m.h.prop, m.value) ELSE table
        /\ deaf' \subseteq deaf \cup {e}
        /\ UNCHANGED <<version, native, high, buffer, paused, task, array, sent>>
  BY DEF Receive
<1>2. stream \in [Ends -> Seq(Theirs)] /\ buffer \in [Ends -> Seq(Theirs)]
  BY DEF Inv, WordsOK
<1>3. stream[Peer(e)] \in Seq(WordsIn(o))
  BY <1>2, PeerFacts DEF Theirs
<1>4. /\ m.h \in Headers(o) /\ m.rest \in Seq(WordsIn(o))
      /\ Count(m.rest) + 1 <= Count(stream[Peer(e)])
  BY <1>1, <1>3, IncomingFacts
<1>5. m.h.order = o /\ m.h.prop \in Props
  BY <1>4, HeaderFacts
<1>6. FixedOK' /\ PausedOK' /\ Theirs' = Theirs
  BY <1>1 DEF Inv, FixedOK, PausedOK, Theirs, WordsIn, Headers, HeaderOf
<1>7. WordsOK'
  <2>1. m.rest \in Seq(Theirs)
    BY <1>4 DEF Theirs
  <2>2. stream' \in [Ends -> Seq(Theirs)]
    BY <1>1, <1>2, <2>1
  <2>3. task \in [Senders -> [state : States, data : Seq(DataWords(o))]]
    BY DEF Inv, WordsOK
  <2>4. native' = native /\ buffer' = buffer /\ task' = task
    BY <1>1
  <2>. QED
    BY <1>2, <1>6, <2>2, <2>3, <2>4 DEF WordsOK
<1>8. OrderOK'
  <2>1. order \in [Ends -> {None, o}] /\ (received["server"] # <<>> => order["server"] = o)
    BY DEF Inv, OrderOK
  <2>2. order' = [order EXCEPT ![e] = o] /\ native' = native
    BY <1>1, <1>5
  <2>3. received'["server"] # <<>> => order'["server"] = o
    <3>1. CASE e = "server"
      BY <2>1, <2>2, <3>1
    <3>2. CASE e # "server"
      <4>1. received'["server"] = received["server"] /\ order'["server"] = order["server"]
        BY <1>1, <2>2, <3>2
      <4>. QED
        BY <2>1, <4>1
    <3>. QED
      BY <3>1, <3>2
  <2>. QED
    BY <2>1, <2>2, <2>3 DEF OrderOK
<1>9. DOMAIN received = Ends /\ (\A d \in Ends : IsList(received[d])) /\ DOMAIN table \subseteq Props
  BY DEF Inv, ListsOK
<1>10. ListsOK'
  <2>1. DOMAIN received' = Ends /\ \A d \in Ends : IsList(received'[d])
    BY <1>1, <1>9, ListFacts
  <2>2. DOMAIN table' \subseteq Props
    <3>1. DOMAIN Cache(m.h.prop, m.value) \subseteq Props
      BY <1>5, <1>9 DEF Cache
    <3>. QED
      BY <1>1, <1>9, <3>1
  <2>. QED
    BY <1>1, <2>1, <2>2 DEF Inv, ListsOK
<1>11. CountOK'
  <2>1. ASSUME NEW d \in Ends
        PROVE  Len(received'[Peer(d)]) + Count(stream'[d]) + Count(buffer'[d]) <= Len(sent'[d])
    <3>1. buffer' = buffer /\ sent' = sent
      BY <1>1
    <3>2. CASE d = Peer(e)
      <4>1. Peer(d) = e /\ stream'[d] = m.rest
        BY <1>1, <1>2, <3>2, PeerFacts
      <4>2. Len(received'[e]) = Len(received[e]) + 1
        <5>1. received'[e] = Append(received[e], m.value)
          BY <1>1, <1>9
        <5>. QED
          BY <1>9, <5>1, ListFacts
      <4>3. Count(m.rest) \in Nat
        BY <1>4, CountType
      <4>. QED
        BY SMTT(30), <1>4, <3>1, <3>2, <4>1, <4>2, <4>3, CountFacts
    <3>3. CASE d # Peer(e)
      <4>1. stream'[d] = stream[d]
        BY <1>1, <1>2, <3>3
      <4>2. Peer(d) # e /\ Peer(d) \in Ends
        BY <3>3, PeerFacts
      <4>3. received'[Peer(d)] = received[Peer(d)]
        BY <1>1, <1>9, <4>2
      <4>. QED
        BY <3>1, <4>1, <4>3, CountFacts
    <3>. QED
      BY <3>2, <3>3
  <2>. QED
    BY <2>1 DEF CountOK
<1>. QED
  BY <1>6, <1>7, <1>8, <1>10, <1>11 DEF Inv

\* A listener that stops changes nothing else, and stuttering nothing at all.
LEMMA InvDeaf ==
  ASSUME Inv, deaf' \subseteq Ends,
         UNCHANGED <<version, native, high, order, buffer, paused, stream, task, table, array,
                     sent, received>>
  PROVE  Inv'
<1>1. FixedOK' /\ OrderOK' /\ PausedOK' /\ ListsOK' /\ CountOK'
  BY DEF Inv, FixedOK, OrderOK, PausedOK, ListsOK, CountOK
<1>2. Theirs' = Theirs
  BY DEF Theirs, WordsIn, Headers, HeaderOf
<1>3. WordsOK'
  <2>1. buffer' \in [Ends -> Seq(Theirs)] /\ stream' \in [Ends -> Seq(Theirs)]
    BY DEF Inv, WordsOK
  <2>2. task' \in [Senders -> [state : States, data : Seq(DataWords(native["client"]))]]
    BY DEF Inv, WordsOK
  <2>3. native' = native
    OBVIOUS
  <2>. QED
    BY <1>2, <2>1, <2>2, <2>3 DEF WordsOK
<1>. QED
  BY <1>1, <1>3 DEF Inv

LEMMA InvGoDeaf ==
  ASSUME Inv, NEW e \in Ends, GoDeaf(e)
  PROVE  Inv'
<1>1. /\ deaf' = deaf \cup {e}
      /\ UNCHANGED <<version, native, high, order, buffer, paused, stream, task, table, array,
                     sent, received>>
  BY DEF GoDeaf
<1>2. deaf' \subseteq Ends
  BY <1>1 DEF Inv, ListsOK
<1>. QED
  BY <1>1, <1>2, InvDeaf

\* A send that is refused.
LEMMA RefuseFacts ==
  ASSUME Inv, NEW t \in Senders, Refuse(t)
  PROVE  /\ task[t].state = "idle" /\ task'[t] = Task("over", <<>>)
         /\ \A u \in Senders : u # t => task'[u] = task[u]
         /\ task' \in [Senders -> [state : States, data : Seq(DataWords(native["client"]))]]
         /\ UNCHANGED <<version, native, high, order, buffer, paused, stream, deaf, table, array,
                        sent, received>>
<1>1. /\ task[t].state = "idle" /\ task' = [task EXCEPT ![t] = Task("over", <<>>)]
      /\ UNCHANGED <<version, native, high, order, buffer, paused, stream, deaf, table, array,
                     sent, received>>
  BY DEF Refuse, MaySpeak
<1>2. task \in [Senders -> [state : States, data : Seq(DataWords(native["client"]))]]
  BY DEF Inv, WordsOK
<1>3. Task("over", <<>>) \in [state : States, data : Seq(DataWords(native["client"]))]
  BY DEF Task, States
<1>. QED
  BY <1>1, <1>2, <1>3

LEMMA InvRefuse ==
  ASSUME Inv, NEW t \in Senders, Refuse(t)
  PROVE  Inv'
<1>1. /\ task' \in [Senders -> [state : States, data : Seq(DataWords(native["client"]))]]
      /\ UNCHANGED <<version, native, high, order, buffer, paused, stream, deaf, table, array,
                     sent, received>>
  BY RefuseFacts
<1>2. FixedOK' /\ OrderOK' /\ PausedOK' /\ ListsOK' /\ CountOK'
  BY <1>1 DEF Inv, FixedOK, OrderOK, PausedOK, ListsOK, CountOK
<1>3. Theirs' = Theirs
  BY <1>1 DEF Theirs, WordsIn, Headers, HeaderOf
<1>4. buffer' \in [Ends -> Seq(Theirs)] /\ stream' \in [Ends -> Seq(Theirs)]
  BY <1>1 DEF Inv, WordsOK
<1>5. WordsOK'
  BY <1>1, <1>3, <1>4 DEF WordsOK
<1>. QED
  BY <1>2, <1>5 DEF Inv

LEMMA InvNext == Inv /\ [Next]_vars => Inv'
<1>. SUFFICES ASSUME Inv, [Next]_vars PROVE Inv'
  OBVIOUS
<1>1. CASE UNCHANGED vars
  <2>1. UNCHANGED <<version, native, high, order, buffer, paused, stream, task, deaf, table,
                    array, sent, received>>
    BY <1>1 DEF vars
  <2>2. deaf' \subseteq Ends
    BY <2>1 DEF Inv, ListsOK
  <2>. QED
    BY <2>1, <2>2, InvDeaf
<1>2. ASSUME NEW t \in Senders, Send(t) PROVE Inv'
  BY <1>2, InvSend
<1>3. ASSUME NEW t \in Senders, SendData(t) PROVE Inv'
  BY <1>3, InvSendData
<1>4. ASSUME NEW t \in Senders, Cancel(t) PROVE Inv'
  BY <1>4, InvCancel
<1>5. ASSUME NEW e \in Ends, Transmit(e) PROVE Inv'
  BY <1>5, InvTransmit
<1>6. ASSUME NEW e \in Ends, Listen(e) PROVE Inv'
  BY <1>6, InvReceive, InvGoDeaf DEF Listen
<1>7. ASSUME NEW t \in Senders, Refuse(t) PROVE Inv'
  BY <1>7, InvRefuse
<1>. QED
  BY <1>1, <1>2, <1>3, <1>4, <1>5, <1>6, <1>7 DEF Next

LEMMA InvAlways == Spec => []Inv
BY InvInit, InvNext, PTL DEF Spec

(***************************************************************************)
(* What follows.                                                           *)
(***************************************************************************)
\* The transport is paused only while there is more in its buffer than the low
\* mark; the client caches what was sent to it; and no end receives more than
\* the other has sent, however the sends of one end interleave and are cancelled
\* (connection.py:149-177).
THEOREM TypeCorrect == Spec => []TypeOK
<1>1. Inv => TypeOK
  <2>. SUFFICES ASSUME Inv PROVE TypeOK
    OBVIOUS
  <2>1. order \in [Ends -> Orders \cup {None}]
    <3>1. native["client"] \in Orders
      BY DEF Inv, FixedOK, Ends
    <3>. QED
      BY <3>1 DEF Inv, OrderOK
  <2>2. \A t \in Senders : task[t].state \in {"idle", "header", "resumed", "drain", "over"}
    BY DEF Inv, WordsOK, States
  <2>3. \A e \in Ends : Len(received[e]) <= Len(sent[Peer(e)])
    <3>1. ASSUME NEW e \in Ends PROVE Len(received[e]) <= Len(sent[Peer(e)])
      <4>1. Peer(e) \in Ends /\ Peer(Peer(e)) = e
        BY PeerFacts
      <4>2. /\ Len(received[Peer(Peer(e))]) \in Nat /\ Count(stream[Peer(e)]) \in Nat
            /\ Count(buffer[Peer(e)]) \in Nat /\ Len(sent[Peer(e)]) \in Nat
            /\ Len(received[Peer(Peer(e))]) + Count(stream[Peer(e)]) + Count(buffer[Peer(e)])
                 <= Len(sent[Peer(e)])
        BY <4>1, CountFacts
      <4>3. \A a, b, c, d \in Nat : a + b + c <= d => a <= d
        OBVIOUS
      <4>. QED
        BY <4>1, <4>2, <4>3
    <3>. QED
      BY <3>1
  <2>. QED
    BY <2>1, <2>2, <2>3 DEF TypeOK, Inv, PausedOK, ListsOK
<1>. QED
  BY <1>1, InvAlways, PTL

\* All messages on the connection are in the byte order of the client, whatever
\* machine the server runs on (connection.py:110-116).
THEOREM OneByteOrder == Spec => []ClientsOrder
<1>1. Inv => ClientsOrder
  <2>. SUFFICES ASSUME Inv PROVE ClientsOrder
    OBVIOUS
  <2>1. ASSUME NEW i \in DOMAIN stream["server"]
        PROVE  stream["server"][i].header.order = native["client"]
    <3>1. stream["server"] \in Seq(Theirs)
      BY DEF Inv, WordsOK, Ends
    <3>2. stream["server"][i] \in WordsIn(native["client"])
      BY <3>1 DEF Theirs
    <3>. QED
      BY <3>2, WordFacts, HeaderFacts
  <2>2. \A e \in Ends : order[e] \in {None, native["client"]}
    BY DEF Inv, OrderOK
  <2>. QED
    BY <2>1, <2>2 DEF ClientsOrder
<1>. QED
  BY <1>1, InvAlways, PTL

(***************************************************************************)
(* Whole frames.                                                           *)
(***************************************************************************)
WholeFrame(v, m, o) == FrameOf(v, m, o).header \o FrameOf(v, m, o).data

\* The frames of the messages s from the (k+1)-th on.
Coming(v, s, k, o) ==
    FlattenSeq([i \in 1..(Len(s) - k) |-> WholeFrame(v, s[k + i], o)])

LEMMA FrameParts ==
  ASSUME NEW v \in Versions \cup {4}, NEW m \in Message, NEW o
  PROVE  /\ FrameOf(v, m, o).header \in Seq(WordsIn(o))
         /\ FrameOf(v, m, o).data \in Seq(WordsIn(o))
         /\ WholeFrame(v, m, o) \in Seq(WordsIn(o))
         /\ Len(FrameOf(v, m, o).header) = HeaderSize(v)
         /\ Len(FrameOf(v, m, o).data) = HeaderOf(v, m, o).length
         /\ FrameOf(v, m, o).header[1] = Word(Magic, HeaderOf(v, m, o))
         /\ Bytes(FrameOf(v, m, o).data) = Serialize(Pack(m.prop, m.value), o).bytes
         /\ HeaderSize(v) \in Nat \ {0} /\ HeaderOf(v, m, o).length \in Nat
<1>. DEFINE b == Serialize(Pack(m.prop, m.value), o).bytes
            h == HeaderOf(v, m, o)
            n == HeaderSize(v)
            header == [i \in 1..n |-> Word(IF i = 1 THEN Magic ELSE Field, h)]
            data == [i \in DOMAIN b |-> Word(b[i], h)]
<1>1. FrameOf(v, m, o).header = header /\ FrameOf(v, m, o).data = data
  BY DEF FrameOf
<1>2. h \in Headers(o) /\ h.length = Len(b)
  <2>1. h \in Headers(o)
    <3>. HIDE DEF h, b
    <3>. QED
      BY DEF Headers, h
  <2>2. h.length = Len(b)
    BY DEF HeaderOf
  <2>. QED
    BY <2>1, <2>2
<1>3. n \in Nat \ {0}
  BY DEF HeaderSize, HeaderWords
<1>4. b \in Seq(Byte)
  BY FramingAssumption, SerializedBytes
<1>. HIDE DEF b, h, n
<1>5. header \in Seq(WordsIn(o)) /\ Len(header) = n /\ header[1] = Word(Magic, h)
  <2>1. \A i \in 1..n : Word(IF i = 1 THEN Magic ELSE Field, h) \in WordsIn(o)
    BY <1>2 DEF WordsIn
  <2>2. header \in [1..n -> WordsIn(o)]
    BY <2>1
  <2>3. 1 \in 1..n
    BY <1>3
  <2>4. header[1] = Word(Magic, h)
    BY <2>3
  <2>5. header \in Seq(WordsIn(o))
    BY <1>3, <2>2
  <2>6. Len(header) = n
    BY <1>3, <2>5
  <2>. QED
    BY <2>4, <2>5, <2>6
<1>6. data \in Seq(WordsIn(o)) /\ Len(data) = Len(b) /\ Bytes(data) = b
  <2>1. PICK k \in Nat : k = Len(b) /\ DOMAIN b = 1..k /\ \A i \in 1..k : b[i] \in Byte
    BY <1>4
  <2>2. \A i \in 1..k : Word(b[i], h) \in WordsIn(o)
    BY <1>2, <2>1 DEF WordsIn
  <2>3. data \in [1..k -> WordsIn(o)]
    BY <2>1, <2>2
  <2>4. data \in Seq(WordsIn(o))
    BY <2>3
  <2>5. Len(data) = k
    BY <2>1, <2>4
  <2>6. Bytes(data) = [i \in 1..k |-> b[i]]
    BY <2>1 DEF Bytes, Word
  <2>7. b = [i \in 1..k |-> b[i]]
    BY <1>4, <2>1
  <2>. QED
    BY <2>1, <2>4, <2>5, <2>6, <2>7
<1>7. header \o data \in Seq(WordsIn(o))
  BY <1>5, <1>6
<1>8. Len(b) \in Nat
  BY <1>4
<1>. QED
  BY <1>1, <1>2, <1>3, <1>5, <1>6, <1>7, <1>8 DEF WholeFrame, b, h, n

LEMMA FramesType ==
  ASSUME NEW v \in Versions \cup {4}, NEW s \in Seq(Message), NEW k \in 0..Len(s), NEW o
  PROVE  /\ [i \in 1..(Len(s) - k) |-> WholeFrame(v, s[k + i], o)] \in Seq(Seq(WordsIn(o)))
         /\ Coming(v, s, k, o) \in Seq(WordsIn(o))
<1>1. PICK n \in Nat : n = Len(s) - k /\ Len(s) \in Nat
  <2>1. Len(s) \in Nat
    OBVIOUS
  <2>2. Len(s) - k \in Nat
    BY <2>1
  <2>. QED
    BY <2>1, <2>2
<1>. DEFINE f == [i \in 1..n |-> WholeFrame(v, s[k + i], o)]
<1>2. \A i \in 1..n : s[k + i] \in Message
  <2>1. ASSUME NEW i \in 1..n PROVE s[k + i] \in Message
    <3>1. k + i \in 1..Len(s)
      BY <1>1
    <3>. HIDE DEF f
    <3>2. \A j \in 1..Len(s) : s[j] \in Message
      OBVIOUS
    <3>. QED
      BY <3>1, <3>2
  <2>. QED
    BY <2>1
<1>3. \A i \in 1..n : WholeFrame(v, s[k + i], o) \in Seq(WordsIn(o))
  BY <1>2, FrameParts
<1>4. f \in [1..n -> Seq(WordsIn(o))]
  BY <1>3
<1>5. f \in Seq(Seq(WordsIn(o)))
  <2>. HIDE DEF f
  <2>. QED
    BY <1>1, <1>4
<1>6. FlattenSeq(f) \in Seq(WordsIn(o))
  <2>. HIDE DEF f
  <2>. QED
    BY <1>5, FlattenProperties
<1>. QED
  BY <1>1, <1>5, <1>6 DEF Coming

\* One more message is sent.
LEMMA ComingMore ==
  ASSUME NEW v \in Versions \cup {4}, NEW s \in Seq(Message), NEW k \in 0..Len(s), NEW o,
         NEW m \in Message
  PROVE  Coming(v, Append(s, m), k, o) = Coming(v, s, k, o) \o WholeFrame(v, m, o)
<1>1. PICK n \in Nat : n = Len(s) - k /\ Len(s) \in Nat /\ Len(s) = k + n
  <2>1. Len(s) \in Nat
    OBVIOUS
  <2>2. Len(s) - k \in Nat
    BY <2>1
  <2>. QED
    BY <2>1, <2>2
<1>2. PICK t \in Seq(Message) : t = Append(s, m)
  <2>1. Append(s, m) \in Seq(Message)
    OBVIOUS
  <2>. QED
    BY <2>1
<1>3. Len(t) = Len(s) + 1 /\ t[Len(s) + 1] = m /\ \A i \in 1..Len(s) : t[i] = s[i]
  BY <1>2
<1>4. Len(t) - k = n + 1 /\ k \in 0..Len(t)
  BY <1>1, <1>3
<1>. DEFINE F(q) == [i \in 1..(Len(q) - k) |-> WholeFrame(v, q[k + i], o)]
<1>5. F(s) \in Seq(Seq(WordsIn(o))) /\ F(t) \in Seq(Seq(WordsIn(o)))
  BY <1>4, FramesType
<1>6. WholeFrame(v, m, o) \in Seq(WordsIn(o))
  BY FrameParts
<1>7. F(t) = Append(F(s), WholeFrame(v, m, o))
  <2>1. DOMAIN F(s) = 1..n /\ DOMAIN F(t) = 1..(n + 1)
    BY <1>1, <1>4
  <2>2. \A i \in 1..n : F(t)[i] = F(s)[i]
    <3>1. ASSUME NEW i \in 1..n PROVE F(t)[i] = F(s)[i]
      <4>1. k + i \in 1..Len(s)
        BY <1>1
      <4>2. t[k + i] = s[k + i]
        BY <1>3, <4>1
      <4>3. i \in 1..(Len(s) - k) /\ i \in 1..(Len(t) - k)
        BY <1>1, <1>4
      <4>. QED
        BY <4>2, <4>3
    <3>. QED
      BY <3>1
  <2>3. F(t)[n + 1] = WholeFrame(v, m, o)
    <3>1. n + 1 \in 1..(Len(t) - k) /\ k + (n + 1) = Len(s) + 1
      BY <1>1, <1>4
    <3>. QED
      BY <1>3, <3>1
  <2>. HIDE DEF F
  <2>4. PICK a \in Seq(Seq(WordsIn(o))), b \in Seq(Seq(WordsIn(o))), x \in Seq(WordsIn(o)) :
          a = F(s) /\ b = F(t) /\ x = WholeFrame(v, m, o)
    BY <1>5, <1>6
  <2>5. Len(a) = n /\ Len(b) = n + 1 /\ b[n + 1] = x /\ \A i \in 1..n : b[i] = a[i]
    BY <2>1, <2>2, <2>3, <2>4
  <2>6. Append(a, x) \in Seq(Seq(WordsIn(o))) /\ Len(Append(a, x)) = n + 1
        /\ \A i \in 1..(n + 1) : Append(a, x)[i] = b[i]
    BY <2>5
  <2>7. b = Append(a, x)
    BY <2>5, <2>6, SeqEqual
  <2>. QED
    BY <2>4, <2>7
<1>8. FlattenSeq(F(t)) = FlattenSeq(F(s)) \o WholeFrame(v, m, o)
  <2>. HIDE DEF F
  <2>. QED
    BY <1>5, <1>6, <1>7, FlattenAppend
<1>. QED
  BY <1>2, <1>8 DEF Coming

\* The next message, and what comes after it.
LEMMA ComingNext ==
  ASSUME NEW v \in Versions \cup {4}, NEW s \in Seq(Message), NEW k \in 0..Len(s), k < Len(s), NEW o
  PROVE  Coming(v, s, k, o) = WholeFrame(v, s[k + 1], o) \o Coming(v, s, k + 1, o)
<1>1. PICK n \in Nat : n + 1 = Len(s) - k /\ n = Len(s) - (k + 1) /\ Len(s) \in Nat
  <2>1. Len(s) \in Nat
    OBVIOUS
  <2>2. Len(s) - (k + 1) \in Nat /\ (Len(s) - (k + 1)) + 1 = Len(s) - k
    BY <2>1
  <2>. QED
    BY <2>1, <2>2
<1>2. k + 1 \in 0..Len(s)
  BY <1>1
<1>. DEFINE F(j) == [i \in 1..(Len(s) - j) |-> WholeFrame(v, s[j + i], o)]
<1>3. F(k) \in Seq(Seq(WordsIn(o))) /\ F(k + 1) \in Seq(Seq(WordsIn(o)))
  BY <1>2, FramesType
<1>4. PICK a \in Seq(Seq(WordsIn(o))), b \in Seq(Seq(WordsIn(o))) : a = F(k) /\ b = F(k + 1)
  BY <1>3
<1>5. DOMAIN a = 1..(n + 1) /\ DOMAIN b = 1..n
  BY <1>1, <1>4
<1>6. Len(a) = n + 1 /\ Len(b) = n
  <2>. HIDE DEF F
  <2>. QED
    BY <1>5
<1>7. a[1] = WholeFrame(v, s[k + 1], o)
  <2>1. 1 \in 1..(Len(s) - k)
    BY <1>1
  <2>. QED
    BY <1>4, <2>1
<1>8. \A i \in 1..n : b[i] = a[i + 1]
  <2>1. ASSUME NEW i \in 1..n PROVE b[i] = a[i + 1]
    <3>1. i \in 1..(Len(s) - (k + 1)) /\ i + 1 \in 1..(Len(s) - k) /\ (k + 1) + i = k + (i + 1)
      BY <1>1
    <3>. QED
      BY <1>4, <3>1
  <2>. QED
    BY <2>1
<1>. HIDE DEF F
<1>9. Head(a) = WholeFrame(v, s[k + 1], o) /\ Tail(a) = b /\ a # <<>>
  <2>1. a # <<>> /\ Head(a) = a[1]
    BY <1>6
  <2>2. Tail(a) \in Seq(Seq(WordsIn(o))) /\ Len(Tail(a)) = n
        /\ \A i \in 1..n : Tail(a)[i] = a[i + 1]
    BY <1>6, <2>1
  <2>3. Tail(a) = b
    BY <1>6, <1>8, <2>2, SeqEqual
  <2>. QED
    BY <1>7, <2>1, <2>3
<1>10. FlattenSeq(a) = Head(a) \o FlattenSeq(Tail(a))
  BY <1>9, FlattenHead
<1>11. Coming(v, s, k, o) = FlattenSeq(F(k)) /\ Coming(v, s, k + 1, o) = FlattenSeq(F(k + 1))
  BY DEF Coming, F
<1>. QED
  BY <1>4, <1>9, <1>10, <1>11

LEMMA ComingNone ==
  ASSUME NEW v, NEW s \in Seq(Message), NEW o
  PROVE  Coming(v, s, Len(s), o) = <<>>
<1>1. Len(s) \in Nat /\ Len(s) - Len(s) = 0
  OBVIOUS
<1>2. [i \in 1..0 |-> WholeFrame(v, s[Len(s) + i], o)] = <<>>
  OBVIOUS
<1>. QED
  BY <1>1, <1>2, FlattenNone DEF Coming

(***************************************************************************)
(* Reading a frame.                                                        *)
(***************************************************************************)
\* A reader takes as many words for the header as were written.
LEMMA HeaderIsWhole ==
  ASSUME NEW v \in Versions \cup {4}, NEW m \in Message, NEW o
  PROVE  LET h == HeaderOf(v, m, o) IN Words(h, HeaderStruct(h.version, h.size)) = h.size
<1>. DEFINE h == HeaderOf(v, m, o)
<1>1. h.version = v /\ h.size = HeaderSize(v)
  BY DEF HeaderOf
<1>2. HeaderWords(2) = 2 /\ HeaderWords(3) = 3 /\ HeaderWords(4) = 4
  BY DEF HeaderWords
<1>. HIDE DEF h
<1>3. CASE v \in 2..4
  <2>1. HeaderStruct(v, h.size) = v
    BY <1>3 DEF HeaderStruct
  <2>2. h.size = HeaderWords(v) /\ HeaderWords(v) \in Nat
    <3>1. v = 2 \/ v = 3 \/ v = 4
      BY <1>3
    <3>. QED
      BY <1>1, <1>2, <1>3, <3>1 DEF HeaderSize
  <2>. QED
    BY <1>1, <2>1, <2>2 DEF Words, h
<1>4. CASE v \notin 2..4
  <2>1. h.size = 5
    BY <1>1, <1>2, <1>4 DEF HeaderSize
  <2>2. HeaderStruct(v, 5) \in 2..4
    BY StructFacts
  <2>3. HeaderWords(HeaderStruct(v, 5)) <= 4
    <3>1. \A j \in 2..4 : j = 2 \/ j = 3 \/ j = 4
      OBVIOUS
    <3>. QED
      BY <1>2, <2>2, <3>1
  <2>4. HeaderWords(HeaderStruct(v, 5)) \in Nat
    <3>1. \A j \in 2..4 : j = 2 \/ j = 3 \/ j = 4
      OBVIOUS
    <3>. QED
      BY <1>2, <2>2, <3>1
  <2>5. Words(h, HeaderStruct(v, 5)) = h.size
    BY <2>1, <2>3, <2>4 DEF Words
  <2>. QED
    BY <1>1, <2>1, <2>5 DEF h
<1>. QED
  BY <1>3, <1>4

\* A stream that begins with a frame gives that message.
Gives(e, v, m, o, rest) ==
    Incoming(e) = {[h |-> HeaderOf(v, m, o), value |-> Decoded(v, m, o), rest |-> rest]}

LEMMA IncomingWhole ==
  ASSUME NEW e \in Ends, NEW v \in Versions \cup {4}, NEW m \in Message, NEW o,
         NEW rest \in Seq(WordsIn(o)), stream[Peer(e)] = WholeFrame(v, m, o) \o rest
  PROVE  Gives(e, v, m, o, rest)
<1>. DEFINE h == HeaderOf(v, m, o)
            struct == HeaderStruct(h.version, h.size)
            W == WordsIn(o)
<1>1. PICK head \in Seq(W), data \in Seq(W), n \in Nat, l \in Nat :
        /\ head = FrameOf(v, m, o).header /\ data = FrameOf(v, m, o).data
        /\ n = h.size /\ l = h.length /\ Len(head) = n /\ Len(data) = l /\ n >= 1
        /\ head[1] = Word(Magic, h)
        /\ Bytes(data) = Serialize(Pack(m.prop, m.value), o).bytes
        /\ Words(h, struct) = n
  <2>1. h.size = HeaderSize(v)
    BY DEF HeaderOf
  <2>2. /\ FrameOf(v, m, o).header \in Seq(W) /\ FrameOf(v, m, o).data \in Seq(W)
        /\ Len(FrameOf(v, m, o).header) = h.size /\ Len(FrameOf(v, m, o).data) = h.length
        /\ FrameOf(v, m, o).header[1] = Word(Magic, h)
        /\ Bytes(FrameOf(v, m, o).data) = Serialize(Pack(m.prop, m.value), o).bytes
        /\ h.size \in Nat \ {0} /\ h.length \in Nat
    BY <2>1, FrameParts
  <2>3. Words(h, struct) = h.size
    BY HeaderIsWhole
  <2>4. h.size >= 1
    BY <2>2
  <2>. HIDE DEF h, struct, W
  <2>. QED
    BY <2>2, <2>3, <2>4
<1>. HIDE DEF h, W
<1>2. PICK both \in Seq(W), in \in {stream[Peer(e)]} :
        both = head \o data /\ in = both \o rest /\ in = stream[Peer(e)]
  <2>1. head \o data \in Seq(W)
    OBVIOUS
  <2>2. stream[Peer(e)] = (head \o data) \o rest
    BY <1>1 DEF WholeFrame
  <2>. QED
    BY <2>1, <2>2
<1>3. /\ n + l <= Len(in) /\ in # <<>> /\ in[1] = head[1]
      /\ in \in Seq(W)
      /\ SubSeq(in, n + 1, n + l) = data
      /\ SubSeq(in, (n + l) + 1, Len(in)) = rest
  <2>1. rest \in Seq(W)
    BY DEF W
  <2>2. n = Len(head) /\ l = Len(data)
    BY <1>1
  <2>3. both = head \o data /\ in = both \o rest
    BY <1>2
  <2>4. HasParts(W, in, head, data, rest, n, l)
    BY <2>1, <2>2, <2>3, ThreeParts
  <2>. QED
    BY <1>1, <2>4 DEF HasParts
<1>5. Len(in) \in Nat /\ ~(Len(in) < n + l)
  <2>1. Len(in) \in Nat
    BY <1>3
  <2>. QED
    BY <1>3, <2>1
<1>8. in[1].byte = Magic /\ in[1].header = h
  BY <1>1, <1>3 DEF Word
<1>9. Incoming(e) = {[h |-> h, value |-> Deserialize(h, struct, Bytes(SubSeq(in, n + 1, n + l))),
                      rest |-> SubSeq(in, (n + l) + 1, Len(in))]}
  BY <1>1, <1>2, <1>3, <1>5, <1>8 DEF Incoming
<1>10. Deserialize(h, struct, Bytes(data)) = Decoded(v, m, o)
  <2>1. h.version = v
    BY DEF h, HeaderOf
  <2>. QED
    BY <1>1, <2>1 DEF Decoded, h
<1>. QED
  BY <1>3, <1>9, <1>10 DEF h, Gives

(***************************************************************************)
(* The wire.  Where no send is cut between its header and its data by      *)
(* another or by a cancellation, what is in the stream, in the buffer and  *)
(* in the hands of a send that waits are the frames of the messages that   *)
(* have not been received, one after the other.                            *)
(***************************************************************************)
Waiting(t) == task[t].state \in {"header", "resumed"}

\* Sends of e that are over one by one and are not cancelled, or of which none
\* waits for the buffer between its header and its data.
Unbroken(e) ==
    \/ e \in Serial /\ \A t \in Hasty : EndOf[t] # e
    \/ \A t \in Senders : EndOf[t] = e => ~Waiting(t)

\* What the send that waits has still to write.
Pending(e, d) ==
    \/ d = <<>> /\ \A t \in Senders : EndOf[t] = e => ~Waiting(t)
    \/ \E t \in Senders :
          /\ EndOf[t] = e /\ Waiting(t) /\ d = task[t].data
          /\ \A u \in Senders : EndOf[u] = e /\ InFlight(u) => u = t

OnWire(e, k) == Coming(version[e], sent[e], k, native["client"])
WireOK(e) ==
    \E d \in Seq(Theirs) :
        Pending(e, d) /\ (stream[e] \o buffer[e]) \o d = OnWire(e, Len(received[Peer(e)]))
FlagsOK ==
    \A e \in Ends : \A i \in 1..Len(sent[e]) : Sendable(version[e], sent[e][i])
\* Why a listener stops: at the next message, or after the last one.
Arrived(e, n) == Decoded(version[Peer(e)], sent[Peer(e)][n], native["client"])
Stopped(e) ==
    \/ /\ Len(received[e]) < Len(sent[Peer(e)])
       /\ Arrived(e, Len(received[e]) + 1) = Failed
    \/ /\ Len(received[e]) \in 1..Len(sent[Peer(e)])
       /\ Arrived(e, Len(received[e])) # Failed
       /\ Raises(e, sent[Peer(e)][Len(received[e])].prop, Arrived(e, Len(received[e])))
DeafOK == \A e \in deaf : Stopped(e)
WireInv == FlagsOK /\ (\A e \in Ends : WireOK(e)) /\ DeafOK

\* The parts the invariant is about have their types.
LEMMA WireTypes ==
  ASSUME Inv, NEW e \in Ends
  PROVE  /\ stream[e] \in Seq(Theirs) /\ buffer[e] \in Seq(Theirs)
         /\ sent[e] \in Seq(Message) /\ version[e] \in Versions \cup {4}
         /\ Len(received[e]) \in Nat /\ Len(sent[e]) \in Nat
         /\ Len(received[Peer(e)]) \in 0..Len(sent[e])
         /\ \A t \in Senders : task[t].data \in Seq(Theirs)
<1>1. /\ stream[e] \in Seq(Theirs) /\ buffer[e] \in Seq(Theirs)
      /\ sent[e] \in Seq(Message) /\ version[e] \in Versions \cup {4}
  BY DEF Inv, WordsOK, ListsOK, FixedOK
<1>2. ASSUME NEW t \in Senders PROVE task[t].data \in Seq(Theirs)
  <2>1. task[t].data \in Seq(DataWords(native["client"]))
    BY DEF Inv, WordsOK
  <2>2. DataWords(native["client"]) \subseteq Theirs
    BY WordFacts DEF Theirs
  <2>. QED
    BY <2>1, <2>2
<1>3. Len(received[Peer(e)]) \in 0..Len(sent[e])
  <2>1. /\ Len(received[Peer(e)]) \in Nat /\ Count(stream[e]) \in Nat
        /\ Count(buffer[e]) \in Nat /\ Len(sent[e]) \in Nat
        /\ Len(received[Peer(e)]) + Count(stream[e]) + Count(buffer[e]) <= Len(sent[e])
    BY CountFacts
  <2>2. \A a, b, c, d \in Nat : a + b + c <= d => a \in 0..d
    OBVIOUS
  <2>. QED
    BY <2>1, <2>2
<1>4. Len(received[e]) \in Nat /\ Len(sent[e]) \in Nat
  <2>1. Peer(e) \in Ends /\ Peer(Peer(e)) = e
    BY PeerFacts
  <2>2. Len(received[Peer(Peer(e))]) \in Nat /\ Len(sent[e]) \in Nat
    BY <2>1, CountFacts
  <2>. QED
    BY <2>1, <2>2
<1>. QED
  BY <1>1, <1>2, <1>3, <1>4

LEMMA WireInit == Init => WireInv
<1>. SUFFICES ASSUME Init PROVE WireInv
  OBVIOUS
<1>1. FlagsOK /\ DeafOK
  BY DEF Init, FlagsOK, DeafOK
<1>2. ASSUME NEW e \in Ends PROVE WireOK(e)
  <2>1. /\ stream[e] = <<>> /\ buffer[e] = <<>> /\ sent[e] = <<>>
        /\ received[Peer(e)] = <<>>
    BY PeerFacts DEF Init
  <2>2. Pending(e, <<>>)
    BY DEF Init, Pending, Waiting, Task
  <2>3. OnWire(e, Len(received[Peer(e)])) = <<>>
    <3>1. <<>> \in Seq(Message)
      OBVIOUS
    <3>2. Coming(version[e], <<>>, Len(<<>>), native["client"]) = <<>>
      BY <3>1, ComingNone
    <3>. QED
      BY <2>1, <3>2 DEF OnWire
  <2>4. <<>> \in Seq(Theirs) /\ (<<>> \o <<>>) \o <<>> = <<>>
    OBVIOUS
  <2>. QED
    BY <2>1, <2>2, <2>3, <2>4 DEF WireOK
<1>. QED
  BY <1>1, <1>2 DEF WireInv

\* An end at which nothing happens.
LEMMA WireSame ==
  ASSUME NEW e \in Ends, WireOK(e),
         UNCHANGED <<version, native, stream[e], buffer[e], sent[e], received[Peer(e)]>>,
         \A t \in Senders : EndOf[t] = e => task'[t] = task[t]
  PROVE  WireOK(e)'
<1>1. PICK d \in Seq(Theirs) :
        Pending(e, d) /\ (stream[e] \o buffer[e]) \o d = OnWire(e, Len(received[Peer(e)]))
  BY DEF WireOK
<1>2. Theirs' = Theirs
  BY DEF Theirs, WordsIn, Headers, HeaderOf
<1>3. Pending(e, d)'
  BY <1>1 DEF Pending, Waiting, InFlight
<1>4. OnWire(e, Len(received[Peer(e)]))' = OnWire(e, Len(received[Peer(e)]))
  BY DEF OnWire, Coming, WholeFrame
<1>. QED
  BY <1>1, <1>2, <1>3, <1>4 DEF WireOK

(***************************************************************************)
(* The actions.                                                            *)
(***************************************************************************)
\* What a send hands to the transport and what it keeps is the frame of its
\* message.
LEMMA WireSendSame ==
  ASSUME Inv, Inv', WireInv, \A e \in Ends : Unbroken(e), \A e \in Ends : Unbroken(e)',
         NEW t \in Senders, Send(t)
  PROVE  WireOK(EndOf[t])'
<1>1. PICK e \in Ends : e = EndOf[t]
  BY FramingAssumption
<1>2. UNCHANGED <<version, native, high, order, stream, deaf, table, received>>
  BY DEF Send
<1>3. PICK m \in Message :
        LET frame  == FrameOf(version[e], m, native["client"])
            header == buffer[e] \o frame.header
            all    == header \o frame.data
        IN /\ IF Full(e, header)
                THEN Write(e, header) /\ task' = [task EXCEPT ![t] = Task("header", frame.data)]
                ELSE Write(e, all) /\ task' = [task EXCEPT ![t] =
                       Task(IF Full(e, all) THEN "drain" ELSE "over", <<>>)]
           /\ sent' = [sent EXCEPT ![e] = Append(@, m)]
  <2>1. PICK m \in {x \in Contents[t] : Sendable(version[e], x)} :
          LET frame  == Frame(e, m)
              header == buffer[e] \o frame.header
              all    == header \o frame.data
          IN /\ IF Full(e, header)
                  THEN Write(e, header) /\ task' = [task EXCEPT ![t] = Task("header", frame.data)]
                  ELSE Write(e, all) /\ task' = [task EXCEPT ![t] =
                         Task(IF Full(e, all) THEN "drain" ELSE "over", <<>>)]
             /\ sent' = [sent EXCEPT ![e] = Append(@, m)]
    BY <1>1 DEF Send
  <2>2. Frame(e, m) = FrameOf(version[e], m, native["client"])
    BY <1>1, SendOrder DEF Frame
  <2>3. m \in Message
    BY DEF Message
  <2>. QED
    BY <2>1, <2>2, <2>3
<1>4. PICK v \in Versions \cup {4}, s \in Seq(Message), k \in Nat, o \in {native["client"]} :
        /\ v = version[e] /\ s = sent[e] /\ k = Len(received[Peer(e)]) /\ k \in 0..Len(s)
        /\ o = native["client"]
  <2>1. /\ sent[e] \in Seq(Message) /\ version[e] \in Versions \cup {4}
        /\ Len(received[Peer(e)]) \in 0..Len(sent[e])
    BY WireTypes
  <2>. QED
    BY SMTT(30), <2>1
<1>5. \A u \in Senders : EndOf[u] = e => ~Waiting(u)
  <2>1. CASE e \in Serial
    BY <1>1, <2>1 DEF Send, InFlight, Waiting
  <2>2. CASE e \notin Serial
    BY <2>2 DEF Unbroken
  <2>. QED
    BY <2>1, <2>2
<1>6. stream[e] \o buffer[e] = Coming(v, s, k, o)
  <2>1. PICK d \in Seq(Theirs) :
          Pending(e, d) /\ (stream[e] \o buffer[e]) \o d = OnWire(e, Len(received[Peer(e)]))
    BY DEF WireInv, WireOK
  <2>2. d = <<>>
    BY <1>5, <2>1 DEF Pending
  <2>3. stream[e] \o buffer[e] \in Seq(Theirs)
    <3>1. stream[e] \in Seq(Theirs) /\ buffer[e] \in Seq(Theirs)
      BY WireTypes
    <3>. QED
      BY <3>1
  <2>4. (stream[e] \o buffer[e]) \o <<>> = stream[e] \o buffer[e]
    BY <2>3
  <2>. QED
    BY <1>4, <2>1, <2>2, <2>4 DEF OnWire
<1>7. PICK head \in Seq(Theirs), data \in Seq(Theirs) :
        /\ head = FrameOf(v, m, o).header /\ data = FrameOf(v, m, o).data
        /\ head \o data = WholeFrame(v, m, o)
  BY <1>4, FrameParts DEF WholeFrame, Theirs
<1>8. PICK a \in Seq(Theirs), b \in Seq(Theirs) : a = stream[e] /\ b = buffer[e]
  BY WireTypes
<1>9. (a \o b) \o (head \o data) = Coming(v, Append(s, m), k, o)
  <2>1. k \in 0..Len(s)
    BY <1>4
  <2>2. Coming(v, Append(s, m), k, o) = Coming(v, s, k, o) \o WholeFrame(v, m, o)
    BY <2>1, ComingMore
  <2>. QED
    BY <1>6, <1>7, <1>8, <2>2
<1>10. /\ stream'[e] = a /\ received'[Peer(e)] = received[Peer(e)]
       /\ version'[e] = v /\ native'["client"] = o /\ Theirs' = Theirs
       /\ sent'[e] = Append(s, m)
  <2>1. Theirs' = Theirs
    BY <1>2 DEF Theirs, WordsIn, Headers, HeaderOf
  <2>2. sent \in [Ends -> Seq(Message)]
    BY DEF Inv, ListsOK
  <2>. QED
    BY <1>2, <1>3, <1>4, <1>8, <2>1, <2>2
<1>11. OnWire(e, Len(received[Peer(e)]))' = (a \o b) \o (head \o data)
  BY <1>4, <1>9, <1>10 DEF OnWire
<1>12. buffer \in [Ends -> Seq(Theirs)] /\ task = [u \in Senders |-> task[u]]
  BY DEF Inv, WordsOK
<1>0. SameGroups4(a, b, head, data)
  BY Grouped4
<1>13. CASE Full(e, b \o head)
  <2>1. Write(e, b \o head) /\ task' = [task EXCEPT ![t] = Task("header", data)]
    BY <1>3, <1>4, <1>7, <1>8, <1>13
  <2>2. buffer'[e] = b \o head /\ task'[t] = Task("header", data)
        /\ \A u \in Senders : u # t => task'[u] = task[u]
    BY <1>12, <2>1 DEF Write
  <2>3. Pending(e, data)'
    <3>1. Waiting(t)' /\ task'[t].data = data
      BY <2>2 DEF Waiting, Task
    <3>2. e \in Serial
      BY <1>1, <3>1 DEF Unbroken
    <3>3. \A u \in Senders : EndOf[u] = e /\ InFlight(u)' => u = t
      BY <1>1, <2>2, <3>2 DEF Send, InFlight
    <3>. QED
      BY <1>1, <3>1, <3>3 DEF Pending
  <2>4. (a \o (b \o head)) \o data = (a \o b) \o (head \o data)
    BY <1>0 DEF SameGroups4
  <2>5. (stream'[e] \o buffer'[e]) \o data = OnWire(e, Len(received[Peer(e)]))'
    BY <1>10, <1>11, <2>2, <2>4
  <2>6. data \in Seq(Theirs)'
    BY <1>10
  <2>7. WireOK(e)'
    BY <2>3, <2>5, <2>6 DEF WireOK
  <2>. QED
    BY <1>1, <2>7
<1>14. CASE ~Full(e, b \o head)
  <2>1. PICK z \in {"drain", "over"} :
          Write(e, (b \o head) \o data) /\ task' = [task EXCEPT ![t] = Task(z, <<>>)]
    BY <1>3, <1>4, <1>7, <1>8, <1>14
  <2>2. buffer'[e] = (b \o head) \o data /\ task'[t] = Task(z, <<>>)
        /\ \A u \in Senders : u # t => task'[u] = task[u]
    BY <1>12, <2>1 DEF Write
  <2>3. Pending(e, <<>>)'
    BY SMTT(30), <1>5, <2>2 DEF Pending, Waiting, Task
  <2>4. (a \o ((b \o head) \o data)) \o <<>> = (a \o b) \o (head \o data)
    BY <1>0 DEF SameGroups4
  <2>5. (stream'[e] \o buffer'[e]) \o <<>> = OnWire(e, Len(received[Peer(e)]))'
    BY <1>10, <1>11, <2>2, <2>4
  <2>6. <<>> \in Seq(Theirs')
    OBVIOUS
  <2>7. WireOK(e)'
    BY <2>3, <2>5, <2>6 DEF WireOK
  <2>. QED
    BY <1>1, <2>7
<1>. QED
  BY <1>1, <1>13, <1>14

LEMMA WireSendData ==
  ASSUME Inv, WireInv, NEW t \in Senders, SendData(t)
  PROVE  WireOK(EndOf[t])'
<1>1. PICK e \in Ends : e = EndOf[t]
  BY FramingAssumption
<1>2. UNCHANGED <<version, native, high, order, stream, deaf, table, array, sent, received>>
  BY DEF SendData
<1>3. PICK a \in Seq(Theirs), b \in Seq(Theirs), data \in Seq(Theirs) :
        a = stream[e] /\ b = buffer[e] /\ data = task[t].data
  BY WireTypes
<1>4. PICK z \in {"drain", "over"} :
        Write(e, b \o data) /\ task' = [task EXCEPT ![t] = Task(z, <<>>)]
  BY <1>1, <1>3 DEF SendData
<1>5. PICK d \in Seq(Theirs) :
        Pending(e, d) /\ (a \o b) \o d = OnWire(e, Len(received[Peer(e)]))
  BY <1>3 DEF WireInv, WireOK
<1>6. Waiting(t) /\ InFlight(t)
  BY DEF SendData, Waiting, InFlight
<1>7. d = data /\ \A u \in Senders : EndOf[u] = e /\ InFlight(u) => u = t
  BY <1>1, <1>3, <1>5, <1>6 DEF Pending
<1>8. buffer'[e] = b \o data /\ task'[t] = Task(z, <<>>)
      /\ \A u \in Senders : u # t => task'[u] = task[u]
  <2>1. buffer \in [Ends -> Seq(Theirs)] /\ task = [u \in Senders |-> task[u]]
    BY DEF Inv, WordsOK
  <2>. QED
    BY <1>4, <2>1 DEF Write
<1>9. Pending(e, <<>>)'
  BY <1>7, <1>8 DEF Pending, Waiting, InFlight, Task
<1>10. (a \o (b \o data)) \o <<>> = (a \o b) \o data
  <2>1. SameGroups4(a, b, data, data)
    BY Grouped4
  <2>. QED
    BY <2>1 DEF SameGroups4
<1>11. OnWire(e, Len(received[Peer(e)]))' = OnWire(e, Len(received[Peer(e)])) /\ Theirs' = Theirs
  BY <1>2 DEF OnWire, Coming, WholeFrame, Theirs, WordsIn, Headers, HeaderOf
<1>12. <<>> \in Seq(Theirs)
  OBVIOUS
<1>13. (a \o (b \o data)) \o <<>> = OnWire(e, Len(received[Peer(e)]))'
  BY <1>5, <1>7, <1>10, <1>11
<1>. QED
  BY <1>1, <1>2, <1>3, <1>8, <1>9, <1>11, <1>12, <1>13 DEF WireOK

LEMMA WireCancel ==
  ASSUME Inv, WireInv, \A e \in Ends : Unbroken(e), NEW t \in Senders, Cancel(t)
  PROVE  WireOK(EndOf[t])'
<1>1. PICK e \in Ends : e = EndOf[t]
  BY FramingAssumption
<1>2. /\ task' = [task EXCEPT ![t] = Task("over", <<>>)]
      /\ UNCHANGED <<version, native, high, order, buffer, paused, stream, deaf, table, array,
                     sent, received>>
  BY DEF Cancel
<1>3. ~Waiting(t)
  <2>1. CASE task[t].state = "drain"
    BY <2>1 DEF Waiting
  <2>2. CASE t \in Hasty /\ task[t].state = "header"
    <3>1. Waiting(t)
      BY <2>2 DEF Waiting
    <3>. QED
      BY <1>1, <2>2, <3>1 DEF Unbroken
  <2>. QED
    BY <2>1, <2>2 DEF Cancel
<1>4. PICK d \in Seq(Theirs) :
        Pending(e, d) /\ (stream[e] \o buffer[e]) \o d = OnWire(e, Len(received[Peer(e)]))
  BY DEF WireInv, WireOK
<1>5. task'[t] = Task("over", <<>>) /\ \A u \in Senders : u # t => task'[u] = task[u]
  <2>1. task = [u \in Senders |-> task[u]]
    BY DEF Inv, WordsOK
  <2>. QED
    BY <1>2, <2>1
<1>6. Pending(e, d)'
  BY <1>3, <1>4, <1>5 DEF Pending, Waiting, InFlight, Task
<1>7. OnWire(e, Len(received[Peer(e)]))' = OnWire(e, Len(received[Peer(e)])) /\ Theirs' = Theirs
  BY <1>2 DEF OnWire, Coming, WholeFrame, Theirs, WordsIn, Headers, HeaderOf
<1>. QED
  BY <1>1, <1>2, <1>4, <1>6, <1>7 DEF WireOK

LEMMA WireRefuse ==
  ASSUME Inv, WireInv, NEW t \in Senders, Refuse(t)
  PROVE  WireOK(EndOf[t])'
<1>1. PICK e \in Ends : e = EndOf[t]
  BY FramingAssumption
<1>2. /\ task[t].state = "idle" /\ task'[t] = Task("over", <<>>)
      /\ \A u \in Senders : u # t => task'[u] = task[u]
      /\ UNCHANGED <<version, native, high, order, buffer, paused, stream, deaf, table, array,
                     sent, received>>
  BY RefuseFacts
<1>3. PICK d \in Seq(Theirs) :
        Pending(e, d) /\ (stream[e] \o buffer[e]) \o d = OnWire(e, Len(received[Peer(e)]))
  BY DEF WireInv, WireOK
<1>4. Pending(e, d)'
  BY <1>2, <1>3 DEF Pending, Waiting, InFlight, Task
<1>5. OnWire(e, Len(received[Peer(e)]))' = OnWire(e, Len(received[Peer(e)])) /\ Theirs' = Theirs
  BY <1>2 DEF OnWire, Coming, WholeFrame, Theirs, WordsIn, Headers, HeaderOf
<1>. QED
  BY <1>1, <1>2, <1>3, <1>4, <1>5 DEF WireOK

LEMMA WireTransmit ==
  ASSUME Inv, WireInv, NEW e \in Ends, Transmit(e)
  PROVE  WireOK(e)'
<1>1. UNCHANGED <<version, native, high, order, deaf, table, array, sent, received>>
  BY DEF Transmit
<1>2. PICK a \in Seq(Theirs), b \in Seq(Theirs) : a = stream[e] /\ b = buffer[e]
  BY WireTypes
<1>3. PICK d \in Seq(Theirs) :
        Pending(e, d) /\ (a \o b) \o d = OnWire(e, Len(received[Peer(e)]))
  BY <1>2 DEF WireInv, WireOK
<1>4. stream'[e] = a \o b /\ buffer'[e] = <<>>
  <2>1. buffer \in [Ends -> Seq(Theirs)] /\ stream \in [Ends -> Seq(Theirs)]
    BY DEF Inv, WordsOK
  <2>. QED
    BY <1>2, <2>1 DEF Transmit
<1>5. ASSUME NEW t \in Senders, EndOf[t] = e
      PROVE  /\ Waiting(t)' <=> Waiting(t)
             /\ InFlight(t)' => InFlight(t)
             /\ Waiting(t) => task'[t].data = task[t].data
  <2>1. task'[t] =
          CASE EndOf[t] = e /\ task[t].state = "header" -> Task("resumed", task[t].data)
            [] EndOf[t] = e /\ task[t].state = "drain"  -> Task("over", <<>>)
            [] OTHER                                    -> task[t]
    BY DEF Transmit
  <2>2. CASE task[t].state = "header"
    <3>1. task'[t] = Task("resumed", task[t].data)
      BY <1>5, <2>1, <2>2
    <3>. QED
      BY <2>2, <3>1 DEF Waiting, InFlight, Task
  <2>3. CASE task[t].state = "drain"
    <3>1. task'[t] = Task("over", <<>>)
      BY <1>5, <2>1, <2>3
    <3>. QED
      BY <2>3, <3>1 DEF Waiting, InFlight, Task
  <2>4. CASE task[t].state # "header" /\ task[t].state # "drain"
    <3>1. task'[t] = task[t]
      BY <2>1, <2>4
    <3>. QED
      BY <3>1 DEF Waiting, InFlight
  <2>. QED
    BY <2>2, <2>3, <2>4
<1>6. Pending(e, d)'
  BY <1>3, <1>5 DEF Pending
<1>7. OnWire(e, Len(received[Peer(e)]))' = OnWire(e, Len(received[Peer(e)])) /\ Theirs' = Theirs
  BY <1>1 DEF OnWire, Coming, WholeFrame, Theirs, WordsIn, Headers, HeaderOf
<1>8. ((a \o b) \o <<>>) \o d = (a \o b) \o d
  <2>1. a \o b \in Seq(Theirs)
    OBVIOUS
  <2>. QED
    BY <2>1
<1>. QED
  BY <1>3, <1>4, <1>6, <1>7, <1>8 DEF WireOK

(***************************************************************************)
(* What a listener takes is the next message of the other end.             *)
(***************************************************************************)
LEMMA WholeFacts ==
  ASSUME NEW v \in Versions \cup {4}, NEW m \in Message, NEW o
  PROVE  LET h == HeaderOf(v, m, o) IN
         /\ WholeFrame(v, m, o) \in Seq(WordsIn(o))
         /\ h.size \in Nat /\ h.size >= 1 /\ h.length \in Nat
         /\ Len(WholeFrame(v, m, o)) = h.size + h.length
         /\ WholeFrame(v, m, o)[1] = Word(Magic, h)
         /\ Words(h, HeaderStruct(h.version, h.size)) = h.size
<1>. DEFINE h == HeaderOf(v, m, o)
            W == WordsIn(o)
<1>1. h.size = HeaderSize(v)
  BY DEF HeaderOf
<1>2. /\ FrameOf(v, m, o).header \in Seq(W) /\ FrameOf(v, m, o).data \in Seq(W)
      /\ Len(FrameOf(v, m, o).header) = h.size /\ Len(FrameOf(v, m, o).data) = h.length
      /\ FrameOf(v, m, o).header[1] = Word(Magic, h)
      /\ WholeFrame(v, m, o) \in Seq(W)
      /\ h.size \in Nat \ {0} /\ h.length \in Nat
  BY <1>1, FrameParts
<1>3. Words(h, HeaderStruct(h.version, h.size)) = h.size
  BY HeaderIsWhole
<1>. HIDE DEF h, W
<1>4. PICK a \in Seq(W), b \in Seq(W), n \in Nat, k \in Nat :
        /\ a = FrameOf(v, m, o).header /\ b = FrameOf(v, m, o).data
        /\ n = h.size /\ k = h.length /\ n = Len(a) /\ k = Len(b) /\ n >= 1
        /\ a[1] = Word(Magic, h) /\ WholeFrame(v, m, o) = a \o b
  <2>1. h.size >= 1
    BY <1>2
  <2>. QED
    BY <1>2, <2>1 DEF WholeFrame
<1>5. Len(a \o b) = n + k /\ (a \o b)[1] = a[1]
  <2>1. 1 \in 1..Len(a)
    <3>1. \A j \in Nat : j >= 1 => 1 \in 1..j
      OBVIOUS
    <3>2. n >= 1 /\ n = Len(a)
      BY <1>4
    <3>. QED
      BY <3>1, <3>2
  <2>2. Len(a \o b) = Len(a) + Len(b)
    OBVIOUS
  <2>3. (a \o b)[1] = a[1]
    BY <2>1
  <2>4. n = Len(a) /\ k = Len(b)
    BY <1>4
  <2>. QED
    BY <2>2, <2>3, <2>4
<1>. QED
  BY <1>2, <1>3, <1>4, <1>5 DEF h, W

TakesNext(e, m) ==
    LET p == Peer(e)
        k == Len(received[e])
    IN /\ k < Len(sent[p])
       /\ m.h = HeaderOf(version[p], sent[p][k + 1], native["client"])
       /\ m.value = Decoded(version[p], sent[p][k + 1], native["client"])
       /\ m.rest \in Seq(Theirs)
       /\ \E d \in Seq(Theirs) : Pending(p, d) /\ (m.rest \o buffer[p]) \o d = OnWire(p, k + 1)

LEMMA IncomingIs ==
  ASSUME Inv, NEW e \in Ends, WireOK(Peer(e)), NEW m \in Incoming(e)
  PROVE  TakesNext(e, m)
<1>1. PICK p \in Ends : p = Peer(e) /\ Peer(p) = e
  BY PeerFacts
<1>2. PICK in \in Seq(Theirs), b \in Seq(Theirs), v \in Versions \cup {4}, s \in Seq(Message),
           k \in Nat, o \in {native["client"]} :
        /\ in = stream[p] /\ b = buffer[p] /\ v = version[p] /\ s = sent[p]
        /\ k = Len(received[e]) /\ k \in 0..Len(s) /\ Len(s) \in Nat
  <2>1. /\ stream[p] \in Seq(Theirs) /\ buffer[p] \in Seq(Theirs)
        /\ sent[p] \in Seq(Message) /\ version[p] \in Versions \cup {4}
        /\ Len(sent[p]) \in Nat /\ Len(received[Peer(p)]) \in 0..Len(sent[p])
    BY WireTypes
  <2>2. Len(received[e]) \in Nat
    BY WireTypes
  <2>. QED
    BY <1>1, <2>1, <2>2
<1>3. PICK d \in Seq(Theirs) : Pending(p, d) /\ (in \o b) \o d = Coming(v, s, k, o)
  BY <1>1, <1>2 DEF WireOK, OnWire
<1>4. in # <<>>
  BY <1>1, <1>2 DEF Incoming
<1>5. PICK bd \in Seq(Theirs) : bd = b \o d /\ in \o bd = Coming(v, s, k, o)
  <2>1. SameGroups(in, b, d) /\ b \o d \in Seq(Theirs)
    BY Grouped
  <2>. QED
    BY <1>3, <2>1 DEF SameGroups
<1>6. k < Len(s)
  <2>1. ASSUME k = Len(s) PROVE FALSE
    <3>1. Coming(v, s, k, o) = <<>>
      BY <2>1, ComingNone
    <3>2. in \o bd = <<>>
      BY <1>5, <3>1
    <3>. QED
      BY <1>4, <3>2
  <2>. QED
    BY <1>2, <2>1
<1>7. PICK x \in Message : x = s[k + 1]
  <2>1. k + 1 \in 1..Len(s)
    BY <1>2, <1>6
  <2>. QED
    BY <2>1
<1>8. PICK f \in Seq(Theirs), c \in Seq(Theirs) :
        /\ f = WholeFrame(v, x, o) /\ c = Coming(v, s, k + 1, o)
        /\ in \o bd = f \o c
  <2>1. k + 1 \in 0..Len(s)
    BY <1>2, <1>6
  <2>2. Theirs = WordsIn(o)
    BY DEF Theirs
  <2>3. Coming(v, s, k + 1, o) \in Seq(Theirs)
    BY <2>1, <2>2, FramesType
  <2>4. WholeFrame(v, x, o) \in Seq(Theirs)
    BY <2>2, FrameParts
  <2>5. k \in 0..Len(s)
    BY <1>2
  <2>6. Coming(v, s, k, o) = WholeFrame(v, s[k + 1], o) \o Coming(v, s, k + 1, o)
    BY <1>6, <2>5, ComingNext
  <2>. QED
    BY <1>5, <1>7, <2>3, <2>4, <2>6
<1>9. PICK h \in {HeaderOf(v, x, o)}, n \in Nat, l \in Nat :
        /\ h = HeaderOf(v, x, o) /\ n = h.size /\ l = h.length /\ n >= 1
        /\ Len(f) = n + l /\ f[1] = Word(Magic, h)
        /\ Words(h, HeaderStruct(h.version, h.size)) = n
  BY <1>8, WholeFacts
<1>10. in[1] = Word(Magic, h)
  <2>1. 1 \in 1..Len(in) /\ 1 \in 1..Len(f)
    <3>1. \A j \in Nat : j >= 1 => 1 \in 1..j
      OBVIOUS
    <3>2. \A q \in Seq(Theirs) : q # <<>> => Len(q) \in Nat /\ Len(q) >= 1
      OBVIOUS
    <3>3. n + l >= 1 /\ n + l \in Nat
      BY <1>9
    <3>. QED
      BY <1>4, <1>9, <3>1, <3>2, <3>3
  <2>2. (in \o bd)[1] = in[1]
    BY <2>1
  <2>3. (f \o c)[1] = f[1]
    BY <2>1
  <2>. QED
    BY <1>8, <1>9, <2>2, <2>3
<1>11. ~(Len(in) < n + l)
  <2>1. in[1].byte = Magic /\ in[1].header = h
    BY <1>10 DEF Word
  <2>2. stream[Peer(e)] = in
    BY <1>1, <1>2
  <2>. QED
    BY <1>4, <1>9, <2>1, <2>2 DEF Incoming
<1>12. PICK r \in Seq(Theirs) : in = f \o r /\ r \o bd = c
  <2>1. Len(in) >= Len(f)
    <3>1. Len(in) \in Nat
      OBVIOUS
    <3>. QED
      BY <1>9, <1>11, <3>1
  <2>2. in \o bd = f \o c
    BY <1>8
  <2>3. BeginsWith(Theirs, in, f, bd, c)
    BY <2>1, <2>2, LongerPart
  <2>. QED
    BY <2>3 DEF BeginsWith
<1>13. m = [h |-> HeaderOf(v, x, o), value |-> Decoded(v, x, o), rest |-> r]
  <2>1. stream[Peer(e)] = WholeFrame(v, x, o) \o r
    BY <1>1, <1>2, <1>8, <1>12
  <2>2. r \in Seq(WordsIn(o))
    BY DEF Theirs
  <2>3. Gives(e, v, x, o, r)
    BY <2>1, <2>2, IncomingWhole
  <2>. QED
    BY <2>3 DEF Gives
<1>14. (r \o b) \o d = OnWire(p, k + 1)
  <2>1. SameGroups(r, b, d)
    BY Grouped
  <2>. QED
    BY <1>2, <1>5, <1>8, <1>12, <2>1 DEF SameGroups, OnWire
<1>. QED
  BY <1>1, <1>2, <1>3, <1>6, <1>7, <1>13, <1>14 DEF TakesNext

LEMMA WireReceive ==
  ASSUME Inv, WireInv, NEW e \in Ends, Receive(e)
  PROVE  WireOK(Peer(e))'
<1>1. PICK p \in Ends : p = Peer(e) /\ Peer(p) = e
  BY PeerFacts
<1>2. PICK m \in Incoming(e) :
        /\ stream' = [stream EXCEPT ![p] = m.rest]
        /\ received' = [received EXCEPT ![e] = Append(@, m.value)]
        /\ UNCHANGED <<version, native, high, buffer, paused, task, array, sent>>
  BY <1>1 DEF Receive
<1>3. TakesNext(e, m)
  BY <1>1, IncomingIs DEF WireInv
<1>4. PICK k \in Nat : k = Len(received[e]) /\ Len(received'[e]) = k + 1
  <2>1. IsList(received[e]) /\ received'[e] = Append(received[e], m.value)
    BY <1>2 DEF Inv, ListsOK
  <2>. QED
    BY <2>1, ListFacts
<1>5. PICK d \in Seq(Theirs) : Pending(p, d) /\ (m.rest \o buffer[p]) \o d = OnWire(p, k + 1)
  BY <1>1, <1>3, <1>4 DEF TakesNext
<1>6. stream'[p] = m.rest
  BY <1>2 DEF Inv, WordsOK
<1>7. Pending(p, d)'
  BY <1>2, <1>5 DEF Pending, Waiting, InFlight
<1>8. OnWire(p, Len(received[e]))' = OnWire(p, k + 1) /\ Theirs' = Theirs
  <2>1. OnWire(p, Len(received[e]))' = OnWire(p, k + 1)
    <3>1. Len(received'[e]) = k + 1
      BY <1>4
    <3>2. version' = version /\ native' = native /\ sent' = sent
      BY <1>2
    <3>. QED
      BY <3>1, <3>2 DEF OnWire
  <2>2. Theirs' = Theirs
    BY <1>2 DEF Theirs, WordsIn, Headers, HeaderOf
  <2>. QED
    BY <2>1, <2>2
<1>9. (stream'[p] \o buffer'[p]) \o d = OnWire(p, Len(received[e]))'
  BY <1>2, <1>5, <1>6, <1>8
<1>10. WireOK(p)'
  BY <1>1, <1>7, <1>8, <1>9 DEF WireOK
<1>. QED
  BY <1>1, <1>10

(***************************************************************************)
(* Every step keeps the wire as it should be.                              *)
(***************************************************************************)
AllUnbroken == \A e \in Ends : Unbroken(e)

LEMMA DeafSame ==
  ASSUME Inv, DeafOK, NEW e \in deaf,
         version' = version, native' = native, received'[e] = received[e],
         \A i \in 1..Len(sent[Peer(e)]) : sent'[Peer(e)][i] = sent[Peer(e)][i],
         Len(sent'[Peer(e)]) >= Len(sent[Peer(e)]), Len(sent'[Peer(e)]) \in Nat
  PROVE  Stopped(e)'
<1>1. e \in Ends /\ Peer(e) \in Ends
  BY PeerFacts DEF Inv, ListsOK
<1>2. PICK k \in Nat, n \in Nat, j \in Nat :
        k = Len(received[e]) /\ n = Len(sent[Peer(e)]) /\ j = Len(sent'[Peer(e)])
  BY <1>1, WireTypes
<1>3. k = Len(received'[e]) /\ n <= j
  BY <1>2
<1>4. CASE k < n /\ Arrived(e, k + 1) = Failed
  <2>1. k + 1 \in 1..n /\ k < j
    BY <1>3, <1>4
  <2>2. sent'[Peer(e)][k + 1] = sent[Peer(e)][k + 1]
    BY <1>2, <2>1
  <2>3. Decoded(version'[Peer(e)], sent'[Peer(e)][k + 1], native'["client"]) = Failed
    BY <1>4, <2>2 DEF Arrived
  <2>. QED
    BY <1>2, <1>3, <2>1, <2>3 DEF Stopped, Arrived
<1>5. CASE k \in 1..n /\ Arrived(e, k) # Failed /\ Raises(e, sent[Peer(e)][k].prop, Arrived(e, k))
  <2>1. k \in 1..j
    BY <1>3, <1>5
  <2>2. sent'[Peer(e)][k] = sent[Peer(e)][k]
    BY <1>2, <1>5
  <2>3. Decoded(version'[Peer(e)], sent'[Peer(e)][k], native'["client"]) = Arrived(e, k)
    BY <2>2 DEF Arrived
  <2>. QED
    BY <1>2, <1>3, <1>5, <2>1, <2>2, <2>3 DEF Stopped, Arrived, Raises
<1>. QED
  BY <1>2, <1>4, <1>5 DEF DeafOK, Stopped

LEMMA WireSend ==
  ASSUME Inv, Inv', WireInv, AllUnbroken, AllUnbroken', NEW t \in Senders, Send(t)
  PROVE  WireInv'
<1>1. PICK e \in Ends : e = EndOf[t]
  BY FramingAssumption
<1>2. UNCHANGED <<version, native, high, order, stream, deaf, table, received>>
  BY DEF Send
<1>3. PICK m \in Message :
        /\ Sendable(version[e], m)
        /\ sent' = [sent EXCEPT ![e] = Append(@, m)]
  BY <1>1 DEF Send, Message
<1>4. ASSUME NEW d \in Ends
      PROVE  /\ \A i \in 1..Len(sent[d]) : sent'[d][i] = sent[d][i]
             /\ Len(sent'[d]) \in Nat /\ Len(sent'[d]) >= Len(sent[d])
             /\ \A i \in 1..Len(sent'[d]) : i \notin 1..Len(sent[d]) => d = e /\ sent'[d][i] = m
  <2>1. sent \in [Ends -> Seq(Message)]
    BY DEF Inv, ListsOK
  <2>2. PICK s \in Seq(Message) : s = sent[d]
    BY <2>1
  <2>3. CASE d = e
    <3>1. sent'[d] = Append(s, m)
      BY <1>3, <2>1, <2>2, <2>3
    <3>2. /\ \A i \in 1..Len(s) : Append(s, m)[i] = s[i]
          /\ Len(Append(s, m)) \in Nat /\ Len(Append(s, m)) >= Len(s)
          /\ \A i \in 1..Len(Append(s, m)) : i \notin 1..Len(s) => Append(s, m)[i] = m
      OBVIOUS
    <3>. QED
      BY <2>2, <2>3, <3>1, <3>2
  <2>4. CASE d # e
    <3>1. sent'[d] = s
      BY <1>3, <2>1, <2>2, <2>4
    <3>2. Len(s) \in Nat
      OBVIOUS
    <3>. QED
      BY <2>2, <3>1, <3>2
  <2>. QED
    BY <2>3, <2>4
<1>5. FlagsOK'
  <2>1. ASSUME NEW d \in Ends, NEW i \in 1..Len(sent'[d])
        PROVE  Sendable(version'[d], sent'[d][i])
    <3>1. CASE i \in 1..Len(sent[d])
      <4>1. sent'[d][i] = sent[d][i]
        BY <1>4, <3>1
      <4>. QED
        BY <1>2, <3>1, <4>1 DEF WireInv, FlagsOK
    <3>2. CASE i \notin 1..Len(sent[d])
      BY <1>2, <1>3, <1>4, <3>2
    <3>. QED
      BY <3>1, <3>2
  <2>. QED
    BY <2>1 DEF FlagsOK, Sendable
<1>6. DeafOK'
  <2>1. ASSUME NEW d \in deaf PROVE Stopped(d)'
    <3>1. Peer(d) \in Ends
      BY PeerFacts DEF Inv, ListsOK
    <3>. QED
      BY <1>2, <1>4, <3>1, DeafSame DEF WireInv
  <2>. QED
    BY <1>2, <2>1 DEF DeafOK
<1>7. WireOK(e)'
  BY <1>1, WireSendSame DEF AllUnbroken
<1>8. ASSUME NEW d \in Ends, d # e PROVE WireOK(d)'
  <2>1. buffer'[d] = buffer[d] /\ sent'[d] = sent[d]
    <3>1. sent \in [Ends -> Seq(Message)] /\ buffer \in [Ends -> Seq(Theirs)]
      BY DEF Inv, ListsOK, WordsOK
    <3>2. sent'[d] = sent[d]
      BY <1>3, <1>8, <3>1
    <3>3. buffer'[d] = buffer[d]
      BY <1>1, <1>8, <3>1 DEF Send, Write
    <3>. QED
      BY <3>2, <3>3
  <2>2. \A u \in Senders : EndOf[u] = d => task'[u] = task[u]
    <3>1. task = [u \in Senders |-> task[u]]
      BY DEF Inv, WordsOK
    <3>2. \A u \in Senders : u # t => task'[u] = task[u]
      BY <3>1 DEF Send
    <3>. QED
      BY <1>1, <1>8, <3>2
  <2>. QED
    BY <1>2, <2>1, <2>2, WireSame DEF WireInv
<1>. QED
  BY <1>5, <1>6, <1>7, <1>8 DEF WireInv

\* Steps that send nothing.
LEMMA WireRest ==
  ASSUME Inv, WireInv, UNCHANGED <<version, native, sent, received, deaf>>
  PROVE  FlagsOK' /\ DeafOK'
BY DEF WireInv, FlagsOK, Sendable, DeafOK, Stopped, Arrived, Raises

LEMMA WireTask ==
  ASSUME Inv, WireInv, NEW t \in Senders,
         UNCHANGED <<version, native, stream, sent, received, deaf>>,
         \A d \in Ends : d # EndOf[t] => buffer'[d] = buffer[d],
         \A u \in Senders : u # t => task'[u] = task[u], WireOK(EndOf[t])'
  PROVE  WireInv'
<1>1. FlagsOK' /\ DeafOK'
  BY WireRest
<1>2. ASSUME NEW d \in Ends, d # EndOf[t] PROVE WireOK(d)'
  <2>1. \A u \in Senders : EndOf[u] = d => task'[u] = task[u]
    BY <1>2
  <2>. QED
    BY <1>2, <2>1, WireSame DEF WireInv
<1>. QED
  BY <1>1, <1>2 DEF WireInv

LEMMA WireNext ==
  ASSUME Inv, Inv', WireInv, AllUnbroken, AllUnbroken', [Next]_vars
  PROVE  WireInv'
<1>0. /\ buffer \in [Ends -> Seq(Theirs)] /\ stream \in [Ends -> Seq(Theirs)]
      /\ task = [u \in Senders |-> task[u]] /\ DOMAIN received = Ends
  BY DEF Inv, WordsOK, ListsOK
<1>1. CASE UNCHANGED vars
  <2>1. UNCHANGED <<version, native, high, order, buffer, paused, stream, task, deaf, table,
                    array, sent, received>>
    BY <1>1 DEF vars
  <2>2. FlagsOK' /\ DeafOK'
    BY <2>1, WireRest
  <2>3. ASSUME NEW e \in Ends PROVE WireOK(e)'
    BY <2>1, WireSame DEF WireInv
  <2>. QED
    BY <2>2, <2>3 DEF WireInv
<1>2. ASSUME NEW t \in Senders, Send(t) PROVE WireInv'
  BY <1>2, WireSend
<1>3. ASSUME NEW t \in Senders, SendData(t) PROVE WireInv'
  <2>1. WireOK(EndOf[t])'
    BY <1>3, WireSendData
  <2>2. UNCHANGED <<version, native, stream, sent, received, deaf>>
    BY <1>3 DEF SendData
  <2>3. \A d \in Ends : d # EndOf[t] => buffer'[d] = buffer[d]
    BY <1>0, <1>3 DEF SendData, Write
  <2>4. \A u \in Senders : u # t => task'[u] = task[u]
    BY <1>0, <1>3 DEF SendData
  <2>. QED
    BY <2>1, <2>2, <2>3, <2>4, WireTask
<1>4. ASSUME NEW t \in Senders, Cancel(t) PROVE WireInv'
  <2>1. WireOK(EndOf[t])'
    BY <1>4, WireCancel DEF AllUnbroken
  <2>2. UNCHANGED <<version, native, stream, sent, received, deaf>> /\ buffer' = buffer
    BY <1>4 DEF Cancel
  <2>3. \A u \in Senders : u # t => task'[u] = task[u]
    BY <1>0, <1>4 DEF Cancel
  <2>. QED
    BY <2>1, <2>2, <2>3, WireTask
<1>5. ASSUME NEW e \in Ends, Transmit(e) PROVE WireInv'
  <2>1. WireOK(e)'
    BY <1>5, WireTransmit
  <2>2. UNCHANGED <<version, native, sent, received, deaf>>
    BY <1>5 DEF Transmit
  <2>3. FlagsOK' /\ DeafOK'
    BY <2>2, WireRest
  <2>4. ASSUME NEW d \in Ends, d # e PROVE WireOK(d)'
    <3>1. stream'[d] = stream[d] /\ buffer'[d] = buffer[d]
      BY <1>0, <1>5, <2>4 DEF Transmit
    <3>2. \A t \in Senders : EndOf[t] = d => task'[t] = task[t]
      BY <1>5, <2>4 DEF Transmit
    <3>. QED
      BY <2>2, <3>1, <3>2, WireSame DEF WireInv
  <2>. QED
    BY <2>1, <2>3, <2>4 DEF WireInv
<1>6. ASSUME NEW e \in Ends, Receive(e) PROVE WireInv'
  <2>1. WireOK(Peer(e))'
    BY <1>6, WireReceive
  <2>2. PICK m \in Incoming(e) :
          /\ e \notin deaf /\ m.value # Failed
          /\ stream' = [stream EXCEPT ![Peer(e)] = m.rest]
          /\ received' = [received EXCEPT ![e] = Append(@, m.value)]
          /\ deaf' = IF Raises(e, m.h.prop, m.value) THEN deaf \cup {e} ELSE deaf
          /\ UNCHANGED <<version, native, high, buffer, paused, task, array, sent>>
    BY <1>6 DEF Receive
  <2>3. FlagsOK'
    BY <2>2 DEF WireInv, FlagsOK, Sendable
  <2>4. DeafOK'
    <3>1. ASSUME NEW d \in deaf PROVE Stopped(d)'
      <4>1. d # e /\ d \in Ends /\ Peer(d) \in Ends
        BY <2>2, PeerFacts DEF Inv, ListsOK
      <4>2. received'[d] = received[d] /\ sent' = sent /\ version' = version /\ native' = native
        BY <1>0, <2>2, <4>1
      <4>3. Len(sent[Peer(d)]) \in Nat
        BY <4>1, WireTypes
      <4>. QED
        BY <4>2, <4>3, DeafSame DEF WireInv
    <3>2. ASSUME Raises(e, m.h.prop, m.value) PROVE Stopped(e)'
      <4>1. TakesNext(e, m)
        BY PeerFacts, IncomingIs DEF WireInv
      <4>2. PICK k \in Nat, n \in Nat : k = Len(received[e]) /\ n = Len(sent[Peer(e)])
        BY PeerFacts, WireTypes
      <4>3. /\ k < n /\ m.value = Arrived(e, k + 1)
            /\ m.h = HeaderOf(version[Peer(e)], sent[Peer(e)][k + 1], native["client"])
        BY <4>1, <4>2 DEF TakesNext, Arrived
      <4>4. m.h.prop = sent[Peer(e)][k + 1].prop
        BY <4>3 DEF HeaderOf
      <4>5. k + 1 \in 1..n
        BY <4>2, <4>3
      <4>6. Len(received'[e]) = k + 1
        <5>1. IsList(received[e]) /\ received'[e] = Append(received[e], m.value)
          BY <2>2 DEF Inv, ListsOK
        <5>. QED
          BY <4>2, <5>1, ListFacts
      <4>7. Arrived(e, k + 1)' = Arrived(e, k + 1)
        BY <2>2 DEF Arrived
      <4>. QED
        BY <2>2, <3>2, <4>2, <4>3, <4>4, <4>5, <4>6, <4>7 DEF Stopped, Arrived, Raises
    <3>. QED
      BY <2>2, <3>1, <3>2 DEF DeafOK
  <2>5. ASSUME NEW d \in Ends, d # Peer(e) PROVE WireOK(d)'
    <3>1. Peer(d) \in Ends /\ Peer(d) # e
      BY <2>5, PeerFacts
    <3>2. stream'[d] = stream[d] /\ received'[Peer(d)] = received[Peer(d)]
      BY <1>0, <2>2, <2>5, <3>1
    <3>. QED
      BY <2>2, <3>2, WireSame DEF WireInv
  <2>. QED
    BY <2>1, <2>3, <2>4, <2>5 DEF WireInv
<1>7. ASSUME NEW e \in Ends, GoDeaf(e) PROVE WireInv'
  <2>1. PICK m \in Incoming(e) :
          /\ m.value = Failed /\ deaf' = deaf \cup {e}
          /\ UNCHANGED <<version, native, high, order, buffer, paused, stream, task, table, array,
                         sent, received>>
    BY <1>7 DEF GoDeaf
  <2>2. TakesNext(e, m)
    BY PeerFacts, IncomingIs DEF WireInv
  <2>3. DeafOK'
    <3>1. Stopped(e)
      BY <2>1, <2>2 DEF TakesNext, Stopped, Arrived
    <3>2. \A d \in deaf' : Stopped(d)
      BY <2>1, <3>1 DEF WireInv, DeafOK
    <3>. QED
      BY <2>1, <3>2 DEF DeafOK, Stopped, Arrived, Raises
  <2>4. FlagsOK'
    BY <2>1 DEF WireInv, FlagsOK, Sendable
  <2>5. ASSUME NEW d \in Ends PROVE WireOK(d)'
    BY <2>1, WireSame DEF WireInv
  <2>. QED
    BY <2>3, <2>4, <2>5 DEF WireInv
<1>8. ASSUME NEW t \in Senders, Refuse(t) PROVE WireInv'
  <2>1. WireOK(EndOf[t])'
    BY <1>8, WireRefuse
  <2>2. UNCHANGED <<version, native, stream, sent, received, deaf>> /\ buffer' = buffer
        /\ \A u \in Senders : u # t => task'[u] = task[u]
    BY <1>8, RefuseFacts
  <2>. QED
    BY <2>1, <2>2, WireTask
<1>. QED
  BY <1>1, <1>2, <1>3, <1>4, <1>5, <1>6, <1>7, <1>8 DEF Next, Listen

LEMMA WireAlways == Spec /\ []AllUnbroken => []WireInv
<1>1. Inv /\ Inv' /\ WireInv /\ AllUnbroken /\ AllUnbroken' /\ [Next]_vars => WireInv'
  BY WireNext
<1>. QED
  BY <1>1, WireInit, InvAlways, PTL DEF Spec

\* A listener does what a channel does, or nothing that it shows.
LEMMA ReceiveMaps ==
  ASSUME RoundTrip, Inv, WireInv, NEW e \in Ends, Receive(e)
  PROVE  Channel!Receive(e)
<1>1. PICK m \in Incoming(e) :
        /\ m.value # Failed
        /\ received' = [received EXCEPT ![e] = Append(@, m.value)]
        /\ sent' = sent
  BY DEF Receive
<1>2. TakesNext(e, m)
  BY PeerFacts, IncomingIs DEF WireInv
<1>3. PICK p \in Ends : p = Peer(e)
  BY PeerFacts
<1>4. PICK v \in Versions \cup {4}, s \in Seq(Message), k \in Nat, o \in Orders :
        /\ v = version[p] /\ s = sent[p] /\ k = Len(received[e]) /\ o = native["client"]
        /\ Len(s) \in Nat
  <2>1. sent[p] \in Seq(Message) /\ version[p] \in Versions \cup {4} /\ Len(received[e]) \in Nat
        /\ Len(sent[p]) \in Nat
    BY WireTypes
  <2>2. native["client"] \in Orders
    BY DEF Inv, FixedOK, Ends
  <2>. QED
    BY <2>1, <2>2
<1>5. k < Len(s) /\ m.value = Decoded(v, s[k + 1], o)
  BY <1>2, <1>3, <1>4 DEF TakesNext
<1>6. PICK x \in Message : x = s[k + 1] /\ Sendable(v, x)
  <2>1. k + 1 \in 1..Len(s)
    BY <1>4, <1>5
  <2>2. s[k + 1] \in Message
    BY <2>1
  <2>3. Sendable(v, s[k + 1])
    BY <1>4, <2>1 DEF WireInv, FlagsOK
  <2>. QED
    BY <2>2, <2>3
<1>7. m.value = Understood(x)
  <2>1. Decoded(v, x, o) \in {Understood(x), Failed}
    BY <1>6 DEF RoundTrip
  <2>. QED
    BY <1>1, <1>5, <1>6, <2>1
<1>. QED
  BY <1>1, <1>3, <1>4, <1>5, <1>6, <1>7 DEF Channel!Receive

LEMMA StepMaps ==
  ASSUME RoundTrip, Inv, WireInv, [Next]_vars
  PROVE  [Channel!Next]_(Channel!vars)
<1>1. CASE UNCHANGED <<sent, received>>
  BY <1>1 DEF Channel!vars
<1>2. CASE UNCHANGED vars
  BY <1>1, <1>2 DEF vars
<1>3. ASSUME NEW t \in Senders, Send(t) PROVE Channel!Next
  <2>1. EndOf[t] \in Ends
    BY FramingAssumption
  <2>2. Channel!Send(EndOf[t])
    BY <1>3 DEF Send, Channel!Send, Message
  <2>. QED
    BY <2>1, <2>2 DEF Channel!Next
<1>4. ASSUME NEW t \in Senders, SendData(t) \/ Cancel(t) \/ Refuse(t)
      PROVE  UNCHANGED <<sent, received>>
  BY <1>4 DEF SendData, Cancel, Refuse
<1>5. ASSUME NEW e \in Ends, Transmit(e) \/ GoDeaf(e) PROVE UNCHANGED <<sent, received>>
  BY <1>5 DEF Transmit, GoDeaf
<1>6. ASSUME NEW e \in Ends, Receive(e) PROVE Channel!Next
  BY <1>6, ReceiveMaps DEF Channel!Next
<1>. QED
  BY <1>1, <1>2, <1>3, <1>4, <1>5, <1>6 DEF Next, Listen

(***************************************************************************)
(* The connection is a channel of whole messages (connection.py:149-204,   *)
(* protocol.py:363-523), for any contents, header versions, byte orders    *)
(* and sizes of the buffers, where the codec returns the meaning of what   *)
(* it is given or fails (RoundTrip, which TLC evaluates) and where no send *)
(* of an end is cut in two: by another one of the same end or by its       *)
(* cancellation, while it waits between its header and its data.           *)
(***************************************************************************)
THEOREM WholeMessages ==
  ASSUME RoundTrip
  PROVE  Spec /\ []AllUnbroken => Delivers
<1>1. Init => Channel!Init
  BY DEF Init, Channel!Init
<1>2. Inv /\ WireInv /\ [Next]_vars => [Channel!Next]_(Channel!vars)
  BY StepMaps
<1>. QED
  BY <1>1, <1>2, InvAlways, WireAlways, PTL DEF Spec, Delivers, Channel!Spec

\* Under the same condition a listener stops only at a message that its own data
\* make unreadable, or the server's after a command that reads as a number
\* (connection.py:179-204, protocol.py:413-433, server_connection.py:245-247).
THEOREM DeafByItself ==
  ASSUME RoundTrip, RejectsOnly
  PROVE  Spec /\ []AllUnbroken => []DeafByValue
<1>1. Inv /\ WireInv => DeafByValue
  <2>. SUFFICES ASSUME Inv, WireInv, NEW e \in deaf
                PROVE  LET theirs == sent[Peer(e)]
                           n == Len(received[e])
                       IN \/ n < Len(theirs) /\ Undecodable(theirs[n + 1].value)
                          \/ /\ e = "server" /\ n > 0
                             /\ theirs[n].prop \in Commands /\ Understood(theirs[n]).is = "number"
    BY DEF DeafByValue
  <2>1. e \in Ends
    BY DEF Inv, ListsOK
  <2>2. PICK p \in Ends : p = Peer(e)
    BY <2>1, PeerFacts
  <2>3. PICK v \in Versions \cup {4}, s \in Seq(Message), k \in Nat, o \in Orders :
          /\ v = version[p] /\ s = sent[p] /\ k = Len(received[e]) /\ o = native["client"]
          /\ Len(s) \in Nat
    <3>1. sent[p] \in Seq(Message) /\ version[p] \in Versions \cup {4} /\ Len(received[e]) \in Nat
          /\ Len(sent[p]) \in Nat
      BY <2>1, WireTypes
    <3>2. native["client"] \in Orders
      BY DEF Inv, FixedOK, Ends
    <3>. QED
      BY <3>1, <3>2
  <2>4. ASSUME NEW n \in 1..Len(s) PROVE s[n] \in Message /\ Sendable(v, s[n])
    <3>1. s[n] \in Message
      OBVIOUS
    <3>2. Sendable(v, s[n])
      BY <2>2, <2>3 DEF WireInv, FlagsOK
    <3>. QED
      BY <3>1, <3>2
  <2>5. \/ k < Len(s) /\ Decoded(v, s[k + 1], o) = Failed
        \/ /\ k \in 1..Len(s) /\ Decoded(v, s[k], o) # Failed
           /\ Raises(e, s[k].prop, Decoded(v, s[k], o))
    BY <2>2, <2>3 DEF WireInv, DeafOK, Stopped, Arrived
  <2>6. CASE k < Len(s) /\ Decoded(v, s[k + 1], o) = Failed
    <3>1. k + 1 \in 1..Len(s)
      BY <2>3, <2>6
    <3>2. s[k + 1] \in Message /\ Sendable(v, s[k + 1])
      BY <2>4, <3>1
    <3>3. Undecodable(s[k + 1].value)
      BY <2>6, <3>2 DEF RejectsOnly
    <3>. QED
      BY <2>2, <2>3, <2>6, <3>3
  <2>7. CASE /\ k \in 1..Len(s) /\ Decoded(v, s[k], o) # Failed
             /\ Raises(e, s[k].prop, Decoded(v, s[k], o))
    <3>1. PICK x \in Message : x = s[k] /\ Sendable(v, x)
      BY <2>4, <2>7
    <3>2. Decoded(v, x, o) = Understood(x)
      BY <2>7, <3>1 DEF RoundTrip
    <3>3. /\ e = "server" /\ x.prop \in Commands
          /\ Understood(x).is \notin {"string", "error"}
      BY <2>7, <3>1, <3>2 DEF Raises
    <3>4. x.prop[2] = <<>> /\ x.value.is = "string"
      BY <3>3, FramingAssumption
    <3>5. Understood(x) = TryCast(x.value.text)
      BY <3>4 DEF Understood, Pack, Meaning
    <3>6. Understood(x).is = "number"
      BY <3>3, <3>5 DEF TryCast, Num, Str
    <3>. QED
      BY <2>2, <2>3, <2>7, <3>1, <3>3, <3>6
  <2>. QED
    BY <2>5, <2>6, <2>7
<1>. QED
  BY <1>1, InvAlways, WireAlways, PTL

(***************************************************************************)
(* The client's view of the array it watches.                              *)
(***************************************************************************)
Live(f) == [k \in {j \in DOMAIN f : f[j] # Deleted} |-> f[k]]
View == IF Watched \in DOMAIN table THEN Live(table[Watched].data)
        ELSE [k \in {} |-> NoValue]

\* The array after a message.
ArrayAfter(a, m) ==
    IF m.prop # Watched THEN a
    ELSE IF m.deleted THEN [k \in DOMAIN a \ DOMAIN Understood(m).data |-> a[k]]
    ELSE Merge(Assoc(a), Understood(m)).data

\* Whoever goes through the messages the client has not received comes from
\* its view to the array of the server.
ViewOK ==
    \E g : /\ g[Len(received["client"])] = View
           /\ g[Len(sent["server"])] = array
           /\ \A i \in 1..Len(sent["server"]) :
                 i > Len(received["client"]) => g[i] = ArrayAfter(g[i - 1], sent["server"][i])
TableOK == Watched \in DOMAIN table => table[Watched].is = "assoc"

\* What a change of the array means to the receiver.
LEMMA UnderstoodFacts ==
  ASSUME NEW m \in Message, m.prop = Watched
  PROVE  /\ Understood(m) = Assoc(Understood(m).data)
         /\ IF m.deleted THEN \A k \in DOMAIN Understood(m).data : Understood(m).data[k] = Deleted
                         ELSE \A k \in DOMAIN Understood(m).data : Understood(m).data[k] # Deleted
<1>1. m.value.is = "assoc" /\ Pack(m.prop, m.value) = m.value /\ IsValue(m.value)
  <2>1. Watched[2] = <<>> /\ m.value.is = "assoc" /\ IsValue(Pack(m.prop, m.value))
    BY FramingAssumption
  <2>2. m.prop[2] = <<>>
    BY <2>1
  <2>3. Pack(m.prop, m.value) = m.value
    BY <2>2 DEF Pack
  <2>. QED
    BY <2>1, <2>3
<1>2. PICK v : v = m.value /\ v.is = "assoc" /\ IsValue(v)
  BY <1>1
<1>3. \A k \in DOMAIN v.data :
         v.data[k] = Deleted \/ v.data[k].is \in {"string", "number"}
  BY <1>2 DEF IsValue, NoValue
<1>. DEFINE d == [k \in DOMAIN v.data |-> IF m.deleted THEN Deleted ELSE Meaning(v.data[k])]
<1>4. Understood(m) = Assoc(d)
  BY <1>1, <1>2 DEF Understood
<1>5. ASSUME NEW x, x = Deleted \/ x.is \in {"string", "number"}
      PROVE  Meaning(x) # Deleted
  <2>1. \A t : Str(t) # NoValue /\ Num(t) # NoValue
    BY DEF Str, Num, NoValue
  <2>2. CASE x = Deleted
    <3>1. x.is = "none"
      BY <2>2 DEF Deleted, NoValue
    <3>2. Meaning(x) = Str(<<>>)
      BY <3>1 DEF Meaning
    <3>. QED
      BY <2>1, <3>2 DEF Deleted
  <2>3. CASE x.is = "string"
    <3>1. Meaning(x) = TryCast(x.text)
      BY <2>3 DEF Meaning
    <3>. QED
      BY <2>1, <3>1 DEF TryCast, Deleted
  <2>4. CASE x.is = "number"
    <3>1. Meaning(x) = x
      BY <2>4 DEF Meaning
    <3>. QED
      BY <2>4, <3>1 DEF Deleted, NoValue
  <2>. QED
    BY <1>5, <2>2, <2>3, <2>4
<1>6. Assoc(d).data = d
  BY DEF Assoc
<1>7. IF m.deleted THEN \A k \in DOMAIN d : d[k] = Deleted
                   ELSE \A k \in DOMAIN d : d[k] # Deleted
  BY <1>3, <1>5
<1>. QED
  BY <1>4, <1>6, <1>7

\* Merging what is received into what is there is what the change does to the
\* elements that are not deleted; so is taking it where there is nothing.
LEMMA LiveMerge ==
  ASSUME NEW m \in Message, m.prop = Watched, NEW f
  PROVE  /\ Live(Merge(Assoc(f), Understood(m)).data) = ArrayAfter(Live(f), m)
         /\ Live(Understood(m).data) = ArrayAfter([k \in {} |-> NoValue], m)
<1>1. PICK d : /\ Understood(m) = Assoc(d)
               /\ IF m.deleted THEN \A k \in DOMAIN d : d[k] = Deleted
                               ELSE \A k \in DOMAIN d : d[k] # Deleted
  BY UnderstoodFacts
<1>2. \A g : Assoc(g).data = g /\ Assoc(g).is = "assoc"
  BY DEF Assoc
<1>3. ASSUME NEW g
      PROVE  Merge(Assoc(g), Understood(m)).data =
               [k \in DOMAIN g \cup DOMAIN d |-> IF k \in DOMAIN d THEN d[k] ELSE g[k]]
  BY <1>1, <1>2 DEF Merge
<1>. DEFINE e == [k \in {} |-> NoValue]
<1>4. CASE m.deleted
  <2>1. \A g : ArrayAfter(g, m) = [k \in DOMAIN g \ DOMAIN d |-> g[k]]
    BY <1>1, <1>2, <1>4 DEF ArrayAfter
  <2>2. Live(Merge(Assoc(f), Understood(m)).data) = ArrayAfter(Live(f), m)
    <3>1. ArrayAfter(Live(f), m) = [k \in DOMAIN Live(f) \ DOMAIN d |-> Live(f)[k]]
      BY <2>1
    <3>2. Live([k \in DOMAIN f \cup DOMAIN d |-> IF k \in DOMAIN d THEN d[k] ELSE f[k]])
            = [k \in DOMAIN Live(f) \ DOMAIN d |-> Live(f)[k]]
      BY <1>1, <1>4 DEF Live
    <3>. QED
      BY <1>3, <3>1, <3>2
  <2>3. Live(Understood(m).data) = ArrayAfter(e, m)
    <3>1. ArrayAfter(e, m) = [k \in DOMAIN e \ DOMAIN d |-> e[k]]
      BY <2>1
    <3>2. Live(d) = [k \in DOMAIN e \ DOMAIN d |-> e[k]]
      BY <1>1, <1>4 DEF Live
    <3>. QED
      BY <1>1, <1>2, <3>1, <3>2
  <2>. QED
    BY <2>2, <2>3
<1>5. CASE ~m.deleted
  <2>1. \A g : ArrayAfter(g, m) = Merge(Assoc(g), Understood(m)).data
    BY <1>5 DEF ArrayAfter
  <2>2. Live(Merge(Assoc(f), Understood(m)).data) = ArrayAfter(Live(f), m)
    <3>1. ArrayAfter(Live(f), m) =
            [k \in DOMAIN Live(f) \cup DOMAIN d |-> IF k \in DOMAIN d THEN d[k] ELSE Live(f)[k]]
      BY <1>3, <2>1
    <3>2. Live([k \in DOMAIN f \cup DOMAIN d |-> IF k \in DOMAIN d THEN d[k] ELSE f[k]])
            = [k \in DOMAIN Live(f) \cup DOMAIN d |-> IF k \in DOMAIN d THEN d[k] ELSE Live(f)[k]]
      BY <1>1, <1>5 DEF Live
    <3>. QED
      BY <1>3, <3>1, <3>2
  <2>3. Live(Understood(m).data) = ArrayAfter(e, m)
    <3>1. ArrayAfter(e, m) =
            [k \in DOMAIN e \cup DOMAIN d |-> IF k \in DOMAIN d THEN d[k] ELSE e[k]]
      BY <1>3, <2>1
    <3>2. Live(d) = [k \in DOMAIN e \cup DOMAIN d |-> IF k \in DOMAIN d THEN d[k] ELSE e[k]]
      BY <1>1, <1>5 DEF Live
    <3>. QED
      BY <1>1, <1>2, <3>1, <3>2
  <2>. QED
    BY <2>2, <2>3
<1>. QED
  BY <1>4, <1>5

ViewInv == ViewOK /\ TableOK

LEMMA ViewInit == Init => ViewInv
<1>. SUFFICES ASSUME Init PROVE ViewInv
  OBVIOUS
<1>1. /\ table = [p \in {} |-> NoValue] /\ array = [k \in {} |-> NoValue]
      /\ Len(received["client"]) = 0 /\ Len(sent["server"]) = 0
  BY DEF Init, Ends
<1>2. View = [k \in {} |-> NoValue]
  BY <1>1 DEF View
<1>3. ViewOK
  <2>. DEFINE g == [i \in {0} |-> array]
  <2>1. g[0] = array /\ \A i \in 1..0 : FALSE
    OBVIOUS
  <2>. HIDE DEF g
  <2>. QED
    BY <1>1, <1>2, <2>1 DEF ViewOK
<1>4. TableOK
  BY <1>1 DEF TableOK
<1>. QED
  BY <1>3, <1>4 DEF ViewInv

\* Steps that leave the messages and the tables as they are.
LEMMA ViewSame ==
  ASSUME ViewInv, UNCHANGED <<table, array, received>>, sent'["server"] = sent["server"]
  PROVE  ViewInv'
<1>1. View' = View /\ TableOK'
  BY DEF View, ViewInv, TableOK
<1>2. PICK g : /\ g[Len(received["client"])] = View
               /\ g[Len(sent["server"])] = array
               /\ \A i \in 1..Len(sent["server"]) :
                     i > Len(received["client"]) => g[i] = ArrayAfter(g[i - 1], sent["server"][i])
  BY DEF ViewInv, ViewOK
<1>3. ViewOK'
  BY <1>1, <1>2 DEF ViewOK
<1>. QED
  BY <1>1, <1>3 DEF ViewInv

LEMMA ViewSend ==
  ASSUME Inv, ViewInv, NEW t \in Senders, Send(t)
  PROVE  ViewInv'
<1>1. PICK e \in Ends : e = EndOf[t]
  BY FramingAssumption
<1>2. PICK m \in Message :
        /\ sent' = [sent EXCEPT ![e] = Append(@, m)]
        /\ array' = IF e = "server" THEN Changed(m) ELSE array
  BY <1>1 DEF Send, Message
<1>3. table' = table /\ received' = received
  BY DEF Send
<1>4. sent \in [Ends -> Seq(Message)]
  BY DEF Inv, ListsOK
<1>5. CASE e # "server"
  <2>1. sent'["server"] = sent["server"] /\ array' = array
    BY <1>2, <1>4, <1>5
  <2>. QED
    BY <1>3, <2>1, ViewSame
<1>6. CASE e = "server"
  <2>1. PICK s \in Seq(Message), n \in Nat, k \in Nat :
          s = sent["server"] /\ n = Len(s) /\ k = Len(received["client"]) /\ k <= n
    <3>1. "server" \in Ends /\ Peer("server") = "client"
      BY DEF Ends, Peer
    <3>2. sent["server"] \in Seq(Message) /\ Len(sent["server"]) \in Nat
          /\ Len(received["client"]) \in 0..Len(sent["server"])
      BY <3>1, WireTypes
    <3>. QED
      BY <3>2
  <2>2. /\ sent'["server"] = Append(s, m) /\ Len(Append(s, m)) = n + 1
        /\ Append(s, m)[n + 1] = m /\ \A i \in 1..n : Append(s, m)[i] = s[i]
    <3>1. sent'["server"] = Append(s, m)
      BY <1>2, <1>4, <1>6, <2>1
    <3>2. /\ Len(Append(s, m)) = n + 1
          /\ Append(s, m)[n + 1] = m /\ \A i \in 1..n : Append(s, m)[i] = s[i]
      BY <2>1
    <3>. QED
      BY <3>1, <3>2
  <2>3. PICK g : /\ g[k] = View /\ g[n] = array
                 /\ \A i \in 1..n : i > k => g[i] = ArrayAfter(g[i - 1], s[i])
    BY <2>1 DEF ViewInv, ViewOK
  <2>4. array' = ArrayAfter(array, m)
    BY <1>2, <1>6 DEF Changed, ArrayAfter
  <2>. DEFINE h == [i \in 0..(n + 1) |-> IF i = n + 1 THEN array' ELSE g[i]]
  <2>5. h[n + 1] = array' /\ \A i \in 0..n : h[i] = g[i]
    <3>1. n + 1 \in 0..(n + 1) /\ \A i \in 0..n : i \in 0..(n + 1) /\ i # n + 1
      OBVIOUS
    <3>. QED
      BY <3>1
  <2>. HIDE DEF h
  <2>6. h[k] = View
    BY <2>1, <2>3, <2>5
  <2>7. ASSUME NEW i \in 1..(n + 1), i > k
        PROVE  h[i] = ArrayAfter(h[i - 1], Append(s, m)[i])
    <3>1. CASE i = n + 1
      <4>1. h[i - 1] = array
        BY <2>3, <2>5, <3>1
      <4>. QED
        BY <2>2, <2>4, <2>5, <3>1, <4>1
    <3>2. CASE i # n + 1
      <4>1. i \in 1..n /\ i \in 0..n /\ i - 1 \in 0..n
        BY <3>2
      <4>2. h[i] = g[i] /\ h[i - 1] = g[i - 1] /\ Append(s, m)[i] = s[i]
        BY <2>2, <2>5, <4>1
      <4>. QED
        BY <2>3, <2>7, <4>1, <4>2
    <3>. QED
      BY <3>1, <3>2
  <2>8. View' = View /\ TableOK'
    BY <1>3 DEF View, ViewInv, TableOK
  <2>9. /\ h[Len(received'["client"])] = View'
        /\ h[Len(sent'["server"])] = array'
        /\ \A i \in 1..Len(sent'["server"]) :
              i > Len(received'["client"]) => h[i] = ArrayAfter(h[i - 1], sent'["server"][i])
    BY <1>3, <2>1, <2>2, <2>5, <2>6, <2>7, <2>8
  <2>10. ViewOK'
    BY <2>9 DEF ViewOK
  <2>. QED
    BY <2>8, <2>10 DEF ViewInv
<1>. QED
  BY <1>5, <1>6

\* What the client receives changes its view as the change it is told of.
LEMMA ViewCache ==
  ASSUME TableOK, NEW x \in Message, table' = Cache(x.prop, Understood(x))
  PROVE  View' = ArrayAfter(View, x) /\ TableOK'
<1>1. CASE x.prop # Watched
  <2>1. Watched \in DOMAIN table' <=> Watched \in DOMAIN table
    BY <1>1 DEF Cache
  <2>2. Watched \in DOMAIN table => table'[Watched] = table[Watched]
    BY <1>1 DEF Cache
  <2>3. View' = View /\ TableOK'
    BY <2>1, <2>2 DEF View, TableOK
  <2>. QED
    BY <1>1, <2>3 DEF ArrayAfter
<1>2. CASE x.prop = Watched
  <2>1. PICK v : v = Understood(x) /\ v = Assoc(v.data)
    BY <1>2, UnderstoodFacts
  <2>2. v.is = "assoc" /\ v # Failed
    BY <2>1 DEF Assoc, Failed
  <2>3. Unpack(Watched, v) = v
    <3>1. Watched[2] = <<>>
      BY FramingAssumption
    <3>. QED
      BY <3>1 DEF Unpack
  <2>4. CASE Watched \in DOMAIN table
    <3>1. table' = [table EXCEPT ![Watched] = Merge(table[Watched], v)]
      BY <1>2, <2>1, <2>2, <2>3, <2>4 DEF Cache
    <3>2. PICK f : f = table[Watched].data
      OBVIOUS
    <3>3. Merge(table[Watched], v) = Merge(Assoc(f), v) /\ Merge(Assoc(f), v).is = "assoc"
      <4>1. table[Watched].is = "assoc"
        BY <2>4 DEF TableOK
      <4>. QED
        BY <2>2, <3>2, <4>1 DEF Merge, Assoc
    <3>4. Watched \in DOMAIN table' /\ table'[Watched] = Merge(Assoc(f), v)
      BY <2>4, <3>1, <3>3
    <3>5. View' = Live(Merge(Assoc(f), v).data) /\ View = Live(f)
      BY <2>4, <3>2, <3>4 DEF View
    <3>6. Live(Merge(Assoc(f), v).data) = ArrayAfter(Live(f), x)
      BY <1>2, <2>1, LiveMerge
    <3>. QED
      BY <3>3, <3>4, <3>5, <3>6 DEF TableOK
  <2>5. CASE Watched \notin DOMAIN table
    <3>1. table' = [p \in DOMAIN table \cup {Watched} |-> IF p = Watched THEN v ELSE table[p]]
      BY <1>2, <2>1, <2>2, <2>3, <2>5 DEF Cache
    <3>2. Watched \in DOMAIN table' /\ table'[Watched] = v
      BY <3>1
    <3>3. View' = Live(v.data) /\ View = [k \in {} |-> NoValue]
      BY <2>5, <3>2 DEF View
    <3>4. Live(v.data) = ArrayAfter([k \in {} |-> NoValue], x)
      BY <1>2, <2>1, LiveMerge
    <3>. QED
      BY <2>2, <3>2, <3>3, <3>4 DEF TableOK
  <2>. QED
    BY <2>4, <2>5
<1>. QED
  BY <1>1, <1>2

LEMMA ViewReceive ==
  ASSUME RoundTrip, Inv, WireInv, ViewInv, NEW e \in Ends, Receive(e)
  PROVE  ViewInv'
<1>1. CASE e = "server"
  <2>1. PICK m \in Incoming(e) :
          /\ received' = [received EXCEPT ![e] = Append(@, m.value)]
          /\ table' = IF e = "client" THEN Cache(m.h.prop, m.value) ELSE table
          /\ UNCHANGED <<array, sent>>
    BY DEF Receive
  <2>2. table' = table /\ received'["client"] = received["client"]
    BY <1>1, <2>1
  <2>3. View' = View /\ TableOK'
    BY <2>2 DEF View, ViewInv, TableOK
  <2>4. PICK g : /\ g[Len(received["client"])] = View
                 /\ g[Len(sent["server"])] = array
                 /\ \A i \in 1..Len(sent["server"]) :
                       i > Len(received["client"]) => g[i] = ArrayAfter(g[i - 1], sent["server"][i])
    BY DEF ViewInv, ViewOK
  <2>5. ViewOK'
    BY <2>1, <2>2, <2>3, <2>4 DEF ViewOK
  <2>. QED
    BY <2>3, <2>5 DEF ViewInv
<1>2. CASE e = "client"
  <2>1. PICK m \in Incoming(e) :
          /\ m.value # Failed
          /\ received' = [received EXCEPT ![e] = Append(@, m.value)]
          /\ table' = Cache(m.h.prop, m.value)
          /\ UNCHANGED <<array, sent>>
    BY <1>2 DEF Receive
  <2>2. "server" \in Ends /\ Peer(e) = "server" /\ Peer("server") = "client"
    BY <1>2 DEF Ends, Peer
  <2>3. PICK v \in Versions \cup {4}, s \in Seq(Message), k \in Nat, o \in Orders, n \in Nat :
          /\ v = version["server"] /\ s = sent["server"] /\ k = Len(received["client"])
          /\ o = native["client"] /\ n = Len(s)
    <3>1. /\ sent["server"] \in Seq(Message) /\ version["server"] \in Versions \cup {4}
          /\ Len(sent["server"]) \in Nat
      BY <2>2, WireTypes
    <3>2. Len(received["client"]) \in Nat
      BY <1>2, WireTypes
    <3>3. native["client"] \in Orders
      BY DEF Inv, FixedOK, Ends
    <3>. QED
      BY <3>1, <3>2, <3>3
  <2>4. TakesNext(e, m)
    BY <2>2, IncomingIs DEF WireInv
  <2>5. k < n /\ m.value = Decoded(v, s[k + 1], o) /\ m.h = HeaderOf(v, s[k + 1], o)
    BY <1>2, <2>2, <2>3, <2>4 DEF TakesNext
  <2>6. PICK x \in Message : x = s[k + 1] /\ Sendable(v, x)
    <3>1. k + 1 \in 1..Len(s)
      BY <2>3, <2>5
    <3>2. s[k + 1] \in Message
      BY <3>1
    <3>3. Sendable(v, s[k + 1])
      BY <2>2, <2>3, <3>1 DEF WireInv, FlagsOK
    <3>. QED
      BY <3>2, <3>3
  <2>7. m.value = Understood(x) /\ m.h.prop = x.prop
    <3>1. Decoded(v, x, o) \in {Understood(x), Failed}
      BY <2>6 DEF RoundTrip
    <3>2. HeaderOf(v, x, o).prop = x.prop
      BY DEF HeaderOf
    <3>. QED
      BY <2>1, <2>5, <2>6, <3>1, <3>2
  <2>8. View' = ArrayAfter(View, x) /\ TableOK'
    BY <2>1, <2>7, ViewCache DEF ViewInv
  <2>9. Len(received'["client"]) = k + 1
    <3>1. DOMAIN received = Ends /\ IsList(received["client"])
      BY <1>2 DEF Inv, ListsOK
    <3>2. received'["client"] = Append(received["client"], m.value)
      BY <1>2, <2>1, <3>1
    <3>. QED
      BY <2>3, <3>1, <3>2, ListFacts
  <2>10. PICK g : /\ g[k] = View /\ g[n] = array
                  /\ \A i \in 1..n : i > k => g[i] = ArrayAfter(g[i - 1], s[i])
    BY <2>3 DEF ViewInv, ViewOK
  <2>11. g[k + 1] = View'
    <3>1. k + 1 \in 1..n /\ k + 1 > k /\ (k + 1) - 1 = k
      BY <2>5
    <3>. QED
      BY <2>6, <2>8, <2>10, <3>1
  <2>12. \A i \in 1..n : i > k + 1 => i > k
    OBVIOUS
  <2>13. ViewOK'
    BY <2>1, <2>3, <2>9, <2>10, <2>11, <2>12 DEF ViewOK
  <2>. QED
    BY <2>8, <2>13 DEF ViewInv
<1>. QED
  BY <1>1, <1>2 DEF Ends

LEMMA ViewNext ==
  ASSUME RoundTrip, Inv, WireInv, ViewInv, [Next]_vars
  PROVE  ViewInv'
<1>1. CASE UNCHANGED vars
  <2>1. UNCHANGED <<table, array, received>> /\ sent' = sent
    BY <1>1 DEF vars
  <2>. QED
    BY <2>1, ViewSame
<1>2. ASSUME NEW t \in Senders, Send(t) PROVE ViewInv'
  BY <1>2, ViewSend
<1>3. ASSUME NEW t \in Senders, SendData(t) \/ Cancel(t) \/ Refuse(t) PROVE ViewInv'
  <2>1. UNCHANGED <<table, array, received>> /\ sent' = sent
    BY <1>3 DEF SendData, Cancel, Refuse
  <2>. QED
    BY <2>1, ViewSame
<1>4. ASSUME NEW e \in Ends, Transmit(e) \/ GoDeaf(e) PROVE ViewInv'
  <2>1. UNCHANGED <<table, array, received>> /\ sent' = sent
    BY <1>4 DEF Transmit, GoDeaf
  <2>. QED
    BY <2>1, ViewSame
<1>5. ASSUME NEW e \in Ends, Receive(e) PROVE ViewInv'
  BY <1>5, ViewReceive
<1>. QED
  BY <1>1, <1>2, <1>3, <1>4, <1>5 DEF Next, Listen

(***************************************************************************)
(* Under the conditions of WholeMessages the array in the client's cache,  *)
(* less the elements that are marked as deleted, is the server's when the  *)
(* client has received all changes, however updates and deletions follow   *)
(* one another (_remote_property_table.py:99-110,                          *)
(* associative_array.py:175-182).                                          *)
(***************************************************************************)
THEOREM ViewIsArray ==
  ASSUME RoundTrip
  PROVE  Spec /\ []AllUnbroken => []ViewConverges
<1>1. Inv /\ WireInv /\ ViewInv /\ [Next]_vars => ViewInv'
  BY ViewNext
<1>2. ViewInv => ViewConverges
  <2>. SUFFICES ASSUME ViewInv, Len(received["client"]) = Len(sent["server"]),
                       Watched \in DOMAIN table
                PROVE  Live(table[Watched].data) = array
    BY DEF ViewConverges, Live
  <2>1. View = array
    BY DEF ViewInv, ViewOK
  <2>. QED
    BY <2>1 DEF View
<1>. QED
  BY <1>1, <1>2, ViewInit, InvAlways, WireAlways, PTL DEF Spec

\* In a program whose sends of one connection follow one another and are not
\* cancelled, all of this holds of every run: what the backpressure tears apart
\* (connection.py:175-177) is only what overlaps.
THEOREM OneAfterTheOther ==
  ASSUME RoundTrip, RejectsOnly, Serial = Ends, Hasty = {}
  PROVE  Spec => Delivers /\ []DeafByValue /\ []ViewConverges
<1>1. AllUnbroken
  BY DEF AllUnbroken, Unbroken
<1>2. Spec => []AllUnbroken
  BY <1>1, PTL
<1>. QED
  BY <1>2, WholeMessages, DeafByItself, ViewIsArray, PTL
===============================================================================
