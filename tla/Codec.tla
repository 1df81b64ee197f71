--------------------------------- MODULE Codec ---------------------------------
(***************************************************************************)
(* The encoding of a message: protocol.serialize, its inverse              *)
(* _deserialize_data, the type tables of data.py and the associative       *)
(* arrays of associative_array.py, as operators on values and bytes.       *)
(*                                                                         *)
(* A text is a sequence of characters, a byte a pair <<character, part>>:  *)
(* part 0 for a character of one byte, 1 and 2 for the two bytes of a wide *)
(* one, and for an element of a binary array its bytes from the least      *)
(* significant one.  What separates keys and items is a character too.     *)
(***************************************************************************)
EXTENDS Naturals, Sequences, FiniteSets, SequencesExt

CONSTANTS
    Characters, \* what texts are made of
    Wide,       \* characters that UTF-8 encodes in two bytes
    Digits,     \* characters a number is written with
    Elements    \* of binary arrays

NUL == "NUL"    \* AssociativeArray.ITEM_SEPARATOR, and the end of every payload
KS  == "KS"     \* AssociativeArray.KEY_SEPARATOR
Magic == <<"MAGIC", 0>> \* the word for the prefix of a message, no byte of a payload

ASSUME CodecAssumption ==
    Wide \subseteq Characters /\ Digits \subseteq Characters /\ Magic[1] \notin Characters

(***************************************************************************)
(* Values.                                                                 *)
(***************************************************************************)
NoValue        == [is |-> "none"]
Str(text)      == [is |-> "string", text |-> text]
Num(text)      == [is |-> "number", text |-> text]
Err(text)      == [is |-> "error", text |-> text]
Assoc(data)    == [is |-> "assoc", data |-> data]
Strs(dims, s)  == [is |-> "strings", dims |-> dims, items |-> s]
Arr(dtype, dims, s) == [is |-> "array", dtype |-> dtype, dims |-> dims, items |-> s]
Deleted        == NoValue   \* what the entry of a deleted key holds
Failed         == [is |-> "failed"]

\* DataType: the values there are.  A key of an array is one text, or two with
\* KEY_SEPARATOR between them.
IsValue(v) ==
    \/ v = NoValue
    \/ v.is \in {"string", "number", "error"} /\ v.text \in Seq(Characters)
    \/ /\ v.is = "assoc" /\ IsFiniteSet(DOMAIN v.data)
       /\ \A k \in DOMAIN v.data :
             /\ k \in Seq(Characters \cup {KS})
             /\ \/ v.data[k] = Deleted
                \/ v.data[k].is \in {"string", "number"} /\ v.data[k].text \in Seq(Characters)
    \/ v.is = "strings" /\ v.items \in Seq(Seq(Characters))
    \/ v.is = "array" /\ v.items \in Seq(Elements) /\ v.dtype[2] \in Nat

\* try_cast and try_parse_key: a text that reads as a number is one.
TryCast(text) ==
    IF text # <<>> /\ Range(text) \subseteq Digits THEN Num(text) ELSE Str(text)

\* stringify_key, compose_key: one key, or two, the second of which may be empty.
ComposeKey(keys) ==
    IF Len(keys) = 1 \/ keys[2] = <<>> THEN keys[1] ELSE keys[1] \o <<KS>> \o keys[2]

\* A property <<name, keys>> with keys names an element of an array.
Pack(prop, v) ==
    IF prop[2] = <<>> THEN v ELSE Assoc([k \in {ComposeKey(prop[2])} |-> v])
Unpack(prop, v) ==
    IF v.is # "assoc" \/ prop[2] = <<>> THEN v
    ELSE LET key == ComposeKey(prop[2]) IN
         IF key \in DOMAIN v.data /\ v.data[key] # Deleted THEN v.data[key] ELSE Failed

\* _update_cache: an array merges into the array that is there.
Merge(old, new) ==
    IF old.is = "assoc" /\ new.is = "assoc"
      THEN Assoc([k \in DOMAIN old.data \cup DOMAIN new.data |->
                    IF k \in DOMAIN new.data THEN new.data[k] ELSE old.data[k]])
      ELSE new

(***************************************************************************)
(* Bytes.                                                                  *)
(***************************************************************************)
Utf8(text) ==
    FlattenSeq([i \in DOMAIN text |->
        IF text[i] \in Wide THEN << <<text[i], 1>>, <<text[i], 2>> >> ELSE << <<text[i], 0>> >>])
EndByte == <<NUL, 0>>

Decodable(bytes) ==
    \A i \in DOMAIN bytes :
        /\ bytes[i][2] = 1 => i < Len(bytes) /\ bytes[i + 1] = <<bytes[i][1], 2>>
        /\ bytes[i][2] = 2 => i > 1 /\ bytes[i - 1] = <<bytes[i][1], 1>>
        /\ bytes[i][2] <= 2
Text(bytes) ==
    LET first == SelectSeq(bytes, LAMBDA b : b[2] < 2) IN [i \in DOMAIN first |-> first[i][1]]

SplitItems(bytes) ==
    FoldLeft(LAMBDA parts, b : IF b = EndByte THEN Append(parts, <<>>)
                               ELSE [parts EXCEPT ![Len(parts)] = Append(@, b)],
             << <<>> >>, bytes)

\* ARRAY_TYPE_TO_NUMERIC_DTYPE; its inverse is NUMERIC_DTYPE_TO_TYPE.
NumericTypes ==
    [ARR_CHAR |-> <<"int", 1>>,  ARR_UCHAR |-> <<"uint", 1>>, ARR_SHORT |-> <<"int", 2>>,
     ARR_USHORT |-> <<"uint", 2>>, ARR_LONG |-> <<"int", 4>>, ARR_ULONG |-> <<"uint", 4>>,
     ARR_FLOAT |-> <<"float", 4>>, ARR_LONG64 |-> <<"int", 8>>,
     ARR_ULONG64 |-> <<"uint", 8>>, ARR_DOUBLE |-> <<"float", 8>>]
HasType(dtype) == \E t \in DOMAIN NumericTypes : NumericTypes[t] = dtype
FromNumpyType(dtype) == CHOOSE t \in DOMAIN NumericTypes : NumericTypes[t] = dtype
IsArrayType(type) == type \in DOMAIN NumericTypes \cup {"ARR_STRING"}

ElementBytes(e, size, order) ==
    [i \in 1..size |-> <<e, IF order = "<" THEN i ELSE size + 1 - i>>]
Element(bytes, order) ==
    LET low == IF order = "<" THEN 1 ELSE Len(bytes)
    IN IF bytes[low][2] = 1 THEN bytes[low][1] ELSE "swapped"

(***************************************************************************)
(* protocol.serialize: the type and shape for the header, and the payload. *)
(***************************************************************************)
Payload(type, rows, cols, bytes) ==
    [type |-> type, rows |-> rows, cols |-> cols,
     bytes |-> IF bytes = <<>> THEN bytes ELSE Append(bytes, EndByte)]

\* What it accepts: of arrays, those of at most two dimensions, of texts or of a
\* type that SPEC has.  For the others it raises.
Serializable(v) ==
    /\ v.is \in {"strings", "array"} => Len(v.dims) <= 2
    /\ v.is = "array" => HasType(v.dtype)

\* str() of an array's value: a deleted one reads "None".
AssocText(v) == IF v = Deleted THEN <<"None">> ELSE v.text
AssocBytes(data) ==
    LET keys == SetToSeq(DOMAIN data) IN
    IF keys = <<>> THEN <<EndByte>>
    ELSE FlattenSeq([i \in DOMAIN keys |->
             Utf8(keys[i]) \o <<EndByte>> \o Utf8(AssocText(data[keys[i]])) \o <<EndByte>>])

\* Without data the type is STRING.  A string is cut after as many bytes as it
\* has characters.  An array of one dimension is a matrix of one row.
Serialize(v, order) ==
    LET Matrix(type, bytes) ==
            IF Len(v.dims) = 1 THEN Payload(type, 1, v.dims[1], bytes)
                               ELSE Payload(type, v.dims[1], v.dims[2], bytes)
    IN CASE v.is = "none"   -> Payload("STRING", 0, 0, <<>>)
         [] v.is = "error"  -> Payload("ERROR", 0, 0, Utf8(v.text))
         [] v.is \in {"string", "number"} ->
                Payload("STRING", 0, 0, SubSeq(Utf8(v.text), 1, Len(v.text)))
         [] v.is = "assoc"  -> Payload("ASSOC", 0, 0, AssocBytes(v.data))
         [] v.is = "strings" ->
                Matrix("ARR_STRING",
                       FlattenSeq([i \in DOMAIN v.items |-> Utf8(v.items[i]) \o <<EndByte>>]))
         [] v.is = "array"  ->
                Matrix(FromNumpyType(v.dtype),
                       FlattenSeq([i \in DOMAIN v.items |->
                                     ElementBytes(v.items[i], v.dtype[2], order)]))

(***************************************************************************)
(* _deserialize_data, Failed where it raises.                              *)
(***************************************************************************)
Reshape(rows, cols) == IF rows = 1 THEN <<cols>> ELSE <<rows, cols>>

DeserializeAssoc(bytes, deleted) ==
    LET items == Front(SplitItems(bytes))
        n     == Len(items) \div 2
        Key(i) == Text(items[2 * i - 1])
        last(k) == CHOOSE i \in 1..n : Key(i) = k /\ \A j \in i + 1..n : Key(j) # k
    IN Assoc([k \in {Key(i) : i \in 1..n} |->
                IF deleted THEN Deleted ELSE TryCast(Text(items[2 * last(k)]))])

DeserializeStrings(rows, cols, bytes) ==
    LET strings == SelectSeq(SplitItems(bytes), LAMBDA s : s # <<>>)
    IN IF strings = <<>> \/ Len(strings) # rows * cols \/ ~Decodable(bytes)
         THEN Failed
         ELSE Strs(Reshape(rows, cols), [i \in DOMAIN strings |-> Text(strings[i])])

DeserializeNumbers(h, bytes) ==
    LET dtype == NumericTypes[h.type]
        size  == dtype[2]
        n     == h.rows * h.cols
    IN IF n * size \notin {Len(bytes), Len(bytes) - 1}
         THEN Failed
         ELSE Arr(dtype, Reshape(h.rows, h.cols),
                  [i \in 1..n |-> Element(SubSeq(bytes, (i - 1) * size + 1, i * size), h.order)])

\* h is the header the reader has made of what it read as struct: only a
\* structure of version 4 has flags.
Deserialize(h, struct, data) ==
    LET ended == data # <<>> /\ Last(data) = EndByte
        bytes == IF data # <<>> /\ (~IsArrayType(h.type) \/ (h.type = "ARR_STRING" /\ ended))
                   THEN Front(data) ELSE data
    IN CASE ~IsArrayType(h.type) /\ data # <<>> /\ ~ended -> Failed
         [] h.type = "ARR_STRING"                 -> DeserializeStrings(h.rows, h.cols, bytes)
         [] h.type \in DOMAIN NumericTypes        -> DeserializeNumbers(h, bytes)
         [] ~IsArrayType(h.type) /\ ~Decodable(bytes) -> Failed
         [] h.type = "ASSOC" /\ h.version >= 4 /\ struct < 4 -> Failed
         [] OTHER ->
              CASE h.type = "STRING" -> TryCast(Text(bytes))
                [] h.type = "ERROR"  -> Err(Text(bytes))
                [] h.type = "ASSOC"  -> DeserializeAssoc(bytes, h.version >= 4 /\ h.deleted)

(***************************************************************************)
(* Headers.  One word stands for the prefix (magic, version and size), one *)
(* for the fields every version has; version 3 adds err, version 4 flags.  *)
(***************************************************************************)
HeaderWords(struct) == CASE struct = 2 -> 2 [] struct = 3 -> 3 [] struct = 4 -> 4

\* _determine_header_struct: by version, or the longest that fits the size.
HeaderStruct(version, size) ==
    IF version \in 2..4 THEN version
    ELSE LET fits == {s \in 2..4 : HeaderWords(s) <= size} IN
         IF fits = {} THEN 2 ELSE CHOOSE s \in fits : \A r \in fits : r <= s
================================================================================
