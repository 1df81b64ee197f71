-------------------------------- MODULE Framing --------------------------------
(***************************************************************************)
(* One connection: Connection._send and _listen of its two ends over the   *)
(* codec, the byte order each learns from the other, and the property      *)
(* cache the client builds from what it receives.                          *)
(*                                                                         *)
(* The other modules assume that no write meets a full transport buffer.   *)
(* Here it may: a send then waits between its header and its data.         *)
(* An end whose headers are not of version 4 is a program that is not in   *)
(* the repository; the rest of its behaviour is the same.                  *)
(***************************************************************************)
EXTENDS Codec

CONSTANTS
    Senders,    \* calls of _send
    EndOf,      \* the end each is made at
    Contents,   \* Contents[t]: what sender t may send
    Versions,   \* header versions of ends that are not this program
    Machines,   \* the byte orders of the two machines
    Marks,      \* Marks[e]: sizes of the buffer above which e's writes are paused
    LowWater,   \* they are resumed when no more than this is left
    Serial,     \* ends at which one send is over before the next begins
    Hasty,      \* sends that may be cancelled between header and data
    Watched,    \* the associative array the client watches
    Commands,   \* properties that stand for the commands and functions a client sends
    None        \* not known yet

Ends == {"client", "server"}
Peer(e) == IF e = "client" THEN "server" ELSE "client"
Orders == {"<", ">"}

\* A message is a property, a value and whether the sender flags a deletion.
Message == UNION {Contents[t] : t \in Senders}

ASSUME FramingAssumption ==
    /\ EndOf \in [Senders -> Ends]
    /\ \A m \in Message : /\ DOMAIN m = {"prop", "value", "deleted"}
                          /\ IsValue(Pack(m.prop, m.value))
                          /\ m.prop = Watched => m.value.is = "assoc"
                          /\ m.prop \in Commands => m.prop[2] = <<>> /\ m.value.is = "string"
    /\ Watched[2] = <<>>
    /\ Machines \subseteq [Ends -> Orders]
    /\ Serial \subseteq Ends /\ Hasty \subseteq Senders
    /\ LowWater \in Nat /\ \A e \in Ends : \A h \in Marks[e] : h \in Nat /\ h >= LowWater
    /\ None \notin Orders

VARIABLES
    version,    \* version[e]: version of the headers e sends
    native,     \* native[e]: its machine's byte order
    high,       \* high[e]: the high-water mark of its transport
    order,      \* order[e]: Connection._peer_endianness
    buffer,     \* buffer[e]: written by e and not yet taken by the network
    paused,     \* paused[e]: e's transport has called pause_writing
    stream,     \* stream[e]: on its way from e, or in the reader of its peer
    task,       \* task[t]: where sender t stands, and the data it has not written
    deaf,       \* ends whose message_stream has ended
    table,      \* the client's cache of the properties it was sent
    array,      \* history: the associative array as the server knows it
    sent,       \* history: messages handed to _send
    received    \* history: values emitted as "message"

vars == <<version, native, high, order, buffer, paused, stream, task, deaf, table, array,
          sent, received>>

Props == {m.prop : m \in Message}
Task(state, data) == [state |-> state, data |-> data]

TypeOK ==
    /\ order \in [Ends -> Orders \cup {None}]
    /\ paused \in [Ends -> BOOLEAN]
    /\ \A e \in Ends : paused[e] => Len(buffer[e]) > LowWater
    /\ \A t \in Senders : task[t].state \in {"idle", "header", "resumed", "drain", "over"}
    /\ deaf \subseteq Ends
    /\ DOMAIN table \subseteq Props
    /\ \A e \in Ends : Len(received[e]) <= Len(sent[Peer(e)])

\* At most one end is another program.
Init ==
    /\ \E v \in Versions \cup {4}, e \in Ends : version = [d \in Ends |-> IF d = e THEN v ELSE 4]
    /\ native \in Machines
    /\ high \in [Ends -> UNION {Marks[e] : e \in Ends}] /\ \A e \in Ends : high[e] \in Marks[e]
    /\ order = [e \in Ends |-> None]
    /\ buffer = [e \in Ends |-> <<>>] /\ stream = [e \in Ends |-> <<>>]
    /\ paused = [e \in Ends |-> FALSE]
    /\ task = [t \in Senders |-> Task("idle", <<>>)]
    /\ deaf = {}
    /\ table = [p \in {} |-> NoValue]
    /\ array = [k \in {} |-> NoValue]
    /\ sent = [e \in Ends |-> <<>>] /\ received = [e \in Ends |-> <<>>]

(***************************************************************************)
(* Sending.                                                                *)
(***************************************************************************)
\* Words on the wire: the prefix, the other words of a header, a byte.
Field == <<"FIELD", 0>>
Word(byte, header) == [byte |-> byte, header |-> header]

\* Mutant: everyone sends in the order of its own machine.
OwnOrder(e) == native[e]
OrderFor(e) == IF order[e] = None THEN native[e] ELSE order[e]

\* Mutant: the length counts the zero byte at the end twice.
FrameTooLong(e, m) ==
    LET v == Pack(m.prop, m.value)
        p == Serialize(v, OrderFor(e))
        h == [version |-> version[e], size |-> HeaderWords(4), order |-> OrderFor(e),
              prop |-> m.prop, type |-> p.type, rows |-> p.rows, cols |-> p.cols,
              length |-> IF p.bytes = <<>> THEN 0 ELSE Len(p.bytes) + 1, deleted |-> m.deleted]
    IN [header |-> [i \in 1..HeaderWords(4) |-> Word(IF i = 1 THEN Magic ELSE Field, h)],
        data   |-> [i \in DOMAIN p.bytes |-> Word(p.bytes[i], h)]]

\* Version 6 stands for one this program does not know, with a longer header.
HeaderSize(v) == IF v \in 2..4 THEN HeaderWords(v) ELSE HeaderWords(4) + 1
HeaderOf(v, m, o) ==
    LET p == Serialize(Pack(m.prop, m.value), o)
    IN [version |-> v, size |-> HeaderSize(v), order |-> o, prop |-> m.prop, type |-> p.type,
        rows |-> p.rows, cols |-> p.cols, length |-> Len(p.bytes), deleted |-> m.deleted]
FrameOf(v, m, o) ==
    LET h == HeaderOf(v, m, o)
        bytes == Serialize(Pack(m.prop, m.value), o).bytes
    IN [header |-> [i \in 1..HeaderSize(v) |-> Word(IF i = 1 THEN Magic ELSE Field, h)],
        data   |-> [i \in DOMAIN bytes |-> Word(bytes[i], h)]]
\* Mutant: the data go out in the order of the machine, whatever the header says.
FrameNative(e, m) ==
    [header |-> FrameOf(version[e], m, OrderFor(e)).header,
     data   |-> FrameOf(version[e], m, native[e]).data]
Frame(e, m) == FrameOf(version[e], m, OrderFor(e))

\* write(), after which drain() suspends its caller iff Full.
Full(e, words) == paused[e] \/ Len(words) > high[e]
Write(e, words) ==
    /\ buffer' = [buffer EXCEPT ![e] = words]
    /\ paused' = [paused EXCEPT ![e] = Full(e, words)]

InFlight(t) == task[t].state \in {"header", "resumed", "drain"}

\* What the receiver is to make of a value: a text that reads as a number is
\* one, no value is the empty string, a matrix of one row is a vector.
Meaning(v) ==
    CASE v.is = "none"   -> Str(<<>>)
      [] v.is = "string" -> TryCast(v.text)
      [] v.is \in {"strings", "array"} /\ Len(v.dims) = 2 /\ v.dims[1] = 1 ->
             [v EXCEPT !.dims = <<v.dims[2]>>]
      [] OTHER           -> v
Understood(m) ==
    LET v == Pack(m.prop, m.value) IN
    IF v.is # "assoc" THEN Meaning(v)
    ELSE Assoc([k \in DOMAIN v.data |-> IF m.deleted THEN Deleted ELSE Meaning(v.data[k])])

\* What the message does to the array the server knows.
Changed(m) ==
    LET v == Understood(m) IN
    IF m.prop # Watched THEN array
    ELSE IF m.deleted   THEN [k \in DOMAIN array \ DOMAIN v.data |-> array[k]]
    ELSE Merge(Assoc(array), v).data

\* Only a version from 4 on can flag a deletion, and only SPEC does: serialize
\* leaves the flags of its headers 0.
Sendable(v, m) == (m.deleted => v >= 4) /\ Serializable(Pack(m.prop, m.value))

\* The server speaks when it was spoken to.
MaySpeak(t) == task[t].state = "idle" /\ (EndOf[t] = "server" => received["server"] # <<>>)

\* serialize raises, and the caller of _send sees it.
Refuse(t) ==
    /\ MaySpeak(t)
    /\ \E m \in Contents[t] : ~Serializable(Pack(m.prop, m.value))
    /\ task' = [task EXCEPT ![t] = Task("over", <<>>)]
    /\ UNCHANGED <<version, native, high, order, buffer, paused, stream, deaf, table, array,
                   sent, received>>

\* _send up to its first await that suspends.
Send(t) ==
    LET e == EndOf[t] IN
    /\ MaySpeak(t)
    /\ e \in Serial => \A u \in Senders : EndOf[u] = e => ~InFlight(u)
    /\ \E m \in {x \in Contents[t] : Sendable(version[e], x)} :
         LET frame  == Frame(e, m)
             header == buffer[e] \o frame.header
             all    == header \o frame.data
         IN /\ IF Full(e, header)
                 THEN Write(e, header) /\ task' = [task EXCEPT ![t] = Task("header", frame.data)]
                 ELSE Write(e, all) /\ task' = [task EXCEPT ![t] =
                        Task(IF Full(e, all) THEN "drain" ELSE "over", <<>>)]
            /\ sent' = [sent EXCEPT ![e] = Append(@, m)]
            /\ array' = IF e = "server" THEN Changed(m) ELSE array
    /\ UNCHANGED <<version, native, high, order, stream, deaf, table, received>>

\* The transport has called resume_writing, and the coroutine writes its data.
SendData(t) ==
    LET e == EndOf[t]
        all == buffer[e] \o task[t].data IN
    /\ task[t].state = "resumed"
    /\ Write(e, all)
    /\ task' = [task EXCEPT ![t] =
                  Task(IF task[t].data # <<>> /\ Full(e, all) THEN "drain" ELSE "over", <<>>)]
    /\ UNCHANGED <<version, native, high, order, stream, deaf, table, array, sent, received>>

\* The caller of a suspended send gives up.
Cancel(t) ==
    /\ task[t].state = "drain" \/ (task[t].state = "header" /\ t \in Hasty)
    /\ task' = [task EXCEPT ![t] = Task("over", <<>>)]
    /\ UNCHANGED <<version, native, high, order, buffer, paused, stream, deaf, table, array,
                   sent, received>>

\* The network takes what is in the buffer, and who waited in drain() goes on.
Transmit(e) ==
    /\ buffer[e] # <<>>
    /\ stream' = [stream EXCEPT ![e] = @ \o buffer[e]]
    /\ buffer' = [buffer EXCEPT ![e] = <<>>]
    /\ paused' = [paused EXCEPT ![e] = FALSE]
    /\ task' = [t \in Senders |->
                  CASE EndOf[t] = e /\ task[t].state = "header" -> Task("resumed", task[t].data)
                    [] EndOf[t] = e /\ task[t].state = "drain"  -> Task("over", <<>>)
                    [] OTHER                                    -> task[t]]
    /\ UNCHANGED <<version, native, high, order, deaf, table, array, sent, received>>

(***************************************************************************)
(* Receiving.                                                              *)
(***************************************************************************)
\* Mutants: the elements of an array are cached one by one; the update replaces
\* the array.
CacheByElement(prop, v) ==
    LET new(p) == IF p = prop THEN v ELSE v.data[p[2][1]]
        added  == IF v.is = "assoc" THEN {<<prop[1], <<k>>>> : k \in DOMAIN v.data} ELSE {prop}
    IN [p \in DOMAIN table \cup added |-> IF p \in added THEN new(p) ELSE table[p]]
CacheReplacing(prop, v) ==
    [p \in DOMAIN table \cup {prop} |-> IF p = prop THEN v ELSE table[p]]

\* The client's cache; an element that is not in the array raises, which the
\* dispatcher reports and the cache does not see.
Cache(prop, v) ==
    LET new == Unpack(prop, v) IN
    IF new = Failed THEN table
    ELSE IF prop \in DOMAIN table THEN [table EXCEPT ![prop] = Merge(@, new)]
    ELSE [p \in DOMAIN table \cup {prop} |-> IF p = prop THEN new ELSE table[p]]

Bytes(words) == [i \in DOMAIN words |-> words[i].byte]

\* The mutant reads as many words as the structure has that it chose.
WordsOfStruct(h, struct) == HeaderWords(struct)

\* The words of a header that is read as struct.
Words(h, struct) == IF HeaderWords(struct) > h.size THEN HeaderWords(struct) ELSE h.size

\* What message_stream makes of what e has read: nothing yet, or one message,
\* whose value Failed says that there is no header or that its data cannot be
\* decoded.
Incoming(e) ==
    LET in == stream[Peer(e)]
        h  == in[1].header
        struct == HeaderStruct(h.version, h.size)
        data   == Words(h, struct)
        end    == data + h.length
    IN IF in = <<>> THEN {}
       ELSE IF in[1].byte # Magic THEN {[h |-> h, value |-> Failed, rest |-> in]}
       ELSE IF Len(in) < end THEN {}
       ELSE {[h |-> h, value |-> Deserialize(h, struct, Bytes(SubSeq(in, data + 1, end))),
              rest |-> SubSeq(in, end + 1, Len(in))]}

\* A command is to be a text.  The server's dispatcher runs within the emit and
\* raises into the listener; the client's is a task of its own.
Raises(e, prop, v) == e = "server" /\ prop \in Commands /\ v.is \notin {"string", "error"}

\* The listener emits it, and ends if that raises.
Receive(e) ==
    \E m \in Incoming(e) :
       /\ e \notin deaf /\ m.value # Failed
       /\ stream' = [stream EXCEPT ![Peer(e)] = m.rest]
       /\ order' = [order EXCEPT ![e] = m.h.order]
       /\ received' = [received EXCEPT ![e] = Append(@, m.value)]
       /\ table' = IF e = "client" THEN Cache(m.h.prop, m.value) ELSE table
       /\ deaf' = IF Raises(e, m.h.prop, m.value) THEN deaf \cup {e} ELSE deaf
       /\ UNCHANGED <<version, native, high, buffer, paused, task, array, sent>>

\* message_stream ends, and with it the listener.
GoDeaf(e) ==
    \E m \in Incoming(e) :
       /\ e \notin deaf /\ m.value = Failed
       /\ deaf' = deaf \cup {e}
       /\ UNCHANGED <<version, native, high, order, buffer, paused, stream, task, table, array,
                      sent, received>>

Listen(e) == Receive(e) \/ GoDeaf(e)

Next ==
    \/ \E t \in Senders : Send(t) \/ Refuse(t) \/ SendData(t) \/ Cancel(t)
    \/ \E e \in Ends : Transmit(e) \/ Listen(e)

Spec == Init /\ [][Next]_vars

\* When Listen(e) is enabled.
Ready(e) == e \notin deaf /\ Incoming(e) # {}

\* The network takes what is written, the event loops run what is ready.  The
\* fairness of Listen(e) is written out, without ENABLED: what it decodes is
\* expensive to evaluate under it.
FairSpec ==
    /\ Spec
    /\ \A t \in Senders : WF_vars(SendData(t))
    /\ \A e \in Ends : WF_vars(Transmit(e)) /\ ([]<>~Ready(e) \/ []<><<Listen(e)>>_vars)

(***************************************************************************)
(* Properties.                                                             *)
(***************************************************************************)
\* What a reader makes of a message of version v and byte order o, and that it is
\* what the sender meant, unless the data cannot be decoded.
Decoded(v, m, o) ==
    LET h == HeaderOf(v, m, o)
    IN Deserialize(h, HeaderStruct(v, h.size), Serialize(Pack(m.prop, m.value), o).bytes)
RoundTrip ==
    \A v \in Versions \cup {4}, m \in Message, o \in Orders :
        Sendable(v, m) => Decoded(v, m, o) \in {Understood(m), Failed}

\* A text that is cut within a character, an array with an empty string: those
\* are the data that cannot be decoded.
Undecodable(v) ==
    \/ v.is = "string" /\ v.text[Len(v.text)] \in Wide
    \/ v.is = "strings" /\ <<>> \in Range(v.items)
RejectsOnly ==
    \A v \in Versions \cup {4}, m \in Message, o \in Orders :
        Sendable(v, m) /\ Decoded(v, m, o) = Failed => Undecodable(m.value)

\* The connection implements a channel of whole messages in each direction,
\* across header versions and byte orders: the listeners emit what was handed
\* to _send, in that order, each once and with its meaning.
Channel == INSTANCE MessageChannel WITH Messages <- Message
Delivers == Channel!Spec

\* Every message handed to _send arrives, unless the listener of the other end
\* has stopped before it.
Arrives ==
    \A e \in Ends : \A n \in 1..Cardinality(Senders) :
        Len(sent[e]) >= n ~> Len(received[Peer(e)]) >= n \/ Peer(e) \in deaf

\* A listener stops only at a message whose own data its reader rejects, a text
\* cut within a character or an array with an empty string, or, at the server,
\* after a command whose text reads as a number, which the dispatcher rejects;
\* and never at what other messages before it or around it have left in the
\* stream.
DeafByValue ==
    \A e \in deaf :
        LET theirs == sent[Peer(e)]
            n == Len(received[e])
        IN \/ n < Len(theirs) /\ Undecodable(theirs[n + 1].value)
           \/ /\ e = "server" /\ n > 0
              /\ theirs[n].prop \in Commands /\ Understood(theirs[n]).is = "number"

\* The server sends in the byte order of the client ("all messages sent along
\* this connection will use the determined endianness", connection.py:114), and
\* so neither end ever changes the order it learnt.
ClientsOrder ==
    /\ \A i \in DOMAIN stream["server"] : stream["server"][i].header.order = native["client"]
    /\ \A e \in Ends : order[e] \in {None, native["client"]}

\* When the client has received all, the array in its cache, less the deleted
\* elements, is the array of the server that sent it the changes one by one.
ViewConverges ==
    Len(received["client"]) = Len(sent["server"]) /\ Watched \in DOMAIN table =>
        LET view == table[Watched].data
            live == {k \in DOMAIN view : view[k] # Deleted}
        IN [k \in live |-> view[k]] = array

\* "Emits a 'message' event for each received message" (connection.py:182): no
\* listener stops because the messages that concurrent sends wrote are not to be
\* told apart.
NobodyDeaf == deaf = {}
================================================================================
