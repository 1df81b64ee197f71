--------------------------- MODULE PropertySyncProofs ---------------------------
(***************************************************************************)
(* Type correctness, the agreement of subscription counts with the         *)
(* server's listener table, and what the last events and the caches of the *)
(* clients say, for every number of clients, properties, writes and calls. *)
(***************************************************************************)
EXTENDS PropertySync, EventLoopProofs

(***************************************************************************)
(* Type correctness.                                                       *)
(***************************************************************************)
LEMMA MessageTypes ==
  /\ \A n \in Names, com \in WatchCommands : Msg(com, n, None, 0) \in FromClient
  /\ \A n \in Names, v \in Writes : Msg("CHAN_SEND", n, v, 0) \in FromClient
  /\ \A n \in Names, r \in Readers : Msg("CHAN_READ", n, None, r) \in FromClient
  /\ Msg("CLOSE", None, None, 0) \in FromClient
  /\ \A n \in Served, v \in Writes : Msg("EVENT", n, v, 0) \in EventMessage
  /\ \A v \in Writes \cup {Error}, r \in Readers :
       Msg("REPLY", None, v, r) \in ReplyMessage
BY DEF Msg, FromClient, WatchCommands, Shape, EventMessage, ReplyMessage

LEMMA TaskTypes ==
  /\ \A c \in Clients : Task("listen", c, NoMsg) \in ServerTask \cap ClientTask
  /\ \A c \in Clients, m \in FromClient : Task("handle", c, m) \in ServerTask
  /\ \A m \in EventMessage : Task("broadcast", None, m) \in ServerTask
  /\ \A c \in Clients, m \in EventMessage : Task("send", c, m) \in ServerTask
  /\ \A c \in Clients, m \in FromServer : Task("dispatch", c, m) \in ClientTask
  /\ \A c \in Clients, m \in ReplyMessage : Task("wake", c, m) \in ClientTask
BY DEF Task, Tasks, ServerTask, ClientTask

\* What a task in a ready queue of a given kind carries.
LEMMA TaskShapes ==
  /\ \A t \in ServerTask :
       /\ t.kind \in {"listen", "handle", "broadcast", "send"}
       /\ t.kind = "listen" => t.conn \in Clients
       /\ t.kind = "handle" => t.conn \in Clients /\ t.msg \in FromClient
       /\ t.kind = "broadcast" => t.msg \in EventMessage
       /\ t.kind = "send" => t.conn \in Clients /\ t.msg \in EventMessage
  /\ \A t \in ClientTask :
       /\ t.kind = "dispatch" => t.msg \in FromServer
       /\ t.kind = "wake" => t.msg \in ReplyMessage
BY DEF Tasks, ServerTask, ClientTask

LEMMA MessageShapes ==
  /\ \A m \in FromClient :
       /\ m.command \in WatchCommands => m.name \in Names
       /\ m.command = "CHAN_SEND" => m.name \in Names /\ m.data \in Writes
       /\ m.command = "CHAN_READ" => m.name \in Names /\ m.seq \in Readers
  /\ \A m \in EventMessage : m.name \in Served /\ m.data \in Writes
  /\ \A m \in FromServer :
       /\ m.command = "EVENT" => m.name \in Served /\ m.data \in Writes
       /\ m.command = "REPLY" => m \in ReplyMessage
  /\ \A m \in ReplyMessage : m.data \in Writes \cup {Error} /\ m.seq \in Readers
BY DEF FromClient, FromServer, EventMessage, ReplyMessage, Shape, WatchCommands

\* A message put into a client's channel to the server, ...
LEMMA RequestType ==
  ASSUME TypeOK, NEW c \in Clients, NEW m \in FromClient, Request(c, m)
  PROVE  c2s' \in [Clients -> Seq(FromClient)]
BY AppendProperties DEF Request, TypeOK

\* Types are preserved by each call of a client, ...
LEMMA TypeUserCalls ==
  ASSUME TypeOK, NEW c \in Clients, NEW n \in Names,
         Subscribe(c, n) \/ Unsubscribe(c, n) \/ Write(c, n)
           \/ (\E r \in Readers : Read(c, n, r))
  PROVE  TypeOK'
<1>. USE SyncAssumption
<1>1. CASE Subscribe(c, n)
  <2>1. c2s' \in [Clients -> Seq(FromClient)]
    BY <1>1, MessageTypes, RequestType DEF Subscribe, TypeOK, WatchCommands
  <2>2. watchers' \in [Clients -> [Names -> Nat]] /\ ops' \in 0..MaxOps
    BY <1>1 DEF Subscribe, UserCall, TypeOK
  <2>. QED
    BY <1>1, <2>1, <2>2 DEF Subscribe, TypeOK, serverVars, history
<1>2. CASE Unsubscribe(c, n)
  <2>1. c2s' \in [Clients -> Seq(FromClient)]
    BY <1>2, MessageTypes, RequestType DEF Unsubscribe, TypeOK, WatchCommands
  <2>2. watchers' \in [Clients -> [Names -> Nat]] /\ ops' \in 0..MaxOps
    BY <1>2 DEF Unsubscribe, UserCall, Subscribed, TypeOK
  <2>. QED
    BY <1>2, <2>1, <2>2 DEF Unsubscribe, TypeOK, serverVars, history
<1>3. CASE Write(c, n)
  <2>1. writes' \in 0..MaxWrites /\ writes + 1 \in Writes
    BY <1>3 DEF Write, TypeOK, Writes
  <2>2. c2s' \in [Clients -> Seq(FromClient)]
    BY <1>3, <2>1, MessageTypes, RequestType DEF Write
  <2>3. table' \in [Clients -> [Names -> Writes \cup {None}]]
    BY <1>3, <2>1 DEF Write, TypeOK
  <2>4. wrote' \in [Clients -> [Names -> Writes]]
    BY <1>3, <2>1 DEF Write, TypeOK
  <2>. QED
    BY <1>3, <2>1, <2>2, <2>3, <2>4 DEF Write, TypeOK, serverVars
<1>4. ASSUME NEW r \in Readers, Read(c, n, r) PROVE TypeOK'
  <2>1. c2s' \in [Clients -> Seq(FromClient)]
    BY <1>4, MessageTypes, RequestType DEF Read
  <2>2. ops' \in 0..MaxOps
    BY <1>4 DEF Read, UserCall, TypeOK
  <2>3. calls' \in [Clients -> [Readers -> Call]]
    <3>1. n \in Served => Len(hist[n]) \in Nat
      BY LenProperties DEF TypeOK
    <3>. DEFINE call == [name |-> n, cached |-> Subscribed(c, n),
                         since |-> IF n \in Served THEN Len(hist[n]) ELSE 0,
                         after |-> wrote[c][n]]
    <3>2. call \in Call
      BY <3>1 DEF Call, Subscribed, TypeOK
    <3>3. calls' = [calls EXCEPT ![c][r] = call]
      BY <1>4 DEF Read
    <3>. HIDE DEF call
    <3>. QED
      BY <3>2, <3>3 DEF TypeOK
  <2>. QED
    BY <1>4, <2>1, <2>2, <2>3 DEF Read, TypeOK, serverVars, history
<1>. QED
  BY <1>1, <1>2, <1>3, <1>4

LEMMA TypeClose ==
  ASSUME TypeOK, NEW c \in Clients, Close(c)
  PROVE  TypeOK'
<1>1. c2s' \in [Clients -> Seq(FromClient)]
  BY MessageTypes, RequestType DEF Close
<1>2. ops' \in 0..MaxOps /\ closed' \subseteq Clients
  BY SyncAssumption DEF Close, UserCall, TypeOK
<1>3. s2c' \in [Clients -> Seq(FromServer)]
  BY EmptySeq DEF Close, TypeOK
<1>. QED
  BY <1>1, <1>2, <1>3 DEF Close, TypeOK, serverVars, history

\* ... and the server's message into a channel to a client.
LEMMA DeliverType ==
  ASSUME TypeOK, NEW c \in Clients, NEW m \in FromServer, Deliver(c, m)
  PROVE  s2c' \in [Clients -> Seq(FromServer)]
BY AppendProperties DEF Deliver, TypeOK

\* The arrival of bytes wakes a listener.
LEMMA TypeArrive ==
  ASSUME TypeOK, NEW c \in Clients, Arrive(c)
  PROVE  TypeOK'
<1>1. CASE ServerArrive(c)
  <2>1. ready' \in Seq(ServerTask)
    BY <1>1, TaskTypes, AppendProperties DEF ServerArrive, TypeOK
  <2>. QED
    BY <1>1, <2>1 DEF ServerArrive, TypeOK, clientVars, history
<1>2. CASE ClientArrive(c)
  <2>1. queue' \in [Clients -> Seq(ClientTask)]
    BY <1>2, TaskTypes, AppendProperties DEF ClientArrive, TypeOK
  <2>. QED
    BY <1>2, <2>1 DEF ClientArrive, TypeOK, serverVars, history
<1>. QED
  BY <1>1, <1>2 DEF Arrive

\* A step of a client's event loop.
LEMMA TypeClientStep ==
  ASSUME TypeOK, NEW c \in Clients, ClientStep(c)
  PROVE  TypeOK'
<1>. DEFINE t == Head(queue[c])
<1>1. queue[c] \in Seq(ClientTask) /\ s2c[c] \in Seq(FromServer) /\ calls[c] \in [Readers -> Call]
  BY DEF TypeOK
<1>2. queue[c] # <<>>
  BY DEF ClientStep, ClientListen, DispatchEvent, DispatchReply, WakeRead, Running
<1>3. t \in ClientTask /\ Tail(queue[c]) \in Seq(ClientTask)
  BY <1>1, <1>2, HeadTailProperties
<1>. HIDE DEF t
<1>4. CASE ClientListen(c)
  <2>1. PICK k \in IF s2c[c] = <<>> THEN {0} ELSE 1..Len(s2c[c]) :
          /\ queue' = [queue EXCEPT ![c] = Tail(@) \o HandleAll("dispatch", c, s2c[c], k)]
          /\ s2c' = [s2c EXCEPT ![c] = Drop(@, k)]
    BY <1>4 DEF ClientListen
  <2>2. k \in 0..Len(s2c[c])
    BY <1>1, LenProperties
  <2>3. HandleAll("dispatch", c, s2c[c], k) \in Seq(ClientTask)
    BY <1>1, <2>2, TaskTypes, HandleAllType
  <2>4. Tail(queue[c]) \o HandleAll("dispatch", c, s2c[c], k) \in Seq(ClientTask)
    BY <1>3, <2>3, ConcatProperties
  <2>5. Drop(s2c[c], k) \in Seq(FromServer)
    BY <1>1, <2>2, DropProperties
  <2>6. queue' \in [Clients -> Seq(ClientTask)] /\ s2c' \in [Clients -> Seq(FromServer)]
    BY <2>1, <2>4, <2>5 DEF TypeOK
  <2>. QED
    BY <1>4, <2>6 DEF ClientListen, TypeOK, serverVars, history
<1>5. CASE DispatchEvent(c)
  <2>1. t.msg.name \in Served /\ t.msg.data \in Writes
    BY <1>3, <1>5, TaskShapes, MessageShapes DEF DispatchEvent, Running, t
  <2>2. /\ table' = [table EXCEPT ![c][t.msg.name] = t.msg.data]
        /\ seen' = [seen EXCEPT ![c][t.msg.name] = t.msg.data]
        /\ queue' = [queue EXCEPT ![c] = Tail(@)]
    BY <1>5 DEF DispatchEvent, t
  <2>3. /\ table' \in [Clients -> [Names -> Writes \cup {None}]]
        /\ seen' \in [Clients -> [Names -> Writes \cup {None}]]
        /\ queue' \in [Clients -> Seq(ClientTask)]
    BY <1>3, <2>1, <2>2 DEF TypeOK
  <2>. QED
    BY <1>5, <2>3 DEF DispatchEvent, TypeOK, serverVars
<1>6. CASE DispatchReply(c)
  <2>1. t.msg \in ReplyMessage
    BY <1>3, <1>6, TaskShapes, MessageShapes DEF DispatchReply, Running, t
  <2>2. Append(Tail(queue[c]), Task("wake", c, t.msg)) \in Seq(ClientTask)
    BY <1>3, <2>1, TaskTypes, AppendProperties
  <2>3. queue' \in [Clients -> Seq(ClientTask)]
    BY <1>6, <2>2 DEF DispatchReply, TypeOK, t
  <2>. QED
    BY <1>6, <2>3 DEF DispatchReply, TypeOK, serverVars, history
<1>7. CASE WakeRead(c)
  <2>. DEFINE call == calls[c][t.msg.seq]
  <2>1. t.msg.data \in Writes \cup {Error} /\ t.msg.seq \in Readers
    BY <1>3, <1>7, TaskShapes, MessageShapes DEF WakeRead, Running, t
  <2>2. call \in Call
    BY <1>1, <2>1
  <2>3. /\ table' = IF call.cached /\ t.msg.data # Error
                      THEN [table EXCEPT ![c][call.name] = t.msg.data] ELSE table
        /\ result' = [result EXCEPT ![c][t.msg.seq] = [call |-> call, val |-> t.msg.data]]
        /\ calls' = [calls EXCEPT ![c][t.msg.seq] = Idle]
        /\ queue' = [queue EXCEPT ![c] = Tail(@)]
    BY <1>7 DEF WakeRead, t
  <2>. HIDE DEF call
  <2>4. table' \in [Clients -> [Names -> Writes \cup {None}]]
    BY <2>1, <2>3 DEF TypeOK
  <2>5. result' \in [Clients -> [Readers -> [call : Call, val : Writes \cup {None, Error}]]]
    BY <2>1, <2>2, <2>3 DEF TypeOK
  <2>6. calls' \in [Clients -> [Readers -> Call]]
    <3>1. Idle \in Call
      BY SyncAssumption DEF Idle, Call, Writes
    <3>. QED
      BY <2>1, <2>3, <3>1 DEF TypeOK
  <2>7. queue' \in [Clients -> Seq(ClientTask)]
    BY <1>3, <2>3 DEF TypeOK
  <2>. QED
    BY <1>7, <2>4, <2>5, <2>6, <2>7 DEF WakeRead, TypeOK, serverVars
<1>. QED
  BY <1>4, <1>5, <1>6, <1>7 DEF ClientStep

\* Property.set keeps the types, whatever follows it in the ready queue.
LEMMA AssignType ==
  ASSUME TypeOK, NEW n \in Served, NEW v \in Writes, NEW rest \in Seq(ServerTask),
         Assign(n, v, rest)
  PROVE  /\ ready' \in Seq(ServerTask)
         /\ value' \in [Served -> Writes]
         /\ hist' \in [Served -> Seq(Writes)]
<1>1. Append(rest, Task("broadcast", None, Msg("EVENT", n, v, 0))) \in Seq(ServerTask)
  BY MessageTypes, TaskTypes, AppendProperties
<1>2. hist[n] \in Seq(Writes) /\ Append(hist[n], v) \in Seq(Writes)
  BY AppendProperties DEF TypeOK
<1>. QED
  BY <1>1, <1>2 DEF Assign, TypeOK

LEMMA TypeServerSet ==
  ASSUME TypeOK, NEW n \in Served, ServerSet(n)
  PROVE  TypeOK'
<1>1. writes' \in 0..MaxWrites /\ writes + 1 \in Writes
  BY SyncAssumption DEF ServerSet, TypeOK, Writes
<1>2. /\ ready' \in Seq(ServerTask) /\ value' \in [Served -> Writes]
      /\ hist' \in [Served -> Seq(Writes)]
  BY <1>1, AssignType DEF ServerSet, TypeOK
<1>. QED
  BY <1>1, <1>2 DEF ServerSet, TypeOK, clientVars, history

\* The head of the ready queue when the server runs a task, and the rest.
LEMMA ServerHead ==
  ASSUME TypeOK, ServerStep
  PROVE  /\ ready # <<>> /\ Head(ready) \in ServerTask
         /\ Tail(ready) \in Seq(ServerTask)
<1>1. ready # <<>>
  BY DEF ServerStep, ServerListen, OnPropertySet, OnPropertyGet, OnPropertyWatch,
         OnPropertyUnwatch, Broadcast, PropSend, Handling, Serving
<1>. QED
  BY <1>1, HeadTailProperties DEF TypeOK

\* A handler runs on a message its connection has sent.
LEMMA HandledMessage ==
  ASSUME Head(ready) \in ServerTask, NEW command, Handling(command)
  PROVE  /\ Head(ready).conn \in Clients
         /\ Head(ready).msg \in FromClient
         /\ Head(ready).msg.command = command
BY TaskShapes DEF Handling, Serving

\* A step of the server's event loop.
LEMMA TypeServerStep ==
  ASSUME TypeOK, ServerStep
  PROVE  TypeOK'
<1>. USE SyncAssumption
<1>. DEFINE c == Head(ready).conn
            m == Head(ready).msg
<1>1. Head(ready) \in ServerTask /\ Tail(ready) \in Seq(ServerTask)
  BY ServerHead
<1>2. CASE ServerListen
  <2>1. c \in Clients
    BY <1>1, <1>2, TaskShapes DEF ServerListen, Serving
  <2>2. c2s[c] \in Seq(FromClient)
    BY <2>1 DEF TypeOK
  <2>3. PICK k \in 1..Len(c2s[c]) :
          LET close == c2s[c][k].command = "CLOSE" IN
          /\ ready' = Tail(ready)
                        \o HandleAll("handle", c, c2s[c], IF close THEN k - 1 ELSE k)
          /\ gone' = IF close THEN gone \cup {c} ELSE gone
          /\ c2s' = [c2s EXCEPT ![c] = Drop(@, k)]
    BY <1>2 DEF ServerListen
  <2>. DEFINE h == IF c2s[c][k].command = "CLOSE" THEN k - 1 ELSE k
  <2>4. h \in 0..Len(c2s[c]) /\ ready' = Tail(ready) \o HandleAll("handle", c, c2s[c], h)
    <3>1. Len(c2s[c]) \in Nat
      BY <2>2, LenProperties
    <3>2. h \in 0..Len(c2s[c])
      BY <3>1
    <3>. QED
      BY <2>3, <3>2
  <2>. HIDE DEF h
  <2>5. HandleAll("handle", c, c2s[c], h) \in Seq(ServerTask)
    <3>1. \A x \in FromClient : Task("handle", c, x) \in ServerTask
      BY <2>1, TaskTypes
    <3>. HIDE DEF c
    <3>. QED
      BY <2>2, <2>4, <3>1, HandleAllType
  <2>6. ready' \in Seq(ServerTask)
    BY <1>1, <2>4, <2>5, ConcatProperties
  <2>7. gone' \subseteq Clients
    BY <2>1, <2>3 DEF TypeOK
  <2>8. Drop(c2s[c], k) \in Seq(FromClient)
    <3>1. k \in 0..Len(c2s[c])
      BY <2>2, LenProperties
    <3>. QED
      BY <2>2, <3>1, DropProperties
  <2>9. c2s' \in [Clients -> Seq(FromClient)]
    BY <2>3, <2>8 DEF TypeOK
  <2>. QED
    BY <1>2, <2>6, <2>7, <2>9 DEF ServerListen, TypeOK, clientVars, history
<1>3. CASE OnPropertySet
  <2>1. m.data \in Writes
    BY <1>1, <1>3, HandledMessage, MessageShapes DEF OnPropertySet
  <2>2. /\ ready' \in Seq(ServerTask) /\ value' \in [Served -> Writes]
        /\ hist' \in [Served -> Seq(Writes)]
    <3>1. CASE m.name \in Served
      BY <1>1, <1>3, <2>1, <3>1, AssignType DEF OnPropertySet
    <3>2. CASE m.name \notin Served
      BY <1>1, <1>3, <3>2 DEF OnPropertySet, TypeOK
    <3>. QED
      BY <3>1, <3>2
  <2>. QED
    BY <1>3, <2>2 DEF OnPropertySet, TypeOK, clientVars, history
<1>4. CASE OnPropertyGet
  <2>1. c \in Clients /\ m.seq \in Readers
    BY <1>1, <1>4, HandledMessage, MessageShapes DEF OnPropertyGet
  <2>. DEFINE v == IF m.name \in Served THEN value[m.name] ELSE Error
  <2>2. v \in Writes \cup {Error}
    BY DEF TypeOK
  <2>3. Deliver(c, Msg("REPLY", None, v, m.seq))
    BY <1>4 DEF OnPropertyGet
  <2>. HIDE DEF v
  <2>4. Msg("REPLY", None, v, m.seq) \in FromServer
    BY <2>1, <2>2, MessageTypes DEF FromServer
  <2>5. s2c' \in [Clients -> Seq(FromServer)]
    BY <2>1, <2>3, <2>4, DeliverType
  <2>. QED
    BY <1>1, <1>4, <2>5 DEF OnPropertyGet, TypeOK, clientVars, history
<1>5. CASE OnPropertyWatch
  <2>1. c \in Clients /\ m.name \in Names
    BY <1>1, <1>5, HandledMessage, MessageShapes DEF OnPropertyWatch, WatchCommands
  <2>2. s2c' \in [Clients -> Seq(FromServer)]
    <3>1. CASE m.name \in Served
      <4>1. Msg("EVENT", m.name, value[m.name], 0) \in FromServer
        BY <3>1, MessageTypes DEF FromServer, TypeOK
      <4>. QED
        BY <1>5, <2>1, <3>1, <4>1, DeliverType DEF OnPropertyWatch
    <3>2. CASE m.name \notin Served
      BY <1>5, <3>2 DEF OnPropertyWatch, TypeOK
    <3>. QED
      BY <3>1, <3>2
  <2>3. listeners' \in [Names -> SUBSET Clients]
    BY <1>5, <2>1 DEF OnPropertyWatch, TypeOK
  <2>. QED
    BY <1>1, <1>5, <2>2, <2>3 DEF OnPropertyWatch, TypeOK, clientVars, history
<1>6. CASE OnPropertyUnwatch
  <2>1. listeners' \in [Names -> SUBSET Clients]
    BY <1>6 DEF OnPropertyUnwatch, TypeOK
  <2>. QED
    BY <1>1, <1>6, <2>1 DEF OnPropertyUnwatch, TypeOK, clientVars, history
<1>7. CASE Broadcast
  <2>1. m \in EventMessage /\ m.name \in Names
    BY <1>1, <1>7, TaskShapes, MessageShapes DEF Broadcast, Serving
  <2>2. PICK order \in SetToSeqs(listeners[m.name]) :
          ready' = Tail(ready) \o [i \in DOMAIN order |-> Task("send", order[i], m)]
    BY <1>7 DEF Broadcast
  <2>3. order \in Seq(Clients)
    BY <2>1, OrderIsSeq DEF TypeOK
  <2>4. [i \in DOMAIN order |-> Task("send", order[i], m)] \in Seq(ServerTask)
    BY <2>1, <2>3, TaskTypes
  <2>5. ready' \in Seq(ServerTask)
    BY <1>1, <2>2, <2>4, ConcatProperties
  <2>. QED
    BY <1>7, <2>5 DEF Broadcast, TypeOK, clientVars, history
<1>8. CASE PropSend
  <2>1. c \in Clients /\ m \in FromServer
    BY <1>1, <1>8, TaskShapes DEF PropSend, Serving, FromServer
  <2>2. s2c' \in [Clients -> Seq(FromServer)]
    BY <1>8, <2>1, DeliverType DEF PropSend
  <2>. QED
    BY <1>1, <1>8, <2>2 DEF PropSend, TypeOK, clientVars, history
<1>. QED
  BY <1>2, <1>3, <1>4, <1>5, <1>6, <1>7, <1>8 DEF ServerStep

LEMMA TypeInit == Init => TypeOK
<1>1. Idle \in Call /\ NoResult \in [call : Call, val : Writes \cup {None, Error}]
  BY SyncAssumption DEF Idle, NoResult, Call, Writes
<1>2. 0 \in Writes /\ 0 \in 0..MaxWrites /\ 0 \in 0..MaxOps
  BY SyncAssumption DEF Writes
<1>3. <<0>> \in Seq(Writes)
  BY <1>2
<1>. QED
  BY <1>1, <1>2, <1>3 DEF Init, TypeOK

LEMMA TypeStep == TypeOK /\ [Next]_vars => TypeOK'
<1>. SUFFICES ASSUME TypeOK, [Next]_vars PROVE TypeOK'
  OBVIOUS
<1>1. CASE UNCHANGED vars
  BY <1>1 DEF vars, serverVars, clientVars, history, TypeOK
<1>2. CASE Next
  BY <1>2, TypeServerStep, TypeServerSet, TypeClientStep, TypeArrive, TypeUserCalls,
     TypeClose DEF Next
<1>. QED
  BY <1>1, <1>2

\* The variables of every reachable state have their types: a handler finds
\* the value it assigns in a CHAN_SEND, a read its own sequence number in a
\* REPLY, and no count of subscriptions becomes negative.
THEOREM TypeCorrect == Spec => []TypeOK
BY TypeInit, TypeStep, PTL DEF Spec

(***************************************************************************)
(* Agreement, of one client c and one property n, as its channel and the   *)
(* ready queue change.                                                     *)
(***************************************************************************)

\* A task that is no registration of c for n runs and leaves such tasks.
LEMMA AgreeRunOther ==
  ASSUME NEW c, NEW n, NEW reg, NEW sub,
         NEW chan, NEW q \in Seq(ServerTask), NEW xs \in Seq(ServerTask),
         q # <<>>, ~WatchTask(Head(q), c, n), NoWatchTask(xs, c, n),
         Agree(chan, q, reg, sub, c, n)
  PROVE  Agree(chan, Tail(q) \o xs, reg, sub, c, n)
<1>. DEFINE p == Tail(q) \o xs
<1>1. /\ Len(q) \in Nat /\ Len(xs) \in Nat /\ Len(q) > 0
      /\ Len(p) = Len(q) - 1 + Len(xs)
      /\ \A i \in 1..(Len(q) - 1) : p[i] = q[i + 1]
      /\ \A i \in 1..Len(xs) : p[Len(q) - 1 + i] = xs[i]
      /\ Head(q) = q[1]
  BY QueueStep, LenProperties, EmptySeq, HeadTailProperties
<1>. HIDE DEF p
<1>2. \A i \in 1..Len(p) : WatchTask(p[i], c, n) => i \in 1..(Len(q) - 1)
  <2>. SUFFICES ASSUME NEW i \in 1..Len(p), i > Len(q) - 1
                PROVE  ~WatchTask(p[i], c, n)
    BY <1>1
  <2>1. i - (Len(q) - 1) \in 1..Len(xs) /\ p[i] = xs[i - (Len(q) - 1)]
    BY <1>1
  <2>. QED
    BY <2>1 DEF NoWatchTask
<1>3. \A j \in 2..Len(q) : j - 1 \in 1..Len(p) /\ p[j - 1] = q[j]
  BY <1>1
<1>4. ASSUME ReadyAgrees(q, sub, c, n) PROVE ReadyAgrees(p, sub, c, n)
  <2>. SUFFICES ASSUME NEW i \in 1..Len(p), WatchTask(p[i], c, n),
                       \A j \in 1..Len(p) : j > i => ~WatchTask(p[j], c, n)
                PROVE  p[i].msg.command = "REGISTER" <=> sub
    BY DEF ReadyAgrees
  <2>1. i + 1 \in 1..Len(q) /\ q[i + 1] = p[i]
    BY <1>1, <1>2
  <2>2. \A j \in 1..Len(q) : j > i + 1 => ~WatchTask(q[j], c, n)
    BY <1>1, <1>3
  <2>. QED
    BY <1>4, <2>1, <2>2 DEF ReadyAgrees
<1>5. NoWatchTask(p, c, n) => NoWatchTask(q, c, n)
  BY <1>1, <1>3 DEF NoWatchTask
<1>. QED
  BY <1>4, <1>5 DEF Agree, p

\* The server or the arrival of bytes adds a task that is no registration.
LEMMA AgreeAddTask ==
  ASSUME NEW c, NEW n, NEW reg, NEW sub,
         NEW chan, NEW q \in Seq(ServerTask), NEW t \in ServerTask,
         ~WatchTask(t, c, n), Agree(chan, q, reg, sub, c, n)
  PROVE  Agree(chan, Append(q, t), reg, sub, c, n)
<1>1. /\ Len(q) \in Nat /\ Len(Append(q, t)) = Len(q) + 1
      /\ \A i \in 1..Len(q) : Append(q, t)[i] = q[i]
      /\ Append(q, t)[Len(q) + 1] = t
  BY LenProperties, AppendProperties
<1>2. ReadyAgrees(q, sub, c, n) => ReadyAgrees(Append(q, t), sub, c, n)
  BY <1>1 DEF ReadyAgrees
<1>3. NoWatchTask(Append(q, t), c, n) => NoWatchTask(q, c, n)
  BY <1>1 DEF NoWatchTask
<1>. QED
  BY <1>2, <1>3 DEF Agree

\* A registration of c for n is handled: the listener table takes its place.
LEMMA AgreeRunWatch ==
  ASSUME NEW c, NEW n, NEW reg, NEW sub, NEW chan, NEW q \in Seq(ServerTask),
         q # <<>>, WatchTask(Head(q), c, n),
         Agree(chan, q, reg, sub, c, n)
  PROVE  Agree(chan, Tail(q), Head(q).msg.command = "REGISTER", sub, c, n)
<1>1. /\ Len(q) \in Nat /\ Len(q) > 0 /\ Len(Tail(q)) = Len(q) - 1
      /\ \A i \in 1..(Len(q) - 1) : Tail(q)[i] = q[i + 1]
      /\ Head(q) = q[1]
  BY LenProperties, EmptySeq, HeadTailProperties
<1>2. \A j \in 2..Len(q) : j - 1 \in 1..Len(Tail(q)) /\ Tail(q)[j - 1] = q[j]
  BY <1>1
<1>3. ASSUME ReadyAgrees(q, sub, c, n) PROVE ReadyAgrees(Tail(q), sub, c, n)
  <2>. SUFFICES ASSUME NEW i \in 1..Len(Tail(q)), WatchTask(Tail(q)[i], c, n),
                       \A j \in 1..Len(Tail(q)) : j > i => ~WatchTask(Tail(q)[j], c, n)
                PROVE  Tail(q)[i].msg.command = "REGISTER" <=> sub
    BY DEF ReadyAgrees
  <2>1. i + 1 \in 1..Len(q) /\ q[i + 1] = Tail(q)[i]
    BY <1>1
  <2>2. \A j \in 1..Len(q) : j > i + 1 => ~WatchTask(q[j], c, n)
    BY <1>1, <1>2
  <2>. QED
    BY <1>3, <2>1, <2>2 DEF ReadyAgrees
<1>4. ASSUME ReadyAgrees(q, sub, c, n), NoWatchTask(Tail(q), c, n)
      PROVE  Head(q).msg.command = "REGISTER" <=> sub
  <2>1. \A j \in 1..Len(q) : j > 1 => ~WatchTask(q[j], c, n)
    <3>. TAKE j \in 1..Len(q)
    <3>. HAVE j > 1
    <3>1. j - 1 \in 1..Len(Tail(q)) /\ Tail(q)[j - 1] = q[j]
      BY <1>1, <1>2
    <3>. QED
      BY <1>4, <3>1 DEF NoWatchTask
  <2>. QED
    BY <1>1, <1>4, <2>1 DEF ReadyAgrees
<1>. QED
  BY <1>3, <1>4 DEF Agree

\* A request about something else goes into the channel.
LEMMA AgreeRequestOther ==
  ASSUME NEW c, NEW n, NEW reg, NEW sub, NEW q,
         NEW chan \in Seq(FromClient), NEW m \in FromClient, ~WatchMsg(m, n),
         Agree(chan, q, reg, sub, c, n)
  PROVE  Agree(Append(chan, m), q, reg, sub, c, n)
<1>1. /\ Len(chan) \in Nat /\ Len(Append(chan, m)) = Len(chan) + 1
      /\ \A i \in 1..Len(chan) : Append(chan, m)[i] = chan[i]
      /\ Append(chan, m)[Len(chan) + 1] = m
  BY LenProperties, AppendProperties
<1>2. ChannelAgrees(Append(chan, m), sub, n)
  BY <1>1 DEF ChannelAgrees, Agree
<1>3. NoWatchMsg(Append(chan, m), n) => NoWatchMsg(chan, n)
  BY <1>1 DEF NoWatchMsg
<1>. QED
  BY <1>2, <1>3 DEF Agree

\* A registration goes into the channel and says what the count now says.
LEMMA AgreeRequestWatch ==
  ASSUME NEW c, NEW n, NEW reg, NEW sub, NEW q,
         NEW chan \in Seq(FromClient), NEW m \in FromClient, WatchMsg(m, n),
         m.command = "REGISTER" <=> sub
  PROVE  Agree(Append(chan, m), q, reg, sub, c, n)
<1>1. /\ Len(chan) \in Nat /\ Len(Append(chan, m)) = Len(chan) + 1
      /\ \A i \in 1..Len(chan) : Append(chan, m)[i] = chan[i]
      /\ Append(chan, m)[Len(chan) + 1] = m
  BY LenProperties, AppendProperties
<1>2. ~NoWatchMsg(Append(chan, m), n)
  BY <1>1 DEF NoWatchMsg
<1>3. ChannelAgrees(Append(chan, m), sub, n)
  <2>. SUFFICES ASSUME NEW i \in 1..Len(Append(chan, m)),
                       \A j \in 1..Len(Append(chan, m)) : j > i => ~WatchMsg(Append(chan, m)[j], n)
                PROVE  i = Len(chan) + 1
    BY <1>1 DEF ChannelAgrees
  <2>. QED
    BY <1>1
<1>. QED
  BY <1>2, <1>3 DEF Agree

\* The listener of c moves the first k messages of the channel to the queue,
\* the last of them perhaps excepted when it is no registration.
LEMMA AgreeListen ==
  ASSUME NEW c, NEW n, NEW reg, NEW sub,
         NEW chan \in Seq(FromClient), NEW q \in Seq(ServerTask),
         q # <<>>, ~WatchTask(Head(q), c, n),
         NEW k \in 1..Len(chan), NEW h \in 0..k,
         \A i \in (h + 1)..k : ~WatchMsg(chan[i], n),
         HandleAll("handle", c, chan, h) \in Seq(ServerTask),
         Agree(chan, q, reg, sub, c, n)
  PROVE  Agree(Drop(chan, k), Tail(q) \o HandleAll("handle", c, chan, h), reg, sub, c, n)
<1>. DEFINE xs == HandleAll("handle", c, chan, h)
            p  == Tail(q) \o xs
            d  == Drop(chan, k)
<1>1. /\ Len(xs) = h
      /\ \A i \in 1..h : xs[i] = Task("handle", c, chan[i])
      /\ \A i \in 1..h : WatchTask(xs[i], c, n) <=> WatchMsg(chan[i], n)
  BY DEF HandleAll, WatchTask, Task
<1>2. /\ Len(q) \in Nat /\ Len(q) > 0 /\ Len(chan) \in Nat
      /\ Len(p) = Len(q) - 1 + h
      /\ \A i \in 1..(Len(q) - 1) : p[i] = q[i + 1]
      /\ \A i \in 1..h : p[Len(q) - 1 + i] = xs[i]
      /\ Head(q) = q[1]
  <2>. HIDE DEF xs
  <2>1. Len(q) \in Nat /\ Len(q) > 0 /\ Len(chan) \in Nat /\ Head(q) = q[1]
    BY LenProperties, EmptySeq, HeadTailProperties
  <2>2. xs \in Seq(ServerTask)
    BY DEF xs
  <2>3. /\ Len(p) = Len(q) - 1 + Len(xs)
        /\ \A i \in 1..(Len(q) - 1) : p[i] = q[i + 1]
        /\ \A i \in 1..Len(xs) : p[Len(q) - 1 + i] = xs[i]
    BY <2>2, QueueStep
  <2>4. Len(xs) = h
    BY <1>1
  <2>. HIDE DEF p
  <2>. QED
    BY <2>1, <2>3, <2>4
<1>3. /\ Len(d) = Len(chan) - k
      /\ \A i \in 1..(Len(chan) - k) : d[i] = chan[k + i]
  BY <1>2, DropProperties
<1>4. \A i \in 1..Len(chan) : i > k => i - k \in 1..Len(d) /\ d[i - k] = chan[i]
  BY <1>2, <1>3
<1>5. ChannelAgrees(d, sub, n)
  <2>. SUFFICES ASSUME NEW i \in 1..Len(d), WatchMsg(d[i], n),
                       \A j \in 1..Len(d) : j > i => ~WatchMsg(d[j], n)
                PROVE  d[i].command = "REGISTER" <=> sub
    BY DEF ChannelAgrees
  <2>1. k + i \in 1..Len(chan) /\ chan[k + i] = d[i]
    BY <1>2, <1>3
  <2>2. \A j \in 1..Len(chan) : j > k + i => ~WatchMsg(chan[j], n)
    BY <1>2, <1>3, <1>4
  <2>. QED
    BY <2>1, <2>2 DEF Agree, ChannelAgrees
<1>. HIDE DEF xs, p, d
<1>6. ASSUME NoWatchMsg(d, n) PROVE ReadyAgrees(p, sub, c, n)
  <2>. SUFFICES ASSUME NEW i \in 1..Len(p), WatchTask(p[i], c, n),
                       \A j \in 1..Len(p) : j > i => ~WatchTask(p[j], c, n)
                PROVE  p[i].msg.command = "REGISTER" <=> sub
    BY DEF ReadyAgrees
  <2>1. CASE i > Len(q) - 1
    <3>. DEFINE f == i - (Len(q) - 1)
    <3>1. f \in 1..h /\ p[i] = xs[f] /\ f \in 1..Len(chan)
      BY <1>2, <2>1
    <3>2. WatchMsg(chan[f], n) /\ p[i].msg = chan[f]
      BY <1>1, <3>1 DEF Task
    <3>3. ASSUME NEW j \in 1..Len(chan), j > f PROVE ~WatchMsg(chan[j], n)
      <4>1. CASE j <= h
        <5>1. Len(q) - 1 + j \in 1..Len(p) /\ Len(q) - 1 + j > i /\ j \in 1..h
          BY <1>2, <3>3, <4>1
        <5>. QED
          BY <1>1, <1>2, <5>1
      <4>2. CASE j > h /\ j <= k
        BY <4>2
      <4>3. CASE j > k
        BY <1>4, <1>6, <4>3 DEF NoWatchMsg
      <4>. QED
        BY <1>2, <4>1, <4>2, <4>3
    <3>. HIDE DEF f
    <3>. QED
      BY <3>1, <3>2, <3>3 DEF Agree, ChannelAgrees
  <2>2. CASE i <= Len(q) - 1
    <3>1. \A j \in 1..h : ~WatchMsg(chan[j], n)
      <4>. TAKE j \in 1..h
      <4>1. Len(q) - 1 + j \in 1..Len(p) /\ Len(q) - 1 + j > i
        BY <1>2, <2>2
      <4>. QED
        BY <1>1, <1>2, <4>1
    <3>2. NoWatchMsg(chan, n)
      <4>. SUFFICES ASSUME NEW j \in 1..Len(chan) PROVE ~WatchMsg(chan[j], n)
        BY DEF NoWatchMsg
      <4>1. CASE j > k
        BY <1>4, <1>6, <4>1 DEF NoWatchMsg
      <4>. QED
        BY <1>2, <3>1, <4>1
    <3>3. i + 1 \in 1..Len(q) /\ q[i + 1] = p[i]
      BY <1>2, <2>2
    <3>4. \A j \in 1..Len(q) : j > i + 1 => ~WatchTask(q[j], c, n)
      <4>. TAKE j \in 1..Len(q)
      <4>. HAVE j > i + 1
      <4>1. j - 1 \in 1..Len(p) /\ j - 1 > i /\ p[j - 1] = q[j]
        BY <1>2
      <4>. QED
        BY <4>1
    <3>. QED
      BY <3>2, <3>3, <3>4 DEF Agree, ReadyAgrees
  <2>. QED
    BY <1>2, <2>1, <2>2
<1>7. ASSUME NoWatchMsg(d, n), NoWatchTask(p, c, n)
      PROVE  NoWatchMsg(chan, n) /\ NoWatchTask(q, c, n)
  <2>1. \A j \in 1..h : ~WatchMsg(chan[j], n)
    <3>. TAKE j \in 1..h
    <3>1. Len(q) - 1 + j \in 1..Len(p)
      BY <1>2
    <3>. QED
      BY <1>1, <1>2, <1>7, <3>1 DEF NoWatchTask
  <2>2. \A j \in 1..Len(chan) : j > k => ~WatchMsg(chan[j], n)
    BY <1>4, <1>7 DEF NoWatchMsg
  <2>3. \A j \in 2..Len(q) : j - 1 \in 1..Len(p) /\ p[j - 1] = q[j]
    BY <1>2
  <2>. QED
    BY <1>2, <1>7, <2>1, <2>2, <2>3 DEF NoWatchMsg, NoWatchTask
<1>. QED
  BY <1>5, <1>6, <1>7 DEF Agree, p, d, xs

(***************************************************************************)
(* The steps, seen from client d and property n.                           *)
(***************************************************************************)
AgreeAt(d, n) == Agree(c2s[d], ready, d \in listeners[n], Subscribed(d, n), d, n)

LEMMA AgreeUserCalls ==
  ASSUME TypeOK, NEW d \in Clients, NEW n \in Names, AgreeAt(d, n),
         NEW c \in Clients, NEW m \in Names,
         Subscribe(c, m) \/ Unsubscribe(c, m) \/ Write(c, m)
           \/ (\E r \in Readers : Read(c, m, r))
  PROVE  AgreeAt(d, n)'
<1>1. c2s[d] \in Seq(FromClient)
  BY DEF TypeOK
<1>2. CASE Subscribe(c, m)
  <2>1. ready' = ready /\ listeners' = listeners
    BY <1>2 DEF Subscribe, serverVars
  <2>2. CASE c = d /\ m = n /\ watchers[c][m] = 0
    <3>1. c2s'[d] = Append(c2s[d], Msg("REGISTER", n, None, 0)) /\ Subscribed(d, n)'
      BY <1>2, <2>2 DEF Subscribe, Request, Subscribed, TypeOK
    <3>2. WatchMsg(Msg("REGISTER", n, None, 0), n)
      BY DEF WatchMsg, Msg, WatchCommands
    <3>3. Msg("REGISTER", n, None, 0).command = "REGISTER"
      BY DEF Msg
    <3>. QED
      BY <1>1, <3>1, <3>2, <3>3, MessageTypes, AgreeRequestWatch DEF AgreeAt, WatchCommands
  <2>3. CASE c = d /\ m # n /\ watchers[c][m] = 0
    <3>1. c2s'[d] = Append(c2s[d], Msg("REGISTER", m, None, 0))
      BY <1>2, <2>3 DEF Subscribe, Request, TypeOK
    <3>2. Subscribed(d, n)' <=> Subscribed(d, n)
      BY <1>2, <2>3 DEF Subscribe, Subscribed, TypeOK
    <3>3. ~WatchMsg(Msg("REGISTER", m, None, 0), n)
      BY <2>3 DEF WatchMsg, Msg
    <3>4. Agree(c2s'[d], ready, d \in listeners[n], Subscribed(d, n), d, n)
      BY <1>1, <3>1, <3>3, MessageTypes, AgreeRequestOther DEF AgreeAt, WatchCommands
    <3>. QED
      BY <2>1, <3>2, <3>4 DEF AgreeAt, Agree, ChannelAgrees, ReadyAgrees
  <2>4. CASE c # d \/ watchers[c][m] # 0
    <3>1. c2s'[d] = c2s[d]
      BY <1>2, <2>4 DEF Subscribe, Request, TypeOK
    <3>2. Subscribed(d, n)' <=> Subscribed(d, n)
      BY <1>2, <2>4 DEF Subscribe, Subscribed, TypeOK
    <3>. QED
      BY <2>1, <3>1, <3>2 DEF AgreeAt, Agree, ChannelAgrees, ReadyAgrees
  <2>. QED
    BY <2>2, <2>3, <2>4
<1>3. CASE Unsubscribe(c, m)
  <2>1. ready' = ready /\ listeners' = listeners
    BY <1>3 DEF Unsubscribe, serverVars
  <2>2. CASE c = d /\ m = n /\ watchers[c][m] = 1
    <3>1. c2s'[d] = Append(c2s[d], Msg("UNREGISTER", n, None, 0)) /\ ~Subscribed(d, n)'
      BY <1>3, <2>2 DEF Unsubscribe, Request, Subscribed, TypeOK
    <3>2. WatchMsg(Msg("UNREGISTER", n, None, 0), n)
      BY DEF WatchMsg, Msg, WatchCommands
    <3>3. Msg("UNREGISTER", n, None, 0).command # "REGISTER"
      BY DEF Msg
    <3>. QED
      BY <1>1, <3>1, <3>2, <3>3, MessageTypes, AgreeRequestWatch DEF AgreeAt, WatchCommands
  <2>3. CASE c = d /\ m # n /\ watchers[c][m] = 1
    <3>1. c2s'[d] = Append(c2s[d], Msg("UNREGISTER", m, None, 0))
      BY <1>3, <2>3 DEF Unsubscribe, Request, TypeOK
    <3>2. Subscribed(d, n)' <=> Subscribed(d, n)
      BY <1>3, <2>3 DEF Unsubscribe, Subscribed, TypeOK
    <3>3. ~WatchMsg(Msg("UNREGISTER", m, None, 0), n)
      BY <2>3 DEF WatchMsg, Msg
    <3>4. Agree(c2s'[d], ready, d \in listeners[n], Subscribed(d, n), d, n)
      BY <1>1, <3>1, <3>3, MessageTypes, AgreeRequestOther DEF AgreeAt, WatchCommands
    <3>. QED
      BY <2>1, <3>2, <3>4 DEF AgreeAt, Agree, ChannelAgrees, ReadyAgrees
  <2>4. CASE c # d \/ watchers[c][m] # 1
    <3>1. c2s'[d] = c2s[d]
      BY <1>3, <2>4 DEF Unsubscribe, Request, TypeOK
    <3>2. Subscribed(d, n)' <=> Subscribed(d, n)
      BY <1>3, <2>4 DEF Unsubscribe, Subscribed, TypeOK
    <3>. QED
      BY <2>1, <3>1, <3>2 DEF AgreeAt, Agree, ChannelAgrees, ReadyAgrees
  <2>. QED
    BY <2>2, <2>3, <2>4
<1>4. CASE Write(c, m) \/ (\E r \in Readers : Read(c, m, r))
  <2>1. PICK x \in FromClient : ~WatchMsg(x, n) /\ Request(c, x)
    <3>1. CASE Write(c, m)
      <4>1. writes + 1 \in Writes
        BY <3>1, SyncAssumption DEF Write, Writes, TypeOK
      <4>2. Msg("CHAN_SEND", m, writes + 1, 0) \in FromClient
        BY <4>1, MessageTypes
      <4>3. ~WatchMsg(Msg("CHAN_SEND", m, writes + 1, 0), n)
        BY DEF WatchMsg, Msg, WatchCommands
      <4>. QED
        BY <3>1, <4>2, <4>3 DEF Write
    <3>2. ASSUME NEW r \in Readers, Read(c, m, r)
          PROVE  \E x \in FromClient : ~WatchMsg(x, n) /\ Request(c, x)
      <4>1. Msg("CHAN_READ", m, None, r) \in FromClient
        BY MessageTypes
      <4>2. ~WatchMsg(Msg("CHAN_READ", m, None, r), n)
        BY DEF WatchMsg, Msg, WatchCommands
      <4>. QED
        BY <3>2, <4>1, <4>2 DEF Read
    <3>. QED
      BY <1>4, <3>1, <3>2
  <2>2. ready' = ready /\ listeners' = listeners /\ watchers' = watchers
    BY <1>4 DEF Write, Read, serverVars
  <2>3. CASE c = d
    <3>1. c2s'[d] = Append(c2s[d], x)
      BY <2>1, <2>3 DEF Request, TypeOK
    <3>. QED
      BY <1>1, <2>1, <2>2, <3>1, AgreeRequestOther DEF AgreeAt, Subscribed
  <2>4. CASE c # d
    <3>1. c2s'[d] = c2s[d]
      BY <2>1, <2>4 DEF Request, TypeOK
    <3>. QED
      BY <2>2, <3>1 DEF AgreeAt, Subscribed
  <2>. QED
    BY <2>3, <2>4
<1>. QED
  BY <1>2, <1>3, <1>4

LEMMA AgreeClose ==
  ASSUME TypeOK, NEW d \in Clients, NEW n \in Names, AgreeAt(d, n),
         NEW c \in Clients, Close(c)
  PROVE  AgreeAt(d, n)'
<1>. DEFINE x == Msg("CLOSE", None, None, 0)
<1>1. x \in FromClient /\ ~WatchMsg(x, n)
  BY MessageTypes DEF WatchMsg, WatchCommands, Msg
<1>2. ready' = ready /\ listeners' = listeners /\ watchers' = watchers /\ Request(c, x)
  BY DEF Close, serverVars
<1>. HIDE DEF x
<1>3. CASE c = d
  <2>1. c2s'[d] = Append(c2s[d], x) /\ c2s[d] \in Seq(FromClient)
    BY <1>2, <1>3 DEF Request, TypeOK
  <2>. QED
    BY <1>1, <1>2, <2>1, AgreeRequestOther DEF AgreeAt, Subscribed
<1>4. CASE c # d
  <2>1. c2s'[d] = c2s[d]
    BY <1>2, <1>4 DEF Request, TypeOK
  <2>. QED
    BY <1>2, <2>1 DEF AgreeAt, Subscribed
<1>. QED
  BY <1>3, <1>4

\* The client's event loop and the arrival of bytes send no registration.
LEMMA AgreeLoops ==
  ASSUME TypeOK, NEW d \in Clients, NEW n \in Names, AgreeAt(d, n),
         NEW c \in Clients, ClientStep(c) \/ Arrive(c)
  PROVE  AgreeAt(d, n)'
<1>1. CASE ClientStep(c) \/ ClientArrive(c)
  BY <1>1 DEF ClientStep, ClientListen, DispatchEvent, DispatchReply, WakeRead,
     ClientArrive, AgreeAt, Subscribed, serverVars
<1>2. CASE ServerArrive(c)
  <2>1. Task("listen", c, NoMsg) \in ServerTask /\ ~WatchTask(Task("listen", c, NoMsg), d, n)
    BY TaskTypes DEF WatchTask, Task
  <2>2. /\ ready' = Append(ready, Task("listen", c, NoMsg))
        /\ c2s' = c2s /\ listeners' = listeners /\ watchers' = watchers
    BY <1>2 DEF ServerArrive, clientVars
  <2>. QED
    BY <2>1, <2>2, AgreeAddTask DEF AgreeAt, Subscribed, TypeOK
<1>. QED
  BY <1>1, <1>2 DEF Arrive

LEMMA AgreeServerSet ==
  ASSUME TypeOK, NEW d \in Clients, NEW n \in Names, AgreeAt(d, n),
         NEW m \in Served, ServerSet(m)
  PROVE  AgreeAt(d, n)'
<1>. DEFINE t == Task("broadcast", None, Msg("EVENT", m, writes + 1, 0))
<1>1. writes + 1 \in Writes
  BY SyncAssumption DEF ServerSet, Writes, TypeOK
<1>2. t \in ServerTask /\ ~WatchTask(t, d, n)
  BY <1>1, MessageTypes, TaskTypes DEF WatchTask, Task
<1>3. c2s' = c2s /\ listeners' = listeners /\ watchers' = watchers
  BY DEF ServerSet, clientVars
<1>4. ready' = ready \/ ready' = Append(ready, t)
  BY DEF ServerSet, Assign
<1>. HIDE DEF t
<1>5. CASE ready' = ready
  BY <1>3, <1>5 DEF AgreeAt, Subscribed
<1>6. CASE ready' = Append(ready, t)
  BY <1>2, <1>3, <1>6, AgreeAddTask DEF AgreeAt, Subscribed, TypeOK
<1>. QED
  BY <1>4, <1>5, <1>6

\* A task of the server's event loop other than the listener's.
LEMMA AgreeServerRun ==
  ASSUME TypeOK, NEW d \in Clients, NEW n \in Names, AgreeAt(d, n),
         OnPropertySet \/ OnPropertyGet \/ OnPropertyWatch \/ OnPropertyUnwatch
           \/ Broadcast \/ PropSend
  PROVE  AgreeAt(d, n)'
<1>. DEFINE head == Head(ready)
            rest == Tail(ready)
<1>1. /\ ready # <<>> /\ ready \in Seq(ServerTask)
      /\ head \in ServerTask /\ rest \in Seq(ServerTask)
  BY ServerHead DEF ServerStep, TypeOK
<1>2. c2s' = c2s /\ watchers' = watchers
  BY DEF OnPropertySet, OnPropertyGet, OnPropertyWatch, OnPropertyUnwatch, Broadcast,
         PropSend, clientVars
<1>3. rest = rest \o <<>> /\ <<>> \in Seq(ServerTask) /\ NoWatchTask(<<>>, d, n)
  BY <1>1, ConcatEmptySeq DEF NoWatchTask
\* Tasks that are not registrations, by what they leave in the queue.
<1>4. CASE OnPropertySet \/ OnPropertyGet \/ Broadcast \/ PropSend
  <2>1. listeners' = listeners
    BY <1>4 DEF OnPropertySet, OnPropertyGet, Broadcast, PropSend
  <2>2. ~WatchTask(head, d, n)
    BY <1>4 DEF OnPropertySet, OnPropertyGet, Broadcast, PropSend, Handling, Serving,
       WatchTask, WatchMsg, WatchCommands
  <2>3. PICK xs \in Seq(ServerTask) : NoWatchTask(xs, d, n) /\ ready' = rest \o xs
    <3>1. CASE ready' = rest
      BY <1>3, <3>1
    <3>2. CASE OnPropertySet /\ ready' # rest
      <4>. DEFINE m == head.msg
                  t == Task("broadcast", None, Msg("EVENT", m.name, m.data, 0))
      <4>1. m.name \in Served /\ ready' = Append(rest, t)
        BY <3>2 DEF OnPropertySet, Assign
      <4>2. m.data \in Writes
        BY <1>1, <3>2, HandledMessage, MessageShapes DEF OnPropertySet
      <4>3. t \in ServerTask /\ ~WatchTask(t, d, n)
        BY <4>1, <4>2, MessageTypes, TaskTypes DEF WatchTask, Task
      <4>. HIDE DEF t
      <4>4. <<t>> \in Seq(ServerTask) /\ NoWatchTask(<<t>>, d, n)
        BY <4>3 DEF NoWatchTask
      <4>5. Append(rest, t) = rest \o <<t>>
        BY <1>1, <4>3, AppendIsConcat
      <4>. QED
        BY <4>1, <4>4, <4>5
    <3>3. CASE Broadcast
      <4>. DEFINE m == head.msg
      <4>1. m \in EventMessage /\ m.name \in Names
        BY <1>1, <3>3, TaskShapes, MessageShapes, SyncAssumption DEF Broadcast, Serving
      <4>2. PICK order \in SetToSeqs(listeners[m.name]) :
              ready' = rest \o [i \in DOMAIN order |-> Task("send", order[i], m)]
        BY <3>3 DEF Broadcast
      <4>3. order \in Seq(Clients)
        BY <4>1, OrderIsSeq, SyncAssumption DEF TypeOK
      <4>4. [i \in DOMAIN order |-> Task("send", order[i], m)] \in Seq(ServerTask)
        BY <4>1, <4>3, TaskTypes
      <4>5. NoWatchTask([i \in DOMAIN order |-> Task("send", order[i], m)], d, n)
        BY <4>3 DEF NoWatchTask, WatchTask, Task
      <4>. QED
        BY <4>2, <4>4, <4>5
    <3>. QED
      BY <1>4, <3>1, <3>2, <3>3 DEF OnPropertyGet, PropSend
  <2>. QED
    BY <1>1, <1>2, <2>1, <2>2, <2>3, AgreeRunOther DEF AgreeAt, Subscribed
\* A registration: of d for n, or of another client or for another property.
<1>5. CASE OnPropertyWatch \/ OnPropertyUnwatch
  <2>1. ready' = rest
    BY <1>5 DEF OnPropertyWatch, OnPropertyUnwatch
  <2>2. listeners \in [Names -> SUBSET Clients] /\ head.conn \in Clients /\ head.msg.name \in Names
    BY <1>1, <1>5, HandledMessage, MessageShapes
       DEF OnPropertyWatch, OnPropertyUnwatch, WatchCommands, TypeOK
  <2>3. CASE WatchTask(head, d, n)
    <3>1. d \in listeners'[n] <=> head.msg.command = "REGISTER"
      BY <1>5, <2>2, <2>3 DEF OnPropertyWatch, OnPropertyUnwatch, WatchTask, WatchMsg,
         Handling
    <3>2. Agree(c2s[d], rest, head.msg.command = "REGISTER", Subscribed(d, n), d, n)
      BY <1>1, <2>3, AgreeRunWatch DEF AgreeAt
    <3>. QED
      BY <1>2, <2>1, <3>1, <3>2 DEF AgreeAt, Subscribed, Agree
  <2>4. CASE ~WatchTask(head, d, n)
    <3>1. d \in listeners'[n] <=> d \in listeners[n]
      BY <1>5, <2>2, <2>4 DEF OnPropertyWatch, OnPropertyUnwatch, WatchTask, WatchMsg,
         Handling, Serving, WatchCommands
    <3>2. Agree(c2s[d], rest, d \in listeners[n], Subscribed(d, n), d, n)
      BY <1>1, <1>3, <2>4, AgreeRunOther DEF AgreeAt
    <3>. QED
      BY <1>2, <2>1, <3>1, <3>2 DEF AgreeAt, Subscribed, Agree
  <2>. QED
    BY <2>3, <2>4
<1>. QED
  BY <1>4, <1>5

\* The server's listener of connection c runs.
LEMMA AgreeServerListen ==
  ASSUME TypeOK, NEW d \in Clients, NEW n \in Names, AgreeAt(d, n), ServerListen
  PROVE  AgreeAt(d, n)'
<1>. DEFINE c == Head(ready).conn
<1>1. /\ ready # <<>> /\ ready \in Seq(ServerTask)
      /\ Head(ready) \in ServerTask /\ Tail(ready) \in Seq(ServerTask)
  BY ServerHead DEF ServerStep, TypeOK
<1>2. c \in Clients /\ ~WatchTask(Head(ready), d, n)
  BY <1>1, TaskShapes DEF ServerListen, Serving, WatchTask
<1>3. listeners' = listeners /\ watchers' = watchers
  BY DEF ServerListen, clientVars
<1>4. PICK k \in 1..Len(c2s[c]) :
        LET close == c2s[c][k].command = "CLOSE" IN
        /\ ready' = Tail(ready) \o HandleAll("handle", c, c2s[c], IF close THEN k - 1 ELSE k)
        /\ gone' = IF close THEN gone \cup {c} ELSE gone
        /\ c2s' = [c2s EXCEPT ![c] = Drop(@, k)]
  BY DEF ServerListen
<1>. DEFINE h  == IF c2s[c][k].command = "CLOSE" THEN k - 1 ELSE k
            xs == HandleAll("handle", c, c2s[c], h)
<1>5. c2s[c] \in Seq(FromClient) /\ Len(c2s[c]) \in Nat
  BY <1>2, LenProperties DEF TypeOK
<1>6. /\ h \in 0..k /\ h \in 0..Len(c2s[c])
      /\ \A i \in (h + 1)..k : ~WatchMsg(c2s[c][i], n)
  BY <1>5 DEF WatchMsg, WatchCommands
<1>7. ready' = Tail(ready) \o xs /\ c2s' = [c2s EXCEPT ![c] = Drop(c2s[c], k)]
  BY <1>4
<1>. HIDE DEF h, c
<1>8. /\ xs \in Seq(ServerTask) /\ Len(xs) = h
      /\ \A i \in 1..h : xs[i] = Task("handle", c, c2s[c][i])
  <2>1. \A x \in FromClient : Task("handle", c, x) \in ServerTask
    BY <1>2, TaskTypes
  <2>2. xs \in Seq(ServerTask)
    BY <1>5, <1>6, <2>1, HandleAllType
  <2>3. Len(xs) = h /\ \A i \in 1..h : xs[i] = Task("handle", c, c2s[c][i])
    BY <1>6 DEF HandleAll
  <2>. QED
    BY <2>2, <2>3
<1>9. CASE c = d
  <2>1. c2s'[d] = Drop(c2s[d], k)
    BY <1>7, <1>9 DEF TypeOK
  <2>2. Agree(Drop(c2s[c], k), Tail(ready) \o xs, c \in listeners[n], Subscribed(c, n), c, n)
    BY <1>1, <1>2, <1>5, <1>6, <1>8, <1>9, AgreeListen DEF AgreeAt
  <2>. QED
    BY <1>3, <1>7, <1>9, <2>1, <2>2 DEF AgreeAt, Subscribed
<1>10. CASE c # d
  <2>1. c2s'[d] = c2s[d]
    BY <1>7, <1>10 DEF TypeOK
  <2>. HIDE DEF xs
  <2>2. NoWatchTask(xs, d, n)
    <3>. SUFFICES ASSUME NEW i \in 1..Len(xs) PROVE ~WatchTask(xs[i], d, n)
      BY DEF NoWatchTask
    <3>1. xs[i] = Task("handle", c, c2s[c][i])
      BY <1>8
    <3>. QED
      BY <1>10, <3>1 DEF WatchTask, Task
  <2>3. Agree(c2s[d], Tail(ready) \o xs, d \in listeners[n], Subscribed(d, n), d, n)
    BY <1>1, <1>2, <1>8, <2>2, AgreeRunOther DEF AgreeAt
  <2>. QED
    BY <1>3, <1>7, <2>1, <2>3 DEF AgreeAt, Subscribed
<1>. QED
  BY <1>9, <1>10

LEMMA AgreementInit == Init => WatchAgreement
BY DEF Init, WatchAgreement, Agree, ChannelAgrees, ReadyAgrees, NoWatchMsg, NoWatchTask,
   Subscribed

LEMMA AgreementStep == TypeOK /\ WatchAgreement /\ [Next]_vars => WatchAgreement'
<1>. SUFFICES ASSUME TypeOK, WatchAgreement, [Next]_vars, NEW d \in Clients, NEW n \in Names
              PROVE  AgreeAt(d, n)'
  BY DEF WatchAgreement, AgreeAt
<1>1. AgreeAt(d, n)
  BY DEF WatchAgreement, AgreeAt
<1>2. CASE UNCHANGED vars
  BY <1>1, <1>2 DEF AgreeAt, Subscribed, vars, serverVars, clientVars
<1>3. CASE ServerStep
  BY <1>1, <1>3, AgreeServerRun, AgreeServerListen DEF ServerStep
<1>4. CASE \E m \in Served : ServerSet(m)
  BY <1>1, <1>4, AgreeServerSet
<1>5. ASSUME NEW c \in Clients,
             \/ ClientStep(c) \/ Arrive(c) \/ Close(c)
             \/ \E m \in Names : Subscribe(c, m) \/ Unsubscribe(c, m) \/ Write(c, m)
             \/ \E m \in Names, r \in Readers : Read(c, m, r)
      PROVE  AgreeAt(d, n)'
  BY <1>1, <1>5, AgreeLoops, AgreeClose, AgreeUserCalls
<1>. QED
  BY <1>2, <1>3, <1>4, <1>5 DEF Next

\* For any number of clients and properties, and however long they run, a
\* client's subscription count and the server's listener table agree once what
\* is in flight between them is taken into account.
THEOREM Agreement == Spec => []WatchAgreement
<1>1. Spec => []TypeOK
  BY TypeCorrect
<1>. QED
  BY <1>1, AgreementInit, AgreementStep, PTL DEF Spec

(***************************************************************************)
(* The last event.  A registered client is left behind by no step, because *)
(* the handlers of one client stand together in the server's ready queue   *)
(* (one pass of its listener puts them there, and the next pass comes      *)
(* after the last of them has run): no send to the client that an          *)
(* earlier registration caused is still behind a REGISTER that will be     *)
(* handled while it is not registered, unless it carries the value.        *)
(*                                                                         *)
(* For a client and a property: B holds the broadcasts of the property, S  *)
(* the sends of it to the client, H the client's handlers, L its listener, *)
(* and G the tasks that carry the value; reg says that it is registered.   *)
(***************************************************************************)
Heads(q, S) == q # <<>> /\ Head(q) \in S

QueueTells(q, reg, B, S, H, L, G) ==
  /\ Together(q, H)
  /\ NoneBehind(q, L, H) /\ NoneBehind(q, L, L)
  /\ ~reg /\ ~Heads(q, H) => NoneBehind(q, H, S)
  /\ LastIn(q, B, G)
  /\ Free(q, B) /\ (reg \/ Heads(q, H)) => LastIn(q, S, G)

\* A queue and what is put behind it, ...
LEMMA NoneBehindConcat ==
  ASSUME NEW T, NEW S, NEW Z, NEW p \in Seq(T), NEW q \in Seq(T)
  PROVE  /\ NoneBehind(p, S, Z) /\ Free(q, Z) => NoneBehind(p \o q, S, Z)
         /\ Free(p, S) /\ NoneBehind(q, S, Z) => NoneBehind(p \o q, S, Z)
<1>1. PICK r : r = p \o q
  OBVIOUS
<1>2. /\ Len(p) \in Nat /\ DOMAIN p = 1..Len(p)
      /\ Len(q) \in Nat /\ DOMAIN q = 1..Len(q)
      /\ DOMAIN r = 1..(Len(p) + Len(q))
      /\ \A i \in 1..Len(p) : i \in DOMAIN r /\ r[i] = p[i]
      /\ \A i \in DOMAIN r :
              \/ i \in 1..Len(p)
              \/ i - Len(p) \in 1..Len(q) /\ i > Len(p) /\ r[i] = q[i - Len(p)]
  BY <1>1, ConcatIndices
<1>3. ASSUME NoneBehind(p, S, Z), Free(q, Z), NEW i \in DOMAIN r, NEW j \in DOMAIN r, i < j
      PROVE  ~(r[i] \in S /\ r[j] \in Z)
  <2>1. CASE j \in 1..Len(p)
    <3>1. i \in 1..Len(p)
      BY <1>2, <1>3, <2>1
    <3>. QED
      BY <1>2, <1>3, <2>1, <3>1 DEF NoneBehind
  <2>2. CASE j \notin 1..Len(p)
    BY <1>2, <1>3, <2>2 DEF Free
  <2>. QED
    BY <2>1, <2>2
<1>4. ASSUME Free(p, S), NoneBehind(q, S, Z), NEW i \in DOMAIN r, NEW j \in DOMAIN r, i < j
      PROVE  ~(r[i] \in S /\ r[j] \in Z)
  <2>1. CASE i \in 1..Len(p)
    BY <1>2, <1>4, <2>1 DEF Free
  <2>2. CASE i \notin 1..Len(p)
    <3>1. /\ i - Len(p) \in 1..Len(q) /\ r[i] = q[i - Len(p)]
          /\ j - Len(p) \in 1..Len(q) /\ r[j] = q[j - Len(p)]
      BY <1>2, <1>4, <2>2
    <3>2. i - Len(p) < j - Len(p)
      BY <1>2, <1>4
    <3>. QED
      BY <1>2, <1>4, <3>1, <3>2 DEF NoneBehind
  <2>. QED
    BY <2>1, <2>2
<1>. QED
  BY <1>1, <1>3, <1>4 DEF NoneBehind

LEMMA TogetherConcat ==
  ASSUME NEW T, NEW S, NEW p \in Seq(T), NEW q \in Seq(T)
  PROVE  /\ Together(p, S) /\ Free(q, S) => Together(p \o q, S)
         /\ Free(p, S) /\ Together(q, S) => Together(p \o q, S)
<1>1. PICK r : r = p \o q
  OBVIOUS
<1>2. /\ Len(p) \in Nat /\ DOMAIN p = 1..Len(p)
      /\ Len(q) \in Nat /\ DOMAIN q = 1..Len(q)
      /\ DOMAIN r = 1..(Len(p) + Len(q))
      /\ \A i \in 1..Len(p) : i \in DOMAIN r /\ r[i] = p[i]
      /\ \A i \in DOMAIN r :
              \/ i \in 1..Len(p)
              \/ i - Len(p) \in 1..Len(q) /\ i > Len(p) /\ r[i] = q[i - Len(p)]
  BY <1>1, ConcatIndices
<1>3. ASSUME Together(p, S), Free(q, S), NEW i \in DOMAIN r, NEW j \in DOMAIN r,
             NEW k \in DOMAIN r, i < k, k < j, r[i] \in S, r[j] \in S
      PROVE  r[k] \in S
  <2>1. j \in 1..Len(p)
    BY <1>2, <1>3 DEF Free
  <2>2. i \in 1..Len(p) /\ k \in 1..Len(p)
    BY <1>2, <1>3, <2>1
  <2>. QED
    BY <1>2, <1>3, <2>1, <2>2 DEF Together
<1>4. ASSUME Free(p, S), Together(q, S), NEW i \in DOMAIN r, NEW j \in DOMAIN r,
             NEW k \in DOMAIN r, i < k, k < j, r[i] \in S, r[j] \in S
      PROVE  r[k] \in S
  <2>1. i \notin 1..Len(p)
    BY <1>2, <1>4 DEF Free
  <2>2. /\ i - Len(p) \in 1..Len(q) /\ r[i] = q[i - Len(p)]
        /\ j - Len(p) \in 1..Len(q) /\ r[j] = q[j - Len(p)]
        /\ k - Len(p) \in 1..Len(q) /\ r[k] = q[k - Len(p)]
    BY <1>2, <1>4, <2>1
  <2>3. i - Len(p) < k - Len(p) /\ k - Len(p) < j - Len(p)
    BY <1>2, <1>4
  <2>. QED
    BY <1>2, <1>4, <2>2, <2>3 DEF Together
<1>. QED
  BY <1>1, <1>3, <1>4 DEF Together

\* ... and a queue without its head.
LEMMA HeadOrder ==
  ASSUME NEW T, NEW S, NEW Z, NEW q \in Seq(T), q # <<>>
  PROVE  /\ NoneBehind(q, S, Z) => NoneBehind(Tail(q), S, Z)
         /\ NoneBehind(q, S, Z) /\ Head(q) \in S => Free(Tail(q), Z)
         /\ Together(q, S) => Together(Tail(q), S)
         /\ Together(q, S) /\ Head(q) \in S /\ ~Heads(Tail(q), S) => Free(Tail(q), S)
<1>1. PICK t, h, n : t = Tail(q) /\ h = Head(q) /\ n = Len(q) - 1
  OBVIOUS
<1>2. /\ Len(q) \in Nat /\ Len(q) > 0 /\ DOMAIN q = 1..Len(q)
      /\ Len(Tail(q)) = Len(q) - 1 /\ Tail(q) \in Seq(T) /\ Head(q) = q[1]
      /\ \A i \in 1..(Len(q) - 1) : Tail(q)[i] = q[i + 1]
  BY HeadTailProperties, LenProperties, EmptySeq
<1>3. /\ n \in Nat /\ DOMAIN q = 1..(n + 1) /\ DOMAIN t = 1..n /\ h = q[1]
      /\ \A i \in 1..n : t[i] = q[i + 1] /\ i + 1 \in 1..(n + 1) /\ 1 < i + 1
  BY <1>1, <1>2, LenProperties
<1>4. t # <<>> => Head(t) = t[1] /\ n > 0
  BY <1>1, <1>2, EmptySeq, HeadTailProperties
<1>5. t = <<>> => n = 0
  BY <1>1, <1>2, EmptySeq
<1>6. ASSUME NoneBehind(q, S, Z), NEW i \in 1..n, NEW j \in 1..n, i < j
      PROVE  ~(t[i] \in S /\ t[j] \in Z)
  <2>1. i + 1 < j + 1
    BY <1>6
  <2>. QED
    BY <1>3, <1>6, <2>1 DEF NoneBehind
<1>7. ASSUME NoneBehind(q, S, Z), h \in S, NEW i \in 1..n
      PROVE  t[i] \notin Z
  <2>1. 1 \in DOMAIN q
    BY <1>3
  <2>. QED
    BY <1>3, <1>7, <2>1 DEF NoneBehind
<1>8. ASSUME Together(q, S), NEW i \in 1..n, NEW j \in 1..n, NEW k \in 1..n,
             i < k, k < j, t[i] \in S, t[j] \in S
      PROVE  t[k] \in S
  <2>1. i + 1 < k + 1 /\ k + 1 < j + 1
    BY <1>8
  <2>2. /\ i + 1 \in DOMAIN q /\ j + 1 \in DOMAIN q /\ k + 1 \in DOMAIN q
        /\ t[i] = q[i + 1] /\ t[j] = q[j + 1] /\ t[k] = q[k + 1]
    BY <1>3
  <2>3. q[i + 1] \in S /\ q[j + 1] \in S
    BY <1>8, <2>2
  <2>4. q[k + 1] \in S
    BY <1>8, <2>1, <2>2, <2>3 DEF Together
  <2>. QED
    BY <2>2, <2>4
<1>9. ASSUME Together(q, S), h \in S, ~Heads(t, S), NEW i \in 1..n, t[i] \in S
      PROVE  FALSE
  <2>1. n > 0 /\ t # <<>> /\ 1 \in 1..n
    BY <1>3, <1>5, <1>9
  <2>2. t[1] \notin S
    BY <1>4, <1>9, <2>1 DEF Heads
  <2>3. i # 1 /\ i + 1 > 2 /\ 2 \in DOMAIN q /\ 1 \in DOMAIN q /\ q[2] = t[1]
    BY <1>3, <1>9, <2>1, <2>2
  <2>4. q[2] \in S
    BY <1>3, <1>9, <2>3 DEF Together
  <2>. QED
    BY <2>2, <2>3, <2>4
<1>10. NoneBehind(q, S, Z) => NoneBehind(t, S, Z)
  BY <1>3, <1>6 DEF NoneBehind
<1>11. NoneBehind(q, S, Z) /\ h \in S => Free(t, Z)
  BY <1>3, <1>7 DEF Free
<1>12. Together(q, S) => Together(t, S)
  BY <1>3, <1>8 DEF Together
<1>13. Together(q, S) /\ h \in S /\ ~Heads(t, S) => Free(t, S)
  BY <1>3, <1>9 DEF Free
<1>. QED
  BY <1>1, <1>10, <1>11, <1>12, <1>13

\* The head of a concatenation.
LEMMA HeadsConcat ==
  ASSUME NEW T, NEW S, NEW p \in Seq(T), NEW q \in Seq(T)
  PROVE  /\ Free(q, S) => (Heads(p \o q, S) <=> Heads(p, S))
         /\ p # <<>> => (Heads(p \o q, S) <=> Heads(p, S))
<1>1. CASE p = <<>>
  <2>1. p \o q = q /\ ~Heads(p, S)
    BY <1>1, ConcatEmptySeq DEF Heads
  <2>2. Free(q, S) => ~Heads(q, S)
    <3>1. q # <<>> => 1 \in DOMAIN q /\ Head(q) = q[1]
      BY LenProperties, EmptySeq, HeadTailProperties
    <3>. QED
      BY <3>1 DEF Free, Heads
  <2>. QED
    BY <1>1, <2>1, <2>2
<1>2. CASE p # <<>>
  <2>1. PICK r : r = p \o q
    OBVIOUS
  <2>2. /\ Len(p) \in Nat /\ Len(p) > 0 /\ 1 \in 1..Len(p) /\ Len(q) \in Nat
    BY <1>2, LenProperties, EmptySeq
  <2>3. r \in Seq(T) /\ Len(r) = Len(p) + Len(q) /\ r[1] = p[1]
    BY <2>1, <2>2, ConcatProperties
  <2>4. r # <<>> /\ Head(r) = r[1] /\ Head(p) = p[1]
    BY <1>2, <2>2, <2>3, EmptySeq, HeadTailProperties
  <2>. QED
    BY <1>2, <2>1, <2>3, <2>4 DEF Heads
<1>. QED
  BY <1>1, <1>2

\* The head runs and puts xs behind: no handlers and no listener of the client;
\* sends only when it is registered, and then with the value unless a
\* broadcast is still to come.
LEMMA TellsRun ==
  ASSUME NEW T, NEW B, NEW S, NEW H, NEW L, NEW G, NEW G2, NEW reg, NEW reg2,
         NEW q \in Seq(T), q # <<>>, NEW xs \in Seq(T),
         H \cap S = {}, H \cap B = {},
         QueueTells(q, reg, B, S, H, L, G),
         Head(q) \notin H => (reg2 <=> reg),
         Free(xs, H), Free(xs, L), LastIn(xs, B, G2),
         G2 = G \/ ~Free(xs, B),
         Free(xs, S) \/ (reg2 /\ (Free(Tail(q), B) /\ Free(xs, B) => LastIn(xs, S, G))),
         Head(q) \in B /\ reg => ~Free(xs, S)
  PROVE  QueueTells(Tail(q) \o xs, reg2, B, S, H, L, G2)
<1>1. PICK t, h, r : t = Tail(q) /\ h = Head(q) /\ r = Tail(q) \o xs
  OBVIOUS
<1>2. t \in Seq(T) /\ h \in T
  BY <1>1, HeadTailProperties
<1>3. r = t \o xs
  BY <1>1
<1>4. /\ NoneBehind(q, L, H) => NoneBehind(t, L, H)
      /\ NoneBehind(q, L, L) => NoneBehind(t, L, L)
      /\ NoneBehind(q, H, S) => NoneBehind(t, H, S)
      /\ Together(q, H) => Together(t, H)
      /\ Together(q, H) /\ h \in H /\ ~Heads(t, H) => Free(t, H)
  BY <1>1, HeadOrder
<1>5. /\ Together(q, H) /\ NoneBehind(q, L, H) /\ NoneBehind(q, L, L)
      /\ ~reg /\ ~Heads(q, H) => NoneBehind(q, H, S)
      /\ LastIn(q, B, G)
      /\ Free(q, B) /\ (reg \/ Heads(q, H)) => LastIn(q, S, G)
      /\ Heads(q, H) <=> h \in H
  BY <1>1 DEF QueueTells, Heads
<1>6. /\ Free(q, B) <=> h \notin B /\ Free(t, B)
      /\ LastIn(q, B, G) => LastIn(t, B, G)
      /\ LastIn(q, S, G) => LastIn(t, S, G)
  BY <1>1, LastHead
<1>7. /\ Free(r, B) <=> Free(t, B) /\ Free(xs, B)
      /\ LastIn(r, B, G2) <=> LastIn(xs, B, G2) /\ (Free(xs, B) => LastIn(t, B, G2))
      /\ LastIn(r, S, G2) <=> LastIn(xs, S, G2) /\ (Free(xs, S) => LastIn(t, S, G2))
  BY <1>2, <1>3, FreeConcat, LastConcat
<1>8. /\ NoneBehind(t, L, H) /\ Free(xs, H) => NoneBehind(r, L, H)
      /\ NoneBehind(t, L, L) /\ Free(xs, L) => NoneBehind(r, L, L)
      /\ NoneBehind(t, H, S) /\ Free(xs, S) => NoneBehind(r, H, S)
      /\ Together(t, H) /\ Free(xs, H) => Together(r, H)
      /\ Free(xs, H) => (Heads(r, H) <=> Heads(t, H))
  BY <1>2, <1>3, NoneBehindConcat, TogetherConcat, HeadsConcat
<1>9. Together(r, H) /\ NoneBehind(r, L, H) /\ NoneBehind(r, L, L) /\ LastIn(r, B, G2)
  BY <1>4, <1>5, <1>6, <1>7, <1>8
<1>10. ASSUME ~reg2, ~Heads(r, H) PROVE NoneBehind(r, H, S)
  <2>1. Free(xs, S) /\ ~Heads(t, H)
    BY <1>8, <1>10
  <2>2. CASE h \in H
    <3>1. Free(t, H)
      BY <1>4, <1>5, <2>1, <2>2
    <3>2. NoneBehind(t, H, S)
      BY <3>1 DEF NoneBehind, Free
    <3>. QED
      BY <1>8, <2>1, <3>2
  <2>3. CASE h \notin H
    BY <1>1, <1>4, <1>5, <1>8, <1>10, <2>1, <2>3
  <2>. QED
    BY <2>2, <2>3
<1>11. ASSUME Free(r, B), reg2 \/ Heads(r, H) PROVE LastIn(r, S, G2)
  <2>1. Free(t, B) /\ Free(xs, B) /\ G2 = G
    BY <1>7, <1>11
  <2>2. CASE ~Free(xs, S)
    BY <1>1, <1>7, <2>1, <2>2
  <2>3. CASE Free(xs, S) /\ h \in H
    <3>1. h \notin B
      BY <2>3
    <3>2. LastIn(t, S, G)
      BY <1>5, <1>6, <2>1, <2>3, <3>1
    <3>3. LastIn(xs, S, G)
      BY <2>3 DEF LastIn, Free
    <3>. QED
      BY <1>7, <2>1, <3>2, <3>3
  <2>4. CASE Free(xs, S) /\ h \notin H /\ reg
    <3>1. h \notin B
      BY <1>1, <2>4
    <3>2. LastIn(t, S, G)
      BY <1>5, <1>6, <2>1, <2>4, <3>1
    <3>3. LastIn(xs, S, G)
      BY <2>4 DEF LastIn, Free
    <3>. QED
      BY <1>7, <2>1, <3>2, <3>3
  <2>5. CASE Free(xs, S) /\ h \notin H /\ ~reg
    <3>1. NoneBehind(t, H, S) /\ Heads(t, H)
      BY <1>1, <1>4, <1>5, <1>8, <1>11, <2>5
    <3>2. t # <<>> /\ Head(t) \in H
      BY <3>1 DEF Heads
    <3>3. Free(Tail(t), S) /\ Head(t) \notin S
      BY <1>2, <3>1, <3>2, HeadOrder
    <3>4. Free(t, S)
      BY <1>2, <3>2, <3>3, LastHead
    <3>5. LastIn(t, S, G) /\ LastIn(xs, S, G)
      BY <2>5, <3>4 DEF LastIn, Free
    <3>. QED
      BY <1>7, <2>1, <3>5
  <2>. QED
    BY <2>2, <2>3, <2>4, <2>5
<1>. QED
  BY <1>1, <1>9, <1>10, <1>11 DEF QueueTells

\* The client's listener runs and puts handlers behind.
LEMMA TellsListen ==
  ASSUME NEW T, NEW B, NEW S, NEW H, NEW L, NEW G, NEW reg,
         NEW q \in Seq(T), q # <<>>, NEW xs \in Seq(T),
         H \cap S = {}, H \cap B = {}, H \cap L = {}, Head(q) \in L, L \cap (B \cup S) = {},
         QueueTells(q, reg, B, S, H, L, G),
         \A i \in DOMAIN xs : xs[i] \in H
  PROVE  QueueTells(Tail(q) \o xs, reg, B, S, H, L, G)
<1>1. PICK t, h, r : t = Tail(q) /\ h = Head(q) /\ r = Tail(q) \o xs
  OBVIOUS
<1>2. t \in Seq(T) /\ h \in T
  BY <1>1, HeadTailProperties
<1>3. r = t \o xs
  BY <1>1
<1>4. h \in L /\ h \notin H /\ h \notin B
  BY <1>1
<1>5. /\ NoneBehind(q, L, H) /\ h \in L => Free(t, H)
      /\ NoneBehind(q, L, L) /\ h \in L => Free(t, L)
  BY <1>1, HeadOrder
<1>6. /\ Together(q, H) /\ NoneBehind(q, L, H) /\ NoneBehind(q, L, L)
      /\ LastIn(q, B, G)
      /\ Free(q, B) /\ reg => LastIn(q, S, G)
  BY <1>1 DEF QueueTells
<1>7. /\ Free(q, B) <=> h \notin B /\ Free(t, B)
      /\ LastIn(q, B, G) => LastIn(t, B, G)
      /\ LastIn(q, S, G) => LastIn(t, S, G)
  BY <1>1, LastHead
<1>8. /\ Free(r, B) <=> Free(t, B) /\ Free(xs, B)
      /\ Free(r, S) <=> Free(t, S) /\ Free(xs, S)
      /\ Free(r, L) <=> Free(t, L) /\ Free(xs, L)
      /\ LastIn(r, B, G) <=> LastIn(xs, B, G) /\ (Free(xs, B) => LastIn(t, B, G))
      /\ LastIn(r, S, G) <=> LastIn(xs, S, G) /\ (Free(xs, S) => LastIn(t, S, G))
  BY <1>2, <1>3, FreeConcat, LastConcat
<1>9. Free(xs, B) /\ Free(xs, S) /\ Free(xs, L) /\ Together(xs, H)
  BY DEF Free, Together
<1>10. LastIn(xs, B, G) /\ LastIn(xs, S, G)
  BY <1>9 DEF Free, LastIn
<1>11. Free(t, H) /\ Free(t, L)
  BY <1>4, <1>5, <1>6
<1>12. Together(r, H)
  BY <1>2, <1>3, <1>9, <1>11, TogetherConcat
<1>13. NoneBehind(r, L, H) /\ NoneBehind(r, L, L)
  BY <1>8, <1>9, <1>11 DEF NoneBehind, Free
<1>14. NoneBehind(xs, H, S)
  BY <1>9 DEF NoneBehind, Free
<1>15. NoneBehind(r, H, S)
  BY <1>2, <1>3, <1>11, <1>14, NoneBehindConcat
<1>16. ASSUME Free(r, B), reg \/ Heads(r, H) PROVE LastIn(r, S, G)
  <2>1. CASE reg
    BY <1>4, <1>6, <1>7, <1>8, <1>9, <1>10, <1>16, <2>1
  <2>2. CASE ~reg
    <3>1. t # <<>> => Heads(t, H)
      BY <1>2, <1>3, <1>16, <2>2, HeadsConcat
    <3>2. t # <<>> => ~Heads(t, H)
      <4>1. t # <<>> => 1 \in DOMAIN t /\ Head(t) = t[1]
        BY <1>2, LenProperties, EmptySeq, HeadTailProperties
      <4>. QED
        BY <1>11, <4>1 DEF Heads, Free
    <3>3. t = <<>>
      BY <3>1, <3>2
    <3>4. LastIn(t, S, G)
      BY <3>3 DEF LastIn
    <3>. QED
      BY <1>8, <1>10, <3>4
  <2>. QED
    BY <2>1, <2>2
<1>. QED
  BY <1>1, <1>6, <1>7, <1>8, <1>9, <1>10, <1>12, <1>13, <1>15, <1>16 DEF QueueTells

\* A task that is no handler and no send of the client goes to the tail: a
\* broadcast with the value the property now has, the client's listener when
\* it was not there, or something else.
LEMMA TellsAdd ==
  ASSUME NEW T, NEW B, NEW S, NEW H, NEW L, NEW G, NEW G2, NEW reg,
         NEW q \in Seq(T), NEW x \in T, x \notin H, x \notin S,
         QueueTells(q, reg, B, S, H, L, G),
         IF x \in B THEN x \in G2 ELSE G2 = G,
         x \in L => Free(q, L)
  PROVE  QueueTells(Append(q, x), reg, B, S, H, L, G2)
<1>1. <<x>> \in Seq(T) /\ Append(q, x) = q \o <<x>>
  BY AppendIsConcat
<1>2. PICK s, r : s = <<x>> /\ r = q \o <<x>>
  OBVIOUS
<1>3. /\ Free(s, H) /\ Free(s, S)
      /\ Free(s, B) <=> x \notin B
      /\ Free(s, L) <=> x \notin L
      /\ LastIn(s, B, G2) <=> (x \in B => x \in G2)
      /\ LastIn(s, S, G2)
      /\ NoneBehind(s, L, L)
  <2>1. /\ \A Z : Free(<<x>>, Z) <=> x \notin Z
        /\ \A Z, V : LastIn(<<x>>, Z, V) <=> (x \in Z => x \in V)
    BY LastOne
  <2>2. DOMAIN s = {1}
    BY <1>2
  <2>3. NoneBehind(s, L, L)
    BY <2>2 DEF NoneBehind
  <2>. QED
    BY <1>2, <2>1, <2>3
<1>4. /\ NoneBehind(q, L, H) /\ Free(s, H) => NoneBehind(q \o s, L, H)
      /\ NoneBehind(q, H, S) /\ Free(s, S) => NoneBehind(q \o s, H, S)
      /\ Together(q, H) /\ Free(s, H) => Together(q \o s, H)
      /\ Free(s, H) => (Heads(q \o s, H) <=> Heads(q, H))
  BY <1>1, <1>2, NoneBehindConcat, TogetherConcat, HeadsConcat
<1>5. NoneBehind(q, L, L) => NoneBehind(q \o s, L, L)
  BY <1>1, <1>2, <1>3, NoneBehindConcat
<1>6. /\ Free(q \o s, B) <=> Free(q, B) /\ Free(s, B)
      /\ LastIn(q \o s, B, G2) <=> LastIn(s, B, G2) /\ (Free(s, B) => LastIn(q, B, G2))
      /\ LastIn(q \o s, S, G2) <=> LastIn(s, S, G2) /\ (Free(s, S) => LastIn(q, S, G2))
  BY <1>1, <1>2, FreeConcat, LastConcat
<1>7. q \o s = r
  BY <1>2
<1>8. Together(r, H) /\ NoneBehind(r, L, H) /\ NoneBehind(r, L, L)
  BY <1>3, <1>4, <1>5, <1>7 DEF QueueTells
<1>9. ~reg /\ ~Heads(r, H) => NoneBehind(r, H, S)
  BY <1>3, <1>4, <1>7 DEF QueueTells
<1>10. LastIn(r, B, G2)
  BY <1>3, <1>6, <1>7 DEF QueueTells
<1>11. Free(r, B) /\ (reg \/ Heads(r, H)) => LastIn(r, S, G2)
  BY <1>3, <1>4, <1>6, <1>7 DEF QueueTells
<1>. QED
  BY <1>1, <1>2, <1>8, <1>9, <1>10, <1>11 DEF QueueTells

(***************************************************************************)
(* The sets for client c and property n.                                   *)
(***************************************************************************)
Broadcasts(n) == {t \in ServerTask : t.kind = "broadcast" /\ t.msg.name = n}
SendsTo(c, n) == {t \in ServerTask : t.kind = "send" /\ t.conn = c /\ t.msg.name = n}
HandlersOf(c) == {t \in ServerTask : t.kind = "handle" /\ t.conn = c}
ListenerOf(c) == {t \in ServerTask : t.kind = "listen" /\ t.conn = c}
Carries(v)    == {t \in ServerTask : t.msg.data = v}

EventsOf(n)     == {m \in FromServer : m.command = "EVENT" /\ m.name = n}
DispatchesOf(n) == {t \in ClientTask : t.kind = "dispatch" /\ t.msg \in EventsOf(n)}
Says(v)         == {m \in FromServer : m.data = v}
Shows(v)        == {t \in ClientTask : t.msg.data = v}

\* What has left the server ends with the value.
ChannelTells(chan, q, last, n, v) ==
  /\ LastIn(chan, EventsOf(n), Says(v))
  /\ Free(chan, EventsOf(n)) =>
       /\ LastIn(q, DispatchesOf(n), Shows(v))
       /\ Free(q, DispatchesOf(n)) => last = v

ReadyTells(q, reg, c, n, v) ==
  QueueTells(q, reg, Broadcasts(n), SendsTo(c, n), HandlersOf(c), ListenerOf(c), Carries(v))
NothingLeft(q, c, n) == Free(q, Broadcasts(n)) /\ Free(q, SendsTo(c, n))

Tells(c, n) ==
  /\ ReadyTells(ready, c \in listeners[n], c, n, value[n])
  /\ c \in listeners[n] \ closed /\ NothingLeft(ready, c, n)
       => ChannelTells(s2c[c], queue[c], seen[c][n], n, value[n])

EventInv == \A c \in Clients, n \in Served : Tells(c, n)

LEMMA KindsDiffer ==
  ASSUME NEW c, NEW n
  PROVE  /\ HandlersOf(c) \cap SendsTo(c, n) = {}
         /\ HandlersOf(c) \cap Broadcasts(n) = {}
         /\ HandlersOf(c) \cap ListenerOf(c) = {}
         /\ ListenerOf(c) \cap (Broadcasts(n) \cup SendsTo(c, n)) = {}
         /\ Broadcasts(n) \cap SendsTo(c, n) = {}
BY DEF HandlersOf, SendsTo, Broadcasts, ListenerOf

\* A message goes into the channel to the client.
LEMMA ChannelAppend ==
  ASSUME NEW n, NEW v, NEW q, NEW last, NEW chan \in Seq(FromServer), NEW m \in FromServer,
         IF m \in EventsOf(n) THEN m.data = v ELSE ChannelTells(chan, q, last, n, v)
  PROVE  ChannelTells(Append(chan, m), q, last, n, v)
<1>1. /\ Free(Append(chan, m), EventsOf(n)) <=> m \notin EventsOf(n) /\ Free(chan, EventsOf(n))
      /\ LastIn(Append(chan, m), EventsOf(n), Says(v)) <=>
           /\ m \in EventsOf(n) => m \in Says(v)
           /\ m \notin EventsOf(n) => LastIn(chan, EventsOf(n), Says(v))
  BY LastAppend
<1>2. m.data = v => m \in Says(v)
  BY DEF Says
<1>. QED
  BY <1>1, <1>2 DEF ChannelTells

\* The client's loop: a step that leaves the channel alone.
LEMMA ChannelRun ==
  ASSUME NEW n, NEW v, NEW chan, NEW last, NEW last2, NEW q \in Seq(ClientTask), q # <<>>,
         NEW xs \in Seq(ClientTask), Free(xs, DispatchesOf(n)),
         last2 = IF Head(q) \in DispatchesOf(n) THEN Head(q).msg.data ELSE last,
         ChannelTells(chan, q, last, n, v)
  PROVE  ChannelTells(chan, Tail(q) \o xs, last2, n, v)
<1>1. PICK t, h, r : t = Tail(q) /\ h = Head(q) /\ r = Tail(q) \o xs
  OBVIOUS
<1>2. t \in Seq(ClientTask) /\ h \in ClientTask
  BY <1>1, HeadTailProperties
<1>3. r = t \o xs
  BY <1>1
<1>4. /\ Free(q, DispatchesOf(n)) <=> h \notin DispatchesOf(n) /\ Free(t, DispatchesOf(n))
      /\ LastIn(q, DispatchesOf(n), Shows(v)) <=>
           /\ LastIn(t, DispatchesOf(n), Shows(v))
           /\ Free(t, DispatchesOf(n)) /\ h \in DispatchesOf(n) => h \in Shows(v)
  BY <1>1, LastHead
<1>5. /\ Free(r, DispatchesOf(n)) <=> Free(t, DispatchesOf(n)) /\ Free(xs, DispatchesOf(n))
      /\ LastIn(r, DispatchesOf(n), Shows(v)) <=>
           /\ LastIn(xs, DispatchesOf(n), Shows(v))
           /\ Free(xs, DispatchesOf(n)) => LastIn(t, DispatchesOf(n), Shows(v))
  BY <1>2, <1>3, FreeConcat, LastConcat
<1>6. LastIn(xs, DispatchesOf(n), Shows(v))
  BY DEF LastIn, Free
<1>7. h \in Shows(v) => h.msg.data = v
  BY DEF Shows
<1>8. ASSUME Free(chan, EventsOf(n))
      PROVE  /\ LastIn(r, DispatchesOf(n), Shows(v))
             /\ Free(r, DispatchesOf(n)) => last2 = v
  <2>1. /\ LastIn(q, DispatchesOf(n), Shows(v))
        /\ Free(q, DispatchesOf(n)) => last = v
    BY <1>8 DEF ChannelTells
  <2>. QED
    BY <1>1, <1>4, <1>5, <1>6, <1>7, <2>1
<1>. QED
  BY <1>1, <1>8 DEF ChannelTells

\* The client's listener moves the first k messages of the channel.
LEMMA ChannelListen ==
  ASSUME NEW c \in Clients, NEW n, NEW v, NEW last, NEW chan \in Seq(FromServer),
         NEW k \in 0..Len(chan),
         NEW q \in Seq(ClientTask), q # <<>>, Head(q).kind = "listen",
         ChannelTells(chan, q, last, n, v)
  PROVE  ChannelTells(Drop(chan, k), Tail(q) \o HandleAll("dispatch", c, chan, k), last, n, v)
<1>1. PICK t, h, xs, d : /\ t = Tail(q) /\ h = Head(q) /\ d = Drop(chan, k)
                         /\ xs = HandleAll("dispatch", c, chan, k)
  OBVIOUS
<1>2. t \in Seq(ClientTask) /\ h \in ClientTask /\ h \notin DispatchesOf(n)
  BY <1>1, HeadTailProperties DEF DispatchesOf
<1>3. /\ \A m \in FromServer : Task("dispatch", c, m) \in ClientTask
      /\ \A m \in FromServer :
           /\ Task("dispatch", c, m) \in DispatchesOf(n) <=> m \in EventsOf(n)
           /\ Task("dispatch", c, m) \in Shows(v) <=> m \in Says(v)
  <2>1. \A m \in FromServer : Task("dispatch", c, m) \in ClientTask
    BY TaskTypes
  <2>. QED
    BY <2>1 DEF DispatchesOf, Shows, Says, Task
<1>4. /\ xs \in Seq(ClientTask) /\ d \in Seq(FromServer)
      /\ Free(chan, EventsOf(n)) <=> Free(xs, DispatchesOf(n)) /\ Free(d, EventsOf(n))
      /\ LastIn(chan, EventsOf(n), Says(v)) <=>
           /\ LastIn(d, EventsOf(n), Says(v))
           /\ Free(d, EventsOf(n)) => LastIn(xs, DispatchesOf(n), Shows(v))
  <2>1. PICK E, Y, D, W : E = EventsOf(n) /\ Y = Says(v) /\ D = DispatchesOf(n) /\ W = Shows(v)
    OBVIOUS
  <2>2. \A m \in FromServer : Task("dispatch", c, m) \in ClientTask
    BY <1>3
  <2>3. \A m \in FromServer : /\ Task("dispatch", c, m) \in D <=> m \in E
                              /\ Task("dispatch", c, m) \in W <=> m \in Y
    BY <1>3, <2>1
  <2>4. /\ Free(xs, D) <=> Free(SubSeq(chan, 1, k), E)
        /\ LastIn(xs, D, W) <=> LastIn(SubSeq(chan, 1, k), E, Y)
    BY <1>1, <2>3, LastHandleAll
  <2>5. /\ Free(chan, E) <=> Free(SubSeq(chan, 1, k), E) /\ Free(d, E)
        /\ LastIn(chan, E, Y) <=>
             LastIn(d, E, Y) /\ (Free(d, E) => LastIn(SubSeq(chan, 1, k), E, Y))
    BY <1>1, LastPart
  <2>6. xs \in Seq(ClientTask)
    BY <1>1, <2>2, HandleAllType
  <2>7. d \in Seq(FromServer)
    BY <1>1, EntriesPart
  <2>. QED
    BY <2>1, <2>4, <2>5, <2>6, <2>7
<1>5. /\ Free(q, DispatchesOf(n)) <=> Free(t, DispatchesOf(n))
      /\ LastIn(q, DispatchesOf(n), Shows(v)) <=> LastIn(t, DispatchesOf(n), Shows(v))
  BY <1>1, <1>2, LastHead
<1>6. /\ Free(t \o xs, DispatchesOf(n)) <=> Free(t, DispatchesOf(n)) /\ Free(xs, DispatchesOf(n))
      /\ LastIn(t \o xs, DispatchesOf(n), Shows(v)) <=>
           /\ LastIn(xs, DispatchesOf(n), Shows(v))
           /\ Free(xs, DispatchesOf(n)) => LastIn(t, DispatchesOf(n), Shows(v))
  BY <1>2, <1>4, FreeConcat, LastConcat
<1>7. ChannelTells(d, t \o xs, last, n, v)
  BY <1>4, <1>5, <1>6 DEF ChannelTells
<1>. QED
  BY <1>1, <1>7

(***************************************************************************)
(* The steps, seen from client d and property n.                           *)
(***************************************************************************)
LEMMA TellsInit == Init => EventInv
<1>1. SUFFICES ASSUME Init, NEW c \in Clients, NEW n \in Served
               PROVE  Tells(c, n)
  BY DEF EventInv
<1>2. ready = <<>> /\ c \notin listeners[n]
  BY <1>1, SyncAssumption DEF Init
<1>. QED
  BY <1>2 DEF Tells, ReadyTells, QueueTells, Together, NoneBehind, LastIn, Heads

\* Calls of the users change nothing the last event depends on; a client that
\* has closed is told nothing.
LEMMA TellsUserCalls ==
  ASSUME TypeOK, NEW d \in Clients, NEW n \in Served, Tells(d, n), NEW c \in Clients,
         \/ Close(c)
         \/ \E m \in Names : Subscribe(c, m) \/ Unsubscribe(c, m) \/ Write(c, m)
         \/ \E m \in Names, r \in Readers : Read(c, m, r)
  PROVE  Tells(d, n)'
<1>1. /\ ready' = ready /\ listeners' = listeners /\ value' = value
      /\ queue' = queue /\ seen' = seen
      /\ \/ s2c' = s2c /\ closed' = closed
         \/ Close(c)
  BY DEF Close, Subscribe, Unsubscribe, Write, Read, serverVars, history
<1>2. d \notin closed' => d \notin closed /\ s2c'[d] = s2c[d]
  <2>1. CASE s2c' = s2c /\ closed' = closed
    BY <2>1
  <2>2. CASE Close(c)
    BY <2>2 DEF Close, TypeOK
  <2>. QED
    BY <1>1, <2>1, <2>2
<1>. QED
  BY <1>1, <1>2 DEF Tells

\* The client's event loop: events go from the channel to its queue and from
\* there to the listeners of property-<n>, in order.
LEMMA TellsClientLoop ==
  ASSUME TypeOK, NEW d \in Clients, NEW n \in Served, Tells(d, n), NEW c \in Clients,
         ClientStep(c) \/ ClientArrive(c)
  PROVE  Tells(d, n)'
<1>1. /\ ready' = ready /\ listeners' = listeners /\ value' = value /\ closed' = closed
  BY DEF ClientStep, ClientListen, DispatchEvent, DispatchReply, WakeRead, ClientArrive,
         serverVars
<1>2. SUFFICES ASSUME ChannelTells(s2c[d], queue[d], seen[d][n], n, value[n])
               PROVE  ChannelTells(s2c'[d], queue'[d], seen'[d][n], n, value[n])
  BY <1>1 DEF Tells
<1>3. /\ s2c[d] \in Seq(FromServer) /\ queue[d] \in Seq(ClientTask)
      /\ n \in Names /\ s2c \in [Clients -> Seq(FromServer)] /\ queue \in [Clients -> Seq(ClientTask)]
      /\ seen \in [Clients -> [Names -> Writes \cup {None}]]
  BY SyncAssumption DEF TypeOK
<1>4. CASE c # d
  <2>1. queue'[d] = queue[d] /\ s2c'[d] = s2c[d]
    BY <1>3, <1>4 DEF ClientStep, ClientListen, DispatchEvent, DispatchReply, WakeRead,
       ClientArrive
  <2>2. seen'[d] = seen[d]
    BY <1>3, <1>4 DEF ClientStep, ClientListen, DispatchEvent, DispatchReply, WakeRead,
       ClientArrive, history
  <2>. QED
    BY <1>2, <2>1, <2>2
<1>5. CASE c = d /\ ClientArrive(d)
  <2>. DEFINE t == Task("listen", d, NoMsg)
  <2>1. s2c' = s2c /\ seen' = seen /\ queue'[d] = Append(queue[d], t)
    BY <1>3, <1>5 DEF ClientArrive, history
  <2>2. t \in ClientTask /\ t \notin DispatchesOf(n)
    BY TaskTypes DEF DispatchesOf, Task
  <2>. HIDE DEF t
  <2>3. /\ Free(Append(queue[d], t), DispatchesOf(n)) <=> Free(queue[d], DispatchesOf(n))
        /\ LastIn(Append(queue[d], t), DispatchesOf(n), Shows(value[n])) <=>
             LastIn(queue[d], DispatchesOf(n), Shows(value[n]))
    BY <1>3, <2>2, LastAppend
  <2>. QED
    BY <1>2, <2>1, <2>3 DEF ChannelTells
<1>6. CASE c = d /\ ClientListen(d)
  <2>1. PICK k \in IF s2c[d] = <<>> THEN {0} ELSE 1..Len(s2c[d]) :
          /\ queue'[d] = Tail(queue[d]) \o HandleAll("dispatch", d, s2c[d], k)
          /\ s2c'[d] = Drop(s2c[d], k)
    BY <1>3, <1>6 DEF ClientListen
  <2>2. queue[d] # <<>> /\ Head(queue[d]).kind = "listen" /\ seen' = seen
    BY <1>6 DEF ClientListen, Running, history
  <2>3. k \in 0..Len(s2c[d])
    BY <1>3, LenProperties
  <2>. QED
    BY <1>2, <1>3, <2>1, <2>2, <2>3, ChannelListen
<1>7. CASE c = d /\ DispatchEvent(d)
  <2>. DEFINE m == Head(queue[d]).msg
  <2>1. /\ queue[d] # <<>> /\ Head(queue[d]).kind = "dispatch" /\ m.command = "EVENT"
        /\ s2c' = s2c /\ queue'[d] = Tail(queue[d])
        /\ seen' = [seen EXCEPT ![d][m.name] = m.data]
    BY <1>3, <1>7 DEF DispatchEvent, Running
  <2>2. Head(queue[d]) \in ClientTask /\ Tail(queue[d]) \in Seq(ClientTask)
    BY <1>3, <2>1, HeadTailProperties
  <2>3. m \in FromServer /\ m.name \in Names
    BY <2>1, <2>2, TaskShapes, MessageShapes, SyncAssumption
  <2>4. Head(queue[d]) \in DispatchesOf(n) <=> m.name = n
    BY <2>1, <2>2, <2>3 DEF DispatchesOf, EventsOf
  <2>5. seen'[d][n] = IF Head(queue[d]) \in DispatchesOf(n) THEN Head(queue[d]).msg.data
                                                            ELSE seen[d][n]
    BY <1>3, <2>1, <2>3, <2>4
  <2>6. <<>> \in Seq(ClientTask) /\ Free(<<>>, DispatchesOf(n))
        /\ Tail(queue[d]) \o <<>> = Tail(queue[d])
    BY <2>2, ConcatEmptySeq DEF Free
  <2>7. ChannelTells(s2c[d], Tail(queue[d]) \o <<>>, seen'[d][n], n, value[n])
    BY <1>2, <1>3, <2>1, <2>5, <2>6, ChannelRun
  <2>. QED
    BY <2>1, <2>6, <2>7
<1>8. CASE c = d /\ (DispatchReply(d) \/ WakeRead(d))
  <2>1. /\ queue[d] # <<>> /\ s2c' = s2c /\ seen' = seen
        /\ \/ Head(queue[d]).kind = "wake"
           \/ Head(queue[d]).kind = "dispatch" /\ Head(queue[d]).msg.command = "REPLY"
    BY <1>8 DEF DispatchReply, WakeRead, Running, history
  <2>2. Head(queue[d]) \in ClientTask /\ Tail(queue[d]) \in Seq(ClientTask)
    BY <1>3, <2>1, HeadTailProperties
  <2>3. Head(queue[d]) \notin DispatchesOf(n)
    BY <2>1 DEF DispatchesOf, EventsOf
  <2>4. PICK xs \in Seq(ClientTask) :
          Free(xs, DispatchesOf(n)) /\ queue'[d] = Tail(queue[d]) \o xs
    <3>1. CASE DispatchReply(d)
      <4>. DEFINE t == Task("wake", d, Head(queue[d]).msg)
      <4>1. Head(queue[d]).msg \in ReplyMessage
        BY <2>2, <3>1, TaskShapes, MessageShapes DEF DispatchReply, Running
      <4>2. t \in ClientTask /\ t \notin DispatchesOf(n)
        BY <4>1, TaskTypes DEF DispatchesOf, Task
      <4>3. queue'[d] = Append(Tail(queue[d]), t)
        BY <1>3, <3>1 DEF DispatchReply
      <4>. HIDE DEF t
      <4>4. <<t>> \in Seq(ClientTask)
        BY <4>2
      <4>5. Free(<<t>>, DispatchesOf(n))
        BY <4>2, LastOne
      <4>6. Append(Tail(queue[d]), t) = Tail(queue[d]) \o <<t>>
        BY <2>2, <4>2, AppendIsConcat
      <4>. QED
        BY <4>3, <4>4, <4>5, <4>6
    <3>2. CASE WakeRead(d)
      <4>1. queue'[d] = Tail(queue[d])
        BY <1>3, <3>2 DEF WakeRead
      <4>2. <<>> \in Seq(ClientTask) /\ Free(<<>>, DispatchesOf(n))
            /\ Tail(queue[d]) \o <<>> = Tail(queue[d])
        BY <2>2, ConcatEmptySeq DEF Free
      <4>. QED
        BY <4>1, <4>2
    <3>. QED
      BY <1>8, <3>1, <3>2
  <2>5. ChannelTells(s2c[d], Tail(queue[d]) \o xs, seen[d][n], n, value[n])
    BY <1>2, <1>3, <2>1, <2>3, <2>4, ChannelRun
  <2>. QED
    BY <2>1, <2>4, <2>5
<1>. QED
  BY <1>4, <1>5, <1>6, <1>7, <1>8 DEF ClientStep

\* Bytes arrive at the server.
LEMMA TellsArrive ==
  ASSUME TypeOK, NEW d \in Clients, NEW n \in Served, Tells(d, n), NEW c \in Clients,
         ServerArrive(c)
  PROVE  Tells(d, n)'
<1>. DEFINE t == Task("listen", c, NoMsg)
<1>1. /\ ready' = Append(ready, t) /\ listeners' = listeners /\ value' = value
      /\ s2c' = s2c /\ queue' = queue /\ seen' = seen /\ closed' = closed
      /\ ~Listening(ready, c)
  BY DEF ServerArrive, clientVars, history
<1>2. /\ t \in ServerTask /\ t \notin HandlersOf(d) /\ t \notin SendsTo(d, n)
      /\ t \notin Broadcasts(n)
      /\ t \in ListenerOf(d) => Free(ready, ListenerOf(d))
  BY <1>1, TaskTypes DEF HandlersOf, SendsTo, Broadcasts, ListenerOf, Task, Free, Listening
<1>. HIDE DEF t
<1>3. ready \in Seq(ServerTask)
  BY DEF TypeOK
<1>4. ReadyTells(Append(ready, t), d \in listeners[n], d, n, value[n])
  BY <1>2, <1>3, TellsAdd DEF Tells, ReadyTells
<1>5. NothingLeft(Append(ready, t), d, n) => NothingLeft(ready, d, n)
  BY ZenonT(60), <1>2, <1>3, LastAppend DEF NothingLeft
<1>. QED
  BY <1>1, <1>4, <1>5 DEF Tells

\* An accepted value: the broadcast that carries it goes to the tail of what
\* is left of the queue.
LEMMA TellsServerSet ==
  ASSUME TypeOK, NEW d \in Clients, NEW n \in Served, Tells(d, n),
         NEW m \in Served, ServerSet(m)
  PROVE  Tells(d, n)'
<1>. DEFINE t == Task("broadcast", None, Msg("EVENT", m, writes + 1, 0))
<1>1. writes + 1 \in Writes
  BY SyncAssumption DEF ServerSet, Writes, TypeOK
<1>2. /\ t \in ServerTask /\ t \notin HandlersOf(d) /\ t \notin SendsTo(d, n)
      /\ t \notin ListenerOf(d)
      /\ t \in Broadcasts(n) <=> m = n
      /\ t \in Carries(writes + 1)
  BY <1>1, MessageTypes, TaskTypes
     DEF HandlersOf, SendsTo, Broadcasts, ListenerOf, Carries, Task, Msg
<1>3. /\ listeners' = listeners /\ s2c' = s2c /\ queue' = queue /\ seen' = seen
      /\ closed' = closed
      /\ \/ ready' = ready /\ value' = value
         \/ ready' = Append(ready, t) /\ value' = [value EXCEPT ![m] = writes + 1]
  BY DEF ServerSet, Assign, clientVars, history
<1>. HIDE DEF t
<1>4. CASE ready' = ready /\ value' = value
  BY <1>3, <1>4 DEF Tells
<1>5. CASE ready' = Append(ready, t) /\ value' = [value EXCEPT ![m] = writes + 1]
  <2>1. /\ ready \in Seq(ServerTask)
        /\ value'[n] = IF m = n THEN writes + 1 ELSE value[n]
    BY <1>5 DEF TypeOK
  <2>2. IF t \in Broadcasts(n) THEN t \in Carries(value'[n])
                               ELSE Carries(value'[n]) = Carries(value[n])
    BY <1>2, <2>1
  <2>3. ReadyTells(Append(ready, t), d \in listeners[n], d, n, value'[n])
    BY <1>2, <2>1, <2>2, TellsAdd DEF Tells, ReadyTells
  <2>4. NothingLeft(Append(ready, t), d, n) => NothingLeft(ready, d, n) /\ value'[n] = value[n]
    <3>1. ready \in Seq(ServerTask) /\ t \in ServerTask
      BY <1>2, <2>1
    <3>2. \A Z : Free(Append(ready, t), Z) <=> t \notin Z /\ Free(ready, Z)
      BY <3>1, LastAppend
    <3>. QED
      BY <1>2, <2>1, <3>2 DEF NothingLeft
  <2>. QED
    BY <1>3, <1>5, <2>3, <2>4 DEF Tells
<1>. QED
  BY <1>3, <1>4, <1>5

\* What a delivery leaves in the channel to client d.
LEMMA Delivered ==
  ASSUME TypeOK, NEW d \in Clients, NEW c \in Clients, NEW m \in FromServer, Deliver(c, m)
  PROVE  s2c'[d] = IF c = d /\ d \notin closed THEN Append(s2c[d], m) ELSE s2c[d]
BY DEF Deliver, TypeOK

\* Handlers and sends that change no value.
LEMMA TellsServerRun ==
  ASSUME TypeOK, NEW d \in Clients, NEW n \in Served, Tells(d, n),
         OnPropertyGet \/ OnPropertyWatch \/ OnPropertyUnwatch \/ PropSend
  PROVE  Tells(d, n)'
<1>. DEFINE h == Head(ready)
            rest == Tail(ready)
<1>1. /\ ready # <<>> /\ ready \in Seq(ServerTask) /\ h \in ServerTask
      /\ rest \in Seq(ServerTask)
  BY ServerHead DEF ServerStep, TypeOK
<1>2. /\ ready' = rest /\ value' = value /\ queue' = queue /\ seen' = seen /\ closed' = closed
  BY DEF OnPropertyGet, OnPropertyWatch, OnPropertyUnwatch, PropSend, clientVars, history
<1>3. /\ n \in Names /\ listeners \in [Names -> SUBSET Clients]
      /\ s2c[d] \in Seq(FromServer)
  BY SyncAssumption DEF TypeOK
<1>4. h \notin HandlersOf(d) => (d \in listeners'[n] <=> d \in listeners[n])
  BY <1>1, <1>3 DEF HandlersOf, OnPropertyGet, OnPropertyWatch, OnPropertyUnwatch, PropSend,
     Handling, Serving
<1>5. h \notin Broadcasts(n)
  BY DEF Broadcasts, OnPropertyGet, OnPropertyWatch, OnPropertyUnwatch, PropSend,
     Handling, Serving
<1>6. ReadyTells(rest, d \in listeners'[n], d, n, value[n])
  <2>1. <<>> \in Seq(ServerTask) /\ rest \o <<>> = rest
    BY <1>1, ConcatEmptySeq
  <2>2. /\ \A Z : Free(<<>>, Z)
        /\ \A Z, V : LastIn(<<>>, Z, V)
    BY DEF Free, LastIn
  <2>3. PICK B, S, H, L, G : /\ B = Broadcasts(n) /\ S = SendsTo(d, n) /\ H = HandlersOf(d)
                             /\ L = ListenerOf(d) /\ G = Carries(value[n])
    OBVIOUS
  <2>4. H \cap S = {} /\ H \cap B = {}
    BY <2>3, KindsDiffer
  <2>5. QueueTells(ready, d \in listeners[n], B, S, H, L, G)
    BY <2>3 DEF Tells, ReadyTells
  <2>6. PICK reg, reg2 : reg = (d \in listeners[n]) /\ reg2 = (d \in listeners'[n])
    OBVIOUS
  <2>7. /\ h \notin H => (reg2 <=> reg)
        /\ h \notin B
        /\ QueueTells(ready, reg, B, S, H, L, G)
    BY <1>4, <1>5, <2>3, <2>5, <2>6
  <2>8. QueueTells(rest \o <<>>, reg2, B, S, H, L, G)
    BY <1>1, <2>1, <2>2, <2>4, <2>7, TellsRun
  <2>. QED
    BY <2>1, <2>3, <2>6, <2>8 DEF ReadyTells
<1>7. ASSUME d \in listeners'[n] \ closed, NothingLeft(rest, d, n)
      PROVE  ChannelTells(s2c'[d], queue[d], seen[d][n], n, value[n])
  <2>1. /\ Free(ready, Broadcasts(n))
        /\ Free(ready, SendsTo(d, n)) <=> h \notin SendsTo(d, n)
        /\ LastIn(ready, SendsTo(d, n), Carries(value[n])) /\ h \in SendsTo(d, n)
             => h \in Carries(value[n])
    BY <1>1, <1>5, <1>7, LastHead DEF NothingLeft
  <2>2. CASE OnPropertyWatch /\ h.conn = d /\ h.msg.name = n
    <3>. DEFINE m == Msg("EVENT", n, value[n], 0)
    <3>1. m \in FromServer /\ m \in EventsOf(n) /\ m.data = value[n]
      BY MessageTypes DEF EventsOf, FromServer, Msg, TypeOK
    <3>2. Deliver(d, m)
      BY <2>2 DEF OnPropertyWatch
    <3>. HIDE DEF m
    <3>3. s2c'[d] = Append(s2c[d], m)
      BY <1>7, <3>1, <3>2, Delivered
    <3>. QED
      BY <1>3, <3>1, <3>3, ChannelAppend
  <2>3. CASE PropSend /\ h \in SendsTo(d, n)
    <3>1. d \in listeners[n]
      BY <1>7, <2>3 DEF PropSend
    <3>2. h \in Carries(value[n])
      BY <2>1, <2>3, <3>1 DEF Tells, ReadyTells, QueueTells
    <3>3. h.conn = d /\ h.msg \in EventMessage /\ h.msg.name = n /\ h.msg.data = value[n]
      BY <1>1, <2>3, <3>2, TaskShapes DEF SendsTo, Carries
    <3>4. h.msg \in FromServer /\ h.msg \in EventsOf(n)
      BY <3>3 DEF FromServer, EventsOf, EventMessage, Shape
    <3>5. s2c'[d] = Append(s2c[d], h.msg)
      BY <1>7, <2>3, <3>3, <3>4, Delivered DEF PropSend
    <3>. QED
      BY <1>3, <3>3, <3>4, <3>5, ChannelAppend
  <2>4. CASE /\ ~(OnPropertyWatch /\ h.conn = d /\ h.msg.name = n)
             /\ ~(PropSend /\ h \in SendsTo(d, n))
    <3>1. d \in listeners[n]
      BY <1>3, <1>7, <2>4 DEF OnPropertyGet, OnPropertyWatch, OnPropertyUnwatch, PropSend
    <3>2. h \notin SendsTo(d, n)
      BY <2>4 DEF OnPropertyGet, OnPropertyWatch, OnPropertyUnwatch, Handling, Serving, SendsTo
    <3>3. ChannelTells(s2c[d], queue[d], seen[d][n], n, value[n])
      BY <1>7, <2>1, <3>1, <3>2 DEF Tells, NothingLeft
    <3>4. s2c'[d] = s2c[d] \/ \E m \in FromServer \ EventsOf(n) : s2c'[d] = Append(s2c[d], m)
      <4>1. CASE OnPropertyGet
        <5>. DEFINE v == IF h.msg.name \in Served THEN value[h.msg.name] ELSE Error
                    m == Msg("REPLY", None, v, h.msg.seq)
        <5>1. h.conn \in Clients /\ h.msg.seq \in Readers
          BY <1>1, <4>1, HandledMessage, MessageShapes DEF OnPropertyGet
        <5>2. v \in Writes \cup {Error} /\ Deliver(h.conn, m)
          BY <4>1 DEF OnPropertyGet, TypeOK
        <5>. HIDE DEF v
        <5>3. m \in FromServer /\ m \notin EventsOf(n)
          BY <5>1, <5>2, MessageTypes DEF FromServer, EventsOf, Msg
        <5>. QED
          BY <5>1, <5>2, <5>3, Delivered
      <4>2. CASE OnPropertyWatch
        <5>1. h.conn \in Clients
          BY <1>1, <4>2, HandledMessage, MessageShapes DEF OnPropertyWatch, WatchCommands
        <5>2. CASE h.msg.name \in Served
          <6>. DEFINE m == Msg("EVENT", h.msg.name, value[h.msg.name], 0)
          <6>1. m \in FromServer /\ Deliver(h.conn, m)
            BY <4>2, <5>2, MessageTypes DEF OnPropertyWatch, FromServer, TypeOK
          <6>2. m \in EventsOf(n) => h.msg.name = n
            BY DEF EventsOf, Msg
          <6>. HIDE DEF m
          <6>3. s2c'[d] = IF h.conn = d /\ d \notin closed THEN Append(s2c[d], m) ELSE s2c[d]
            BY <5>1, <6>1, Delivered
          <6>. QED
            BY <2>4, <4>2, <6>1, <6>2, <6>3
        <5>3. CASE h.msg.name \notin Served
          BY <4>2, <5>3 DEF OnPropertyWatch
        <5>. QED
          BY <5>2, <5>3
      <4>3. CASE OnPropertyUnwatch
        BY <4>3 DEF OnPropertyUnwatch
      <4>4. CASE PropSend
        <5>1. h.kind = "send" /\ h.conn \in Clients /\ h.msg \in EventMessage
          BY <1>1, <4>4, TaskShapes DEF PropSend, Serving
        <5>2. h.msg \in FromServer /\ Deliver(h.conn, h.msg)
          BY <4>4, <5>1 DEF FromServer, PropSend
        <5>3. h.conn = d => h.msg \notin EventsOf(n)
          BY <1>1, <2>4, <4>4, <5>1 DEF SendsTo, EventsOf
        <5>4. s2c'[d] = IF h.conn = d /\ d \notin closed THEN Append(s2c[d], h.msg) ELSE s2c[d]
          BY <5>1, <5>2, Delivered
        <5>. QED
          BY <5>2, <5>3, <5>4
      <4>. QED
        BY <4>1, <4>2, <4>3, <4>4
    <3>5. CASE s2c'[d] = s2c[d]
      BY <3>3, <3>5
    <3>6. ASSUME NEW m \in FromServer \ EventsOf(n), s2c'[d] = Append(s2c[d], m)
          PROVE  ChannelTells(s2c'[d], queue[d], seen[d][n], n, value[n])
      BY <1>3, <3>3, <3>6, ChannelAppend
    <3>. QED
      BY <3>4, <3>5, <3>6
  <2>. QED
    BY <2>2, <2>3, <2>4
<1>. QED
  BY <1>2, <1>6, <1>7 DEF Tells

\* The tasks a broadcast makes.
LEMMA SendTasks ==
  ASSUME TypeOK, NEW m \in EventMessage, NEW K \in SUBSET Clients, NEW order \in SetToSeqs(K)
  PROVE  /\ [i \in DOMAIN order |-> Task("send", order[i], m)] \in Seq(ServerTask)
         /\ \A i \in DOMAIN order : order[i] \in K
         /\ \A d \in K : \E i \in DOMAIN order : order[i] = d
<1>1. IsFiniteSet(Clients) /\ IsFiniteSet(K) /\ Cardinality(K) \in Nat
  BY SyncAssumption, FS_Subset, FS_CardinalityType
<1>2. /\ order \in [1..Cardinality(K) -> K]
      /\ \A i, j \in 1..Cardinality(K) : order[i] = order[j] => i = j
  BY DEF SetToSeqs
<1>3. order \in Seq(Clients) /\ \A i \in DOMAIN order : order[i] \in K
  BY <1>1, <1>2, OrderIsSeq
<1>4. [i \in DOMAIN order |-> Task("send", order[i], m)] \in Seq(ServerTask)
  BY <1>3, TaskTypes
<1>5. order \in Surjection(1..Cardinality(K), K)
  <2>1. order \in Injection(1..Cardinality(K), K)
    BY <1>2 DEF Injection, IsInjective
  <2>2. IsFiniteSet(1..Cardinality(K)) /\ Cardinality(1..Cardinality(K)) = Cardinality(K)
    BY <1>1, FS_Interval
  <2>. QED
    BY <1>1, <2>1, <2>2, FS_Injection
<1>. QED
  BY <1>2, <1>3, <1>4, <1>5 DEF Surjection

\* broadcast_property: a send for every client that is registered when it runs.
LEMMA TellsBroadcast ==
  ASSUME TypeOK, NEW d \in Clients, NEW n \in Served, Tells(d, n), Broadcast
  PROVE  Tells(d, n)'
<1>. DEFINE h == Head(ready)
            m == h.msg
            rest == Tail(ready)
<1>1. /\ ready # <<>> /\ ready \in Seq(ServerTask) /\ h \in ServerTask
      /\ rest \in Seq(ServerTask) /\ h.kind = "broadcast"
  BY ServerHead DEF ServerStep, TypeOK, Broadcast, Serving
<1>2. m \in EventMessage /\ m.name \in Served /\ m.name \in Names
  BY <1>1, TaskShapes, MessageShapes, SyncAssumption
<1>3. PICK order \in SetToSeqs(listeners[m.name]) :
        ready' = rest \o [i \in DOMAIN order |-> Task("send", order[i], m)]
  BY DEF Broadcast
<1>4. /\ value' = value /\ listeners' = listeners /\ s2c' = s2c /\ queue' = queue
      /\ seen' = seen /\ closed' = closed
  BY DEF Broadcast, clientVars, history
<1>5. PICK xs : xs = [i \in DOMAIN order |-> Task("send", order[i], m)]
  OBVIOUS
<1>6. listeners[m.name] \in SUBSET Clients
  BY <1>2 DEF TypeOK
<1>7. /\ xs \in Seq(ServerTask)
      /\ \A i \in DOMAIN order : order[i] \in listeners[m.name]
      /\ \A c \in listeners[m.name] : \E i \in DOMAIN order : order[i] = c
  BY <1>2, <1>5, <1>6, SendTasks
<1>8. DOMAIN xs = DOMAIN order /\ \A i \in DOMAIN xs : xs[i] = Task("send", order[i], m)
  BY <1>5
<1>9. \A i \in DOMAIN xs : xs[i] \in ServerTask
  BY <1>7, LenProperties, ElementOfSeq
<1>10. /\ Free(xs, HandlersOf(d)) /\ Free(xs, ListenerOf(d)) /\ Free(xs, Broadcasts(n))
       /\ Free(xs, SendsTo(d, n)) <=> ~(m.name = n /\ d \in listeners[n])
  <2>1. \A i \in DOMAIN xs : /\ xs[i].kind = "send" /\ xs[i].conn = order[i] /\ xs[i].msg = m
    BY <1>8 DEF Task
  <2>2. /\ Free(xs, HandlersOf(d)) /\ Free(xs, ListenerOf(d)) /\ Free(xs, Broadcasts(n))
    BY <2>1 DEF Free, HandlersOf, ListenerOf, Broadcasts
  <2>3. ASSUME m.name = n, d \in listeners[n] PROVE ~Free(xs, SendsTo(d, n))
    <3>1. PICK i \in DOMAIN xs : order[i] = d
      BY <1>7, <1>8, <2>3
    <3>2. xs[i] \in SendsTo(d, n)
      BY <1>9, <2>1, <2>3, <3>1 DEF SendsTo
    <3>. QED
      BY <3>2 DEF Free
  <2>4. ASSUME ~(m.name = n /\ d \in listeners[n]) PROVE Free(xs, SendsTo(d, n))
    <3>1. ASSUME NEW i \in DOMAIN xs, xs[i] \in SendsTo(d, n) PROVE FALSE
      BY <1>7, <1>8, <2>1, <2>4, <3>1 DEF SendsTo
    <3>. QED
      BY <3>1 DEF Free
  <2>. QED
    BY <2>2, <2>3, <2>4
<1>11. LastIn(xs, Broadcasts(n), Carries(value[n]))
  BY <1>10 DEF LastIn, Free
<1>12. h \in Broadcasts(n) <=> m.name = n
  BY <1>1 DEF Broadcasts
<1>13. h \notin HandlersOf(d) /\ h \notin SendsTo(d, n)
  BY <1>1 DEF HandlersOf, SendsTo
<1>14. m.name = n /\ Free(rest, Broadcasts(n)) => LastIn(xs, SendsTo(d, n), Carries(value[n]))
  <2>1. SUFFICES ASSUME m.name = n, Free(rest, Broadcasts(n)), NEW i \in DOMAIN xs
                 PROVE  xs[i] \in Carries(value[n])
    BY DEF LastIn
  <2>2. LastIn(ready, Broadcasts(n), Carries(value[n]))
    BY DEF Tells, ReadyTells, QueueTells
  <2>3. h \in Carries(value[n])
    BY <1>1, <1>12, <2>1, <2>2, LastHead
  <2>. QED
    BY <1>8, <1>9, <2>3 DEF Carries, Task
<1>15. ReadyTells(rest \o xs, d \in listeners[n], d, n, value[n])
  <2>1. PICK B, S, H, L, G : /\ B = Broadcasts(n) /\ S = SendsTo(d, n) /\ H = HandlersOf(d)
                             /\ L = ListenerOf(d) /\ G = Carries(value[n])
    OBVIOUS
  <2>2. H \cap S = {} /\ H \cap B = {}
    BY <2>1, KindsDiffer
  <2>3. PICK reg : reg = (d \in listeners[n])
    OBVIOUS
  <2>4. /\ QueueTells(ready, reg, B, S, H, L, G)
        /\ Free(xs, H) /\ Free(xs, L) /\ LastIn(xs, B, G)
        /\ Free(xs, S) \/ (reg /\ (Free(rest, B) /\ Free(xs, B) => LastIn(xs, S, G)))
        /\ h \in B /\ reg => ~Free(xs, S)
    BY <1>10, <1>11, <1>12, <1>14, <2>1, <2>3 DEF Tells, ReadyTells
  <2>5. QueueTells(rest \o xs, reg, B, S, H, L, G)
    BY <1>1, <1>7, <2>2, <2>4, TellsRun
  <2>. QED
    BY <2>1, <2>3, <2>5 DEF ReadyTells
<1>16. ASSUME d \in listeners[n], NothingLeft(rest \o xs, d, n)
       PROVE  NothingLeft(ready, d, n)
  <2>1. /\ Free(rest, Broadcasts(n)) /\ Free(rest, SendsTo(d, n)) /\ Free(xs, SendsTo(d, n))
    BY <1>1, <1>7, <1>16, FreeConcat DEF NothingLeft
  <2>2. h \notin Broadcasts(n)
    BY <1>10, <1>12, <1>16, <2>1
  <2>3. /\ Free(ready, Broadcasts(n)) <=> h \notin Broadcasts(n) /\ Free(rest, Broadcasts(n))
        /\ Free(ready, SendsTo(d, n)) <=> h \notin SendsTo(d, n) /\ Free(rest, SendsTo(d, n))
    BY <1>1, LastHead
  <2>. QED
    BY <1>13, <2>1, <2>2, <2>3 DEF NothingLeft
<1>. HIDE DEF rest
<1>. QED
  BY <1>3, <1>4, <1>5, <1>15, <1>16 DEF Tells

\* on_property_set.
LEMMA TellsPropertySet ==
  ASSUME TypeOK, NEW d \in Clients, NEW n \in Served, Tells(d, n), OnPropertySet
  PROVE  Tells(d, n)'
<1>. DEFINE h == Head(ready)
            m == h.msg
            rest == Tail(ready)
            t == Task("broadcast", None, Msg("EVENT", m.name, m.data, 0))
<1>1. /\ ready # <<>> /\ ready \in Seq(ServerTask) /\ h \in ServerTask
      /\ rest \in Seq(ServerTask) /\ h.kind = "handle" /\ m.command = "CHAN_SEND"
  BY ServerHead DEF ServerStep, TypeOK, OnPropertySet, Handling, Serving
<1>2. m.name \in Names /\ m.data \in Writes
  BY <1>1, TaskShapes, MessageShapes
<1>3. /\ listeners' = listeners /\ s2c' = s2c /\ queue' = queue /\ seen' = seen
      /\ closed' = closed
  BY DEF OnPropertySet, clientVars, history
<1>4. \/ ready' = rest /\ value' = value
      \/ m.name \in Served /\ ready' = Append(rest, t) /\ value' = [value EXCEPT ![m.name] = m.data]
  BY DEF OnPropertySet, Assign
<1>5. PICK xs \in Seq(ServerTask) :
        /\ ready' = rest \o xs
        /\ Free(xs, HandlersOf(d)) /\ Free(xs, ListenerOf(d)) /\ Free(xs, SendsTo(d, n))
        /\ value'[n] = value[n] \/ ~Free(xs, Broadcasts(n))
        /\ LastIn(xs, Broadcasts(n), Carries(value'[n]))
  <2>1. CASE ready' = rest /\ value' = value
    <3>1. <<>> \in Seq(ServerTask) /\ rest \o <<>> = rest
      BY <1>1, ConcatEmptySeq
    <3>2. /\ \A Z : Free(<<>>, Z)
          /\ \A Z, V : LastIn(<<>>, Z, V)
      BY DEF Free, LastIn
    <3>. QED
      BY <2>1, <3>1, <3>2
  <2>2. CASE m.name \in Served /\ ready' = Append(rest, t) /\ value' = [value EXCEPT ![m.name] = m.data]
    <3>1. /\ t \in ServerTask /\ t \notin HandlersOf(d) /\ t \notin SendsTo(d, n)
          /\ t \notin ListenerOf(d)
          /\ t \in Broadcasts(n) <=> m.name = n
          /\ t \in Carries(m.data)
      BY <1>2, <2>2, MessageTypes, TaskTypes
         DEF HandlersOf, SendsTo, Broadcasts, ListenerOf, Carries, Task, Msg
    <3>. HIDE DEF t
    <3>2. value'[n] = IF m.name = n THEN m.data ELSE value[n]
      BY <2>2 DEF TypeOK
    <3>3. /\ \A Z : Free(<<t>>, Z) <=> t \notin Z
          /\ \A Z, V : LastIn(<<t>>, Z, V) <=> (t \in Z => t \in V)
      BY LastOne
    <3>4. <<t>> \in Seq(ServerTask)
      BY <3>1
    <3>5. Append(rest, t) = rest \o <<t>>
      BY <1>1, <3>1, AppendIsConcat
    <3>6. LastIn(<<t>>, Broadcasts(n), Carries(value'[n]))
      BY <3>1, <3>2, <3>3
    <3>7. value'[n] = value[n] \/ ~Free(<<t>>, Broadcasts(n))
      BY <3>1, <3>2, <3>3
    <3>. QED
      BY <2>2, <3>1, <3>3, <3>4, <3>5, <3>6, <3>7
  <2>. QED
    BY <1>4, <2>1, <2>2
<1>6. h \notin Broadcasts(n) /\ h \notin SendsTo(d, n)
  BY <1>1 DEF Broadcasts, SendsTo
<1>7. ReadyTells(rest \o xs, d \in listeners[n], d, n, value'[n])
  <2>1. PICK B, S, H, L, G, G2 :
          /\ B = Broadcasts(n) /\ S = SendsTo(d, n) /\ H = HandlersOf(d)
          /\ L = ListenerOf(d) /\ G = Carries(value[n]) /\ G2 = Carries(value'[n])
    OBVIOUS
  <2>2. H \cap S = {} /\ H \cap B = {}
    BY <2>1, KindsDiffer
  <2>3. PICK reg : reg = (d \in listeners[n])
    OBVIOUS
  <2>4. /\ QueueTells(ready, reg, B, S, H, L, G)
        /\ Free(xs, H) /\ Free(xs, L) /\ Free(xs, S) /\ LastIn(xs, B, G2)
        /\ G2 = G \/ ~Free(xs, B)
        /\ h \notin B
    BY <1>5, <1>6, <2>1, <2>3 DEF Tells, ReadyTells
  <2>5. QueueTells(rest \o xs, reg, B, S, H, L, G2)
    BY <1>1, <2>2, <2>4, TellsRun
  <2>. QED
    BY <2>1, <2>3, <2>5 DEF ReadyTells
<1>8. ASSUME NothingLeft(rest \o xs, d, n)
      PROVE  NothingLeft(ready, d, n) /\ value'[n] = value[n]
  <2>1. /\ Free(rest, Broadcasts(n)) /\ Free(rest, SendsTo(d, n)) /\ Free(xs, Broadcasts(n))
    BY <1>1, <1>8, FreeConcat DEF NothingLeft
  <2>2. /\ Free(ready, Broadcasts(n)) <=> h \notin Broadcasts(n) /\ Free(rest, Broadcasts(n))
        /\ Free(ready, SendsTo(d, n)) <=> h \notin SendsTo(d, n) /\ Free(rest, SendsTo(d, n))
    BY <1>1, LastHead
  <2>. QED
    BY <1>5, <1>6, <2>1, <2>2 DEF NothingLeft
<1>. HIDE DEF rest
<1>. QED
  BY <1>3, <1>5, <1>7, <1>8 DEF Tells

\* The listener of connection c makes handlers of what client c has sent.
LEMMA TellsServerListen ==
  ASSUME TypeOK, NEW d \in Clients, NEW n \in Served, Tells(d, n), ServerListen
  PROVE  Tells(d, n)'
<1>. DEFINE h == Head(ready)
            c == h.conn
            rest == Tail(ready)
<1>1. /\ ready # <<>> /\ ready \in Seq(ServerTask) /\ h \in ServerTask
      /\ rest \in Seq(ServerTask) /\ h.kind = "listen" /\ c \in Clients
  BY ServerHead, TaskShapes DEF ServerStep, TypeOK, ServerListen, Serving
<1>2. /\ value' = value /\ listeners' = listeners /\ s2c' = s2c /\ queue' = queue
      /\ seen' = seen /\ closed' = closed
  BY DEF ServerListen, clientVars, history
<1>3. PICK k \in 1..Len(c2s[c]) :
        ready' = rest \o HandleAll("handle", c, c2s[c],
                                   IF c2s[c][k].command = "CLOSE" THEN k - 1 ELSE k)
  BY DEF ServerListen
<1>4. c2s[c] \in Seq(FromClient) /\ Len(c2s[c]) \in Nat
  BY <1>1, LenProperties DEF TypeOK
<1>5. PICK i : i = IF c2s[c][k].command = "CLOSE" THEN k - 1 ELSE k
  OBVIOUS
<1>6. i \in 0..Len(c2s[c])
  BY <1>4, <1>5
<1>7. PICK xs : xs = HandleAll("handle", c, c2s[c], i)
  OBVIOUS
<1>8. /\ xs \in Seq(ServerTask)
      /\ \A j \in DOMAIN xs : xs[j] \in HandlersOf(c)
  <2>1. \A x \in FromClient : Task("handle", c, x) \in ServerTask
    BY <1>1, TaskTypes
  <2>2. xs \in Seq(ServerTask)
    BY <1>4, <1>6, <1>7, <2>1, HandleAllType
  <2>3. \A j \in DOMAIN xs : xs[j] \in ServerTask
    BY <2>2, LenProperties, ElementOfSeq
  <2>. QED
    BY <1>7, <2>2, <2>3 DEF HandleAll, Task, HandlersOf
<1>9. /\ Free(xs, Broadcasts(n)) /\ Free(xs, SendsTo(d, n)) /\ Free(xs, ListenerOf(d))
      /\ c # d => Free(xs, HandlersOf(d))
  BY <1>8 DEF Free, HandlersOf, Broadcasts, SendsTo, ListenerOf
<1>10. h \notin Broadcasts(n) /\ h \notin SendsTo(d, n) /\ h \notin HandlersOf(d)
       /\ (c = d => h \in ListenerOf(d))
  BY <1>1 DEF Broadcasts, SendsTo, HandlersOf, ListenerOf
<1>11. ReadyTells(rest \o xs, d \in listeners[n], d, n, value[n])
  <2>1. PICK B, S, H, L, G : /\ B = Broadcasts(n) /\ S = SendsTo(d, n) /\ H = HandlersOf(d)
                             /\ L = ListenerOf(d) /\ G = Carries(value[n])
    OBVIOUS
  <2>2. H \cap S = {} /\ H \cap B = {} /\ H \cap L = {} /\ L \cap (B \cup S) = {}
    BY <2>1, KindsDiffer
  <2>3. PICK reg : reg = (d \in listeners[n])
    OBVIOUS
  <2>4. QueueTells(ready, reg, B, S, H, L, G)
    BY <2>1, <2>3 DEF Tells, ReadyTells
  <2>5. QueueTells(rest \o xs, reg, B, S, H, L, G)
    <3>1. CASE c = d
      <4>1. h \in L /\ \A j \in DOMAIN xs : xs[j] \in H
        BY <1>8, <1>10, <2>1, <3>1
      <4>. QED
        BY <1>1, <1>8, <2>2, <2>4, <4>1, TellsListen
    <3>2. CASE c # d
      <4>1. Free(xs, H) /\ Free(xs, L) /\ Free(xs, S) /\ Free(xs, B) /\ h \notin B
        BY <1>9, <1>10, <2>1, <3>2
      <4>2. LastIn(xs, B, G)
        BY <4>1 DEF LastIn, Free
      <4>. QED
        BY <1>1, <1>8, <2>2, <2>4, <4>1, <4>2, TellsRun
    <3>. QED
      BY <3>1, <3>2
  <2>. QED
    BY <2>1, <2>3, <2>5 DEF ReadyTells
<1>12. ASSUME NothingLeft(rest \o xs, d, n) PROVE NothingLeft(ready, d, n)
  <2>1. Free(rest, Broadcasts(n)) /\ Free(rest, SendsTo(d, n))
    BY <1>1, <1>8, <1>12, FreeConcat DEF NothingLeft
  <2>2. /\ Free(ready, Broadcasts(n)) <=> h \notin Broadcasts(n) /\ Free(rest, Broadcasts(n))
        /\ Free(ready, SendsTo(d, n)) <=> h \notin SendsTo(d, n) /\ Free(rest, SendsTo(d, n))
    BY <1>1, LastHead
  <2>. QED
    BY <1>10, <2>1, <2>2 DEF NothingLeft
<1>13. ready' = rest \o xs
  BY <1>3, <1>5, <1>7
<1>. HIDE DEF rest
<1>. QED
  BY <1>2, <1>11, <1>12, <1>13 DEF Tells

LEMMA TellsStep == TypeOK /\ EventInv /\ [Next]_vars => EventInv'
<1>. SUFFICES ASSUME TypeOK, EventInv, [Next]_vars, NEW d \in Clients, NEW n \in Served
              PROVE  Tells(d, n)'
  BY DEF EventInv
<1>1. Tells(d, n)
  BY DEF EventInv
<1>2. CASE UNCHANGED vars
  BY <1>1, <1>2 DEF Tells, vars, serverVars, clientVars, history
<1>3. CASE ServerStep
  BY <1>1, <1>3, TellsServerListen, TellsPropertySet, TellsServerRun, TellsBroadcast
     DEF ServerStep
<1>4. CASE \E m \in Served : ServerSet(m)
  BY <1>1, <1>4, TellsServerSet
<1>5. ASSUME NEW c \in Clients,
             \/ ClientStep(c) \/ Arrive(c) \/ Close(c)
             \/ \E m \in Names : Subscribe(c, m) \/ Unsubscribe(c, m) \/ Write(c, m)
             \/ \E m \in Names, r \in Readers : Read(c, m, r)
      PROVE  Tells(d, n)'
  BY <1>1, <1>5, TellsClientLoop, TellsArrive, TellsUserCalls DEF Arrive
<1>. QED
  BY <1>2, <1>3, <1>4, <1>5 DEF Next

\* The last event is the one LastOf chooses wherever there is one.
LEMMA LastEventTells ==
  ASSUME TypeOK, NEW c \in Clients, NEW n \in Served, Tells(c, n), c \in listeners[n] \ closed
  PROVE  LastEvent(c, n) = value[n]
<1>. DEFINE IsBroadcast(t) == t.kind = "broadcast" /\ t.msg.name = n
            IsSend(t)      == t.kind = "send" /\ t.conn = c /\ t.msg.name = n
            IsEvent(m)     == m.command = "EVENT" /\ m.name = n
            IsDispatch(t)  == t.kind = "dispatch" /\ IsEvent(t.msg)
<1>1. /\ ready \in Seq(ServerTask) /\ s2c[c] \in Seq(FromServer) /\ queue[c] \in Seq(ClientTask)
  BY DEF TypeOK
<1>2. /\ \A i \in DOMAIN ready : /\ ready[i] \in Broadcasts(n) <=> IsBroadcast(ready[i])
                                 /\ ready[i] \in SendsTo(c, n) <=> IsSend(ready[i])
      /\ \A i \in DOMAIN s2c[c] : s2c[c][i] \in EventsOf(n) <=> IsEvent(s2c[c][i])
      /\ \A i \in DOMAIN queue[c] : queue[c][i] \in DispatchesOf(n) <=> IsDispatch(queue[c][i])
  <2>1. \A i \in DOMAIN ready : ready[i] \in ServerTask
    BY <1>1, LenProperties, ElementOfSeq
  <2>2. \A i \in DOMAIN s2c[c] : s2c[c][i] \in FromServer
    BY <1>1, LenProperties, ElementOfSeq
  <2>3. \A i \in DOMAIN queue[c] : queue[c][i] \in ClientTask
    BY <1>1, LenProperties, ElementOfSeq
  <2>4. \A t \in ClientTask : t.kind = "dispatch" => t.msg \in FromServer
    BY TaskShapes
  <2>. QED
    BY <2>1, <2>2, <2>3, <2>4 DEF Broadcasts, SendsTo, EventsOf, DispatchesOf
<1>3. /\ Occurs(ready, IsBroadcast) <=> ~Free(ready, Broadcasts(n))
      /\ Occurs(ready, IsSend) <=> ~Free(ready, SendsTo(c, n))
      /\ Occurs(s2c[c], IsEvent) <=> ~Free(s2c[c], EventsOf(n))
      /\ Occurs(queue[c], IsDispatch) <=> ~Free(queue[c], DispatchesOf(n))
  BY <1>2 DEF Occurs, Free
<1>4. ~Free(ready, Broadcasts(n)) => LastOf(ready, IsBroadcast).msg.data = value[n]
  <2>1. LastIn(ready, Broadcasts(n), Carries(value[n]))
    BY DEF Tells, ReadyTells, QueueTells
  <2>. QED
    BY <1>1, <1>2, <2>1, LastExists DEF LastOf, LastIn, Carries
<1>5. LastIn(ready, SendsTo(c, n), Carries(value[n])) /\ ~Free(ready, SendsTo(c, n))
        => LastOf(ready, IsSend).msg.data = value[n]
  BY <1>1, <1>2, LastExists DEF LastOf, LastIn, Carries
<1>6. LastIn(s2c[c], EventsOf(n), Says(value[n])) /\ ~Free(s2c[c], EventsOf(n))
        => LastOf(s2c[c], IsEvent).data = value[n]
  BY SMTT(30), <1>1, <1>2, LastExists DEF LastOf, LastIn, Says
<1>7. LastIn(queue[c], DispatchesOf(n), Shows(value[n])) /\ ~Free(queue[c], DispatchesOf(n))
        => LastOf(queue[c], IsDispatch).msg.data = value[n]
  BY <1>1, <1>2, LastExists DEF LastOf, LastIn, Shows
<1>8. CASE ~Free(ready, Broadcasts(n))
  BY <1>3, <1>4, <1>8 DEF LastEvent
<1>9. CASE Free(ready, Broadcasts(n)) /\ ~Free(ready, SendsTo(c, n))
  <2>1. LastOf(ready, IsSend).msg.data = value[n]
    BY <1>5, <1>9 DEF Tells, ReadyTells, QueueTells
  <2>. QED
    BY <1>3, <1>9, <2>1 DEF LastEvent
<1>10. CASE NothingLeft(ready, c, n)
  <2>1. ChannelTells(s2c[c], queue[c], seen[c][n], n, value[n])
    BY <1>10 DEF Tells
  <2>2. ~Occurs(ready, IsBroadcast) /\ ~Occurs(ready, IsSend)
    BY <1>3, <1>10 DEF NothingLeft
  <2>3. (IF Occurs(s2c[c], IsEvent) THEN LastOf(s2c[c], IsEvent).data
         ELSE IF Occurs(queue[c], IsDispatch) THEN LastOf(queue[c], IsDispatch).msg.data
              ELSE seen[c][n]) = value[n]
    BY <1>3, <1>6, <1>7, <2>1 DEF ChannelTells
  <2>. QED
    BY <2>2, <2>3 DEF LastEvent
<1>. QED
  BY <1>8, <1>9, <1>10 DEF NothingLeft

\* For any number of clients and properties: however a registration races the
\* broadcasts and the sends it overtakes, the last event on its way to a
\* registered client carries the value the property has.
THEOREM Converge == Spec => []EventsConverge
<1>1. TypeOK /\ EventInv => EventsConverge
  <2>1. SUFFICES ASSUME TypeOK, EventInv, NEW n \in Served, NEW c \in listeners[n] \ closed
                 PROVE  LastEvent(c, n) = value[n]
    BY DEF EventsConverge
  <2>2. c \in Clients
    BY <2>1, SyncAssumption DEF TypeOK
  <2>. QED
    BY <2>1, <2>2, LastEventTells DEF EventInv
<1>2. Spec => []TypeOK
  BY TypeCorrect
<1>. QED
  BY <1>1, <1>2, TellsInit, TellsStep, PTL DEF Spec

(***************************************************************************)
(* The cache.  Where no read is in flight and no write is refused, a       *)
(* registered client whose cache differs from the last event it emitted    *)
(* has an event coming: its own write is on its way to the server, or what *)
(* the server makes of a write is on its way back.                         *)
(***************************************************************************)
\* No read is made, and no value is refused.
WritesOnly == Readers = {} /\ Refused = {}

SetsOf(n)      == {m \in FromClient : m.command = "CHAN_SEND" /\ m.name = n}
SetTasks(c, n) == {t \in ServerTask : t.kind = "handle" /\ t.conn = c /\ t.msg \in SetsOf(n)}

NothingComing(c, n) ==
  /\ NothingLeft(ready, c, n) /\ Free(ready, SetTasks(c, n)) /\ Free(c2s[c], SetsOf(n))
  /\ Free(s2c[c], EventsOf(n)) /\ Free(queue[c], DispatchesOf(n))
Cache(c, n) ==
  c \in listeners[n] \ closed /\ NothingComing(c, n) => table[c][n] = seen[c][n]
CacheInv == \A c \in Clients, n \in Served : Cache(c, n)

\* A queue that is free of a kind after a step was so before, unless the head
\* was of the kind.
LEMMA RunFree ==
  ASSUME NEW T, NEW Z, NEW q \in Seq(T), q # <<>>, NEW xs \in Seq(T)
  PROVE  Free(Tail(q) \o xs, Z) => Free(xs, Z) /\ (Head(q) \notin Z => Free(q, Z))
<1>1. Tail(q) \in Seq(T)
  BY HeadTailProperties
<1>2. PICK t : t = Tail(q)
  OBVIOUS
<1>3. Free(t \o xs, Z) <=> Free(t, Z) /\ Free(xs, Z)
  BY <1>1, <1>2, FreeConcat
<1>4. Free(q, Z) <=> Head(q) \notin Z /\ Free(t, Z)
  BY <1>2, LastHead
<1>. QED
  BY <1>2, <1>3, <1>4

LEMMA AppendFree ==
  ASSUME NEW T, NEW Z, NEW q \in Seq(T), NEW x \in T
  PROVE  Free(Append(q, x), Z) <=> x \notin Z /\ Free(q, Z)
BY LastAppend

LEMMA CacheInit == Init => CacheInv
BY SyncAssumption DEF Init, CacheInv, Cache

\* The user's calls: only a write touches the cache, and it sends the value.
LEMMA CacheUserCalls ==
  ASSUME TypeOK, WritesOnly, NEW d \in Clients, NEW n \in Served, Cache(d, n), NEW c \in Clients,
         \/ Close(c)
         \/ \E m \in Names : Subscribe(c, m) \/ Unsubscribe(c, m) \/ Write(c, m)
         \/ \E m \in Names, r \in Readers : Read(c, m, r)
  PROVE  Cache(d, n)'
<1>1. /\ ready' = ready /\ listeners' = listeners /\ queue' = queue /\ seen' = seen
  BY DEF Close, Subscribe, Unsubscribe, Write, Read, serverVars, history
<1>2. d \notin closed' => d \notin closed /\ s2c'[d] = s2c[d]
  <2>1. CASE s2c' = s2c /\ closed' = closed
    BY <2>1
  <2>2. CASE Close(c)
    BY <2>2 DEF Close, TypeOK
  <2>. QED
    BY <2>1, <2>2 DEF Subscribe, Unsubscribe, Write, Read
<1>3. c2s[d] \in Seq(FromClient) /\ n \in Names
  BY SyncAssumption DEF TypeOK
<1>4. PICK x \in FromClient : c2s' = c2s \/ (Request(c, x) /\ (Write(c, n) => x \in SetsOf(n)))
  <2>1. CASE Close(c)
    <3>1. Msg("CLOSE", None, None, 0) \in FromClient /\ ~Write(c, n)
      BY <2>1, MessageTypes DEF Close, Write, UserCall
    <3>. QED
      BY <2>1, <3>1 DEF Close
  <2>2. ASSUME NEW m \in Names, Write(c, m)
        PROVE  \E x \in FromClient : c2s' = c2s \/ (Request(c, x) /\ (Write(c, n) => x \in SetsOf(n)))
    <3>1. Msg("CHAN_SEND", m, writes + 1, 0) \in FromClient
      <4>1. writes + 1 \in Writes
        BY <2>2, SyncAssumption DEF Write, Writes, TypeOK
      <4>. QED
        BY <4>1, MessageTypes
    <3>2. CASE m = n \/ ~Write(c, n)
      <4>1. ~Write(c, n) \/ Msg("CHAN_SEND", m, writes + 1, 0) \in SetsOf(n)
        BY <3>1, <3>2 DEF SetsOf, Msg
      <4>. QED
        BY <2>2, <3>1, <4>1 DEF Write
    <3>3. CASE Write(c, n)
      <4>. DEFINE y == Msg("CHAN_SEND", n, writes + 1, 0)
      <4>0. writes + 1 \in Writes
        BY <3>3, SyncAssumption DEF Write, Writes, TypeOK
      <4>2. y \in FromClient
        BY <1>3, <4>0, MessageTypes
      <4>3. y.command = "CHAN_SEND" /\ y.name = n
        BY DEF Msg
      <4>. HIDE DEF y
      <4>1. y \in SetsOf(n)
        BY <4>2, <4>3 DEF SetsOf
      <4>. USE DEF y
      <4>. QED
        BY <3>3, <4>1, <4>2 DEF Write
    <3>. QED
      BY <3>2, <3>3
  <2>3. ASSUME NEW m \in Names, Subscribe(c, m) \/ Unsubscribe(c, m)
        PROVE  \E x \in FromClient : c2s' = c2s \/ (Request(c, x) /\ (Write(c, n) => x \in SetsOf(n)))
    <3>1. ~Write(c, n)
      BY <2>3 DEF Subscribe, Unsubscribe, Write, UserCall, TypeOK
    <3>2. /\ Msg("REGISTER", m, None, 0) \in FromClient
          /\ Msg("UNREGISTER", m, None, 0) \in FromClient
      BY MessageTypes DEF WatchCommands
    <3>. QED
      BY <2>3, <3>1, <3>2 DEF Subscribe, Unsubscribe
  <2>4. Readers = {}
    BY DEF WritesOnly
  <2>. QED
    BY <2>1, <2>2, <2>3, <2>4
<1>5. c2s'[d] = c2s[d] \/ c2s'[d] = Append(c2s[d], x)
  BY <1>4 DEF Request, TypeOK
<1>6. Free(c2s'[d], SetsOf(n)) => Free(c2s[d], SetsOf(n))
  BY <1>3, <1>5, AppendFree
<1>7. CASE c = d /\ Write(c, n)
  <2>1. c2s'[d] = Append(c2s[d], x) /\ x \in SetsOf(n)
    <3>1. c2s' # c2s
      <4>1. Request(c, Msg("CHAN_SEND", n, writes + 1, 0))
        BY <1>7 DEF Write
      <4>2. c2s'[c] = Append(c2s[c], Msg("CHAN_SEND", n, writes + 1, 0))
        BY <4>1 DEF Request, TypeOK
      <4>3. Msg("CHAN_SEND", n, writes + 1, 0) \in FromClient
        BY <1>3, <1>7, MessageTypes, SyncAssumption DEF Write, Writes, TypeOK
      <4>4. Len(c2s'[c]) = Len(c2s[c]) + 1 /\ Len(c2s[c]) \in Nat
        BY <1>3, <1>7, <4>2, <4>3, AppendProperties, LenProperties
      <4>. QED
        BY <4>4
    <3>. QED
      BY <1>4, <1>7, <3>1 DEF Request, TypeOK
  <2>2. ~Free(Append(c2s[d], x), SetsOf(n))
    BY <1>3, <2>1, AppendFree
  <2>. QED
    BY <2>1, <2>2 DEF Cache, NothingComing
<1>8. CASE ~(c = d /\ Write(c, n))
  <2>1. table'[d][n] = table[d][n]
    <3>1. CASE table' = table
      BY <3>1
    <3>2. ASSUME NEW m \in Names, Write(c, m) PROVE table'[d][n] = table[d][n]
      <4>1. table' = [table EXCEPT ![c][m] = writes + 1]
        BY <3>2 DEF Write
      <4>2. c # d \/ m # n
        BY <1>8, <3>2
      <4>3. table \in [Clients -> [Names -> Writes \cup {None}]]
        BY DEF TypeOK
      <4>. QED
        BY <1>3, <4>1, <4>2, <4>3
    <3>. QED
      BY <3>1, <3>2 DEF Close, Subscribe, Unsubscribe, Read
  <2>. QED
    BY <1>1, <1>2, <1>6, <2>1 DEF Cache, NothingComing
<1>. QED
  BY <1>7, <1>8

\* The client's event loop: an event sets the cache and is emitted at once.
LEMMA CacheClientLoop ==
  ASSUME TypeOK, WritesOnly, NEW d \in Clients, NEW n \in Served, Cache(d, n), NEW c \in Clients,
         ClientStep(c) \/ ClientArrive(c)
  PROVE  Cache(d, n)'
<1>1. /\ ready' = ready /\ listeners' = listeners /\ closed' = closed /\ c2s' = c2s
  <2>1. CASE ClientListen(c) \/ ClientArrive(c)
    BY <2>1 DEF ClientListen, ClientArrive, serverVars
  <2>2. CASE DispatchEvent(c)
    BY <2>2 DEF DispatchEvent, serverVars
  <2>3. CASE DispatchReply(c)
    BY <2>3 DEF DispatchReply, serverVars
  <2>4. CASE WakeRead(c)
    BY <2>4 DEF WakeRead, serverVars
  <2>. QED
    BY <2>1, <2>2, <2>3, <2>4 DEF ClientStep
<1>2. /\ s2c[d] \in Seq(FromServer) /\ queue[d] \in Seq(ClientTask)
      /\ n \in Names /\ s2c \in [Clients -> Seq(FromServer)] /\ queue \in [Clients -> Seq(ClientTask)]
      /\ seen \in [Clients -> [Names -> Writes \cup {None}]]
      /\ table \in [Clients -> [Names -> Writes \cup {None}]]
  BY SyncAssumption DEF TypeOK
<1>3. SUFFICES ASSUME Free(s2c'[d], EventsOf(n)), Free(queue'[d], DispatchesOf(n))
               PROVE  \/ /\ Free(s2c[d], EventsOf(n)) /\ Free(queue[d], DispatchesOf(n))
                         /\ table'[d][n] = table[d][n] /\ seen'[d][n] = seen[d][n]
                      \/ table'[d][n] = seen'[d][n]
  BY <1>1 DEF Cache, NothingComing
<1>4. ~DispatchReply(c) /\ ~WakeRead(c)
  <2>1. SUFFICES ASSUME DispatchReply(c) \/ WakeRead(c) PROVE FALSE
    OBVIOUS
  <2>2. queue[c] \in Seq(ClientTask) /\ queue[c] # <<>>
    <3>1. DispatchReply(c) => queue[c] # <<>>
      BY DEF DispatchReply, Running
    <3>2. WakeRead(c) => queue[c] # <<>>
      BY DEF WakeRead, Running
    <3>. QED
      BY <1>2, <2>1, <3>1, <3>2
  <2>3. Head(queue[c]) \in ClientTask
    BY <2>2, HeadTailProperties
  <2>4. CASE DispatchReply(c)
    <3>1. Head(queue[c]).kind = "dispatch" /\ Head(queue[c]).msg.command = "REPLY"
      BY <2>4 DEF DispatchReply, Running
    <3>. QED
      BY <2>3, <3>1, TaskShapes, MessageShapes DEF WritesOnly
  <2>5. CASE WakeRead(c)
    <3>1. Head(queue[c]).kind = "wake"
      BY <2>5 DEF WakeRead, Running
    <3>. QED
      BY <2>3, <3>1, TaskShapes, MessageShapes DEF WritesOnly
  <2>. QED
    BY <2>1, <2>4, <2>5
<1>5. CASE c # d
  BY <1>2, <1>3, <1>4, <1>5 DEF ClientStep, ClientListen, DispatchEvent, ClientArrive, history
<1>6. CASE c = d /\ ClientArrive(d)
  <2>. DEFINE t == Task("listen", d, NoMsg)
  <2>1. s2c' = s2c /\ seen' = seen /\ table' = table /\ queue'[d] = Append(queue[d], t)
    BY <1>2, <1>6 DEF ClientArrive, history
  <2>2. t \in ClientTask
    BY TaskTypes
  <2>. HIDE DEF t
  <2>. QED
    BY <1>2, <1>3, <2>1, <2>2, AppendFree
<1>7. CASE c = d /\ ClientListen(d)
  <2>1. PICK k \in IF s2c[d] = <<>> THEN {0} ELSE 1..Len(s2c[d]) :
          /\ queue'[d] = Tail(queue[d]) \o HandleAll("dispatch", d, s2c[d], k)
          /\ s2c'[d] = Drop(s2c[d], k)
    BY <1>2, <1>7 DEF ClientListen
  <2>2. queue[d] # <<>> /\ Head(queue[d]).kind = "listen" /\ seen' = seen /\ table' = table
    BY <1>7 DEF ClientListen, Running, history
  <2>3. k \in 0..Len(s2c[d])
    BY <1>2, LenProperties
  <2>4. PICK xs : xs = HandleAll("dispatch", d, s2c[d], k)
    OBVIOUS
  <2>5. \A m \in FromServer : Task("dispatch", d, m) \in ClientTask
    BY TaskTypes
  <2>6. xs \in Seq(ClientTask)
    BY <1>2, <2>3, <2>4, <2>5, HandleAllType
  <2>7. Free(xs, DispatchesOf(n)) /\ Free(queue[d], DispatchesOf(n))
    <3>1. Head(queue[d]) \notin DispatchesOf(n)
      BY <2>2 DEF DispatchesOf
    <3>. QED
      BY <1>2, <1>3, <2>1, <2>2, <2>4, <2>6, <3>1, RunFree
  <2>8. Free(SubSeq(s2c[d], 1, k), EventsOf(n))
    <3>1. PICK E, D : E = EventsOf(n) /\ D = DispatchesOf(n)
      OBVIOUS
    <3>2. \A m \in FromServer : Task("dispatch", d, m) \in D <=> m \in E
      BY <2>5, <3>1 DEF DispatchesOf, Task
    <3>3. Free(HandleAll("dispatch", d, s2c[d], k), D) <=> Free(SubSeq(s2c[d], 1, k), E)
      <4>1. PICK q : q = s2c[d]
        OBVIOUS
      <4>2. q \in Seq(FromServer) /\ k \in 0..Len(q)
        BY <1>2, <2>3, <4>1
      <4>3. Free(HandleAll("dispatch", d, q, k), D) <=> Free(SubSeq(q, 1, k), E)
        BY <3>2, <4>2, FreeHandleAll
      <4>. QED
        BY <4>1, <4>3
    <3>. QED
      BY <2>4, <2>7, <3>1, <3>3
  <2>9. Free(s2c[d], EventsOf(n))
    BY <1>2, <1>3, <2>1, <2>3, <2>8, LastPart
  <2>. QED
    BY <2>2, <2>7, <2>9
<1>8. CASE c = d /\ DispatchEvent(d)
  <2>. DEFINE m == Head(queue[d]).msg
  <2>1. /\ queue[d] # <<>> /\ Head(queue[d]).kind = "dispatch" /\ m.command = "EVENT"
        /\ s2c' = s2c /\ queue'[d] = Tail(queue[d])
        /\ seen' = [seen EXCEPT ![d][m.name] = m.data]
        /\ table' = [table EXCEPT ![d][m.name] = m.data]
    BY <1>2, <1>8 DEF DispatchEvent, Running
  <2>2. Head(queue[d]) \in ClientTask /\ Tail(queue[d]) \in Seq(ClientTask)
    BY <1>2, <2>1, HeadTailProperties
  <2>3. m \in FromServer /\ m.name \in Names
    BY <2>1, <2>2, TaskShapes, MessageShapes, SyncAssumption
  <2>4. CASE m.name = n
    BY <1>2, <2>1, <2>3, <2>4
  <2>5. CASE m.name # n
    <3>1. Head(queue[d]) \notin DispatchesOf(n)
      BY <2>5 DEF DispatchesOf, EventsOf
    <3>2. Free(queue[d], DispatchesOf(n))
      <4>1. Free(queue[d], DispatchesOf(n)) <=>
              Head(queue[d]) \notin DispatchesOf(n) /\ Free(Tail(queue[d]), DispatchesOf(n))
        BY <1>2, <2>1, LastHead
      <4>. QED
        BY <1>3, <2>1, <3>1, <4>1
    <3>3. table'[d][n] = table[d][n] /\ seen'[d][n] = seen[d][n]
      BY <1>2, <2>1, <2>3, <2>5
    <3>. QED
      BY <1>3, <2>1, <3>2, <3>3
  <2>. QED
    BY <2>4, <2>5
<1>. QED
  BY <1>4, <1>5, <1>6, <1>7, <1>8 DEF ClientStep

\* A server step whose head is none of the tasks the value is still on.
LEMMA NothingRun ==
  ASSUME NEW d, NEW n, ready \in Seq(ServerTask), ready # <<>>, NEW xs \in Seq(ServerTask),
         ready' = Tail(ready) \o xs,
         Head(ready) \notin Broadcasts(n), Head(ready) \notin SendsTo(d, n),
         Head(ready) \notin SetTasks(d, n),
         NothingLeft(ready', d, n), Free(ready', SetTasks(d, n))
  PROVE  NothingLeft(ready, d, n) /\ Free(ready, SetTasks(d, n))
<1>1. PICK B, S, W : B = Broadcasts(n) /\ S = SendsTo(d, n) /\ W = SetTasks(d, n)
  OBVIOUS
<1>2. Head(ready) \notin B /\ Head(ready) \notin S /\ Head(ready) \notin W
  BY <1>1
<1>3. Free(Tail(ready) \o xs, B) /\ Free(Tail(ready) \o xs, S) /\ Free(Tail(ready) \o xs, W)
  BY <1>1 DEF NothingLeft
<1>4. Free(ready, B) /\ Free(ready, S) /\ Free(ready, W)
  BY <1>2, <1>3, RunFree
<1>. QED
  BY <1>1, <1>4 DEF NothingLeft

LEMMA NothingAppend ==
  ASSUME NEW d, NEW n, ready \in Seq(ServerTask), NEW t \in ServerTask,
         NothingLeft(Append(ready, t), d, n), Free(Append(ready, t), SetTasks(d, n))
  PROVE  NothingLeft(ready, d, n) /\ Free(ready, SetTasks(d, n))
<1>1. PICK B, S, W : B = Broadcasts(n) /\ S = SendsTo(d, n) /\ W = SetTasks(d, n)
  OBVIOUS
<1>2. Free(Append(ready, t), B) /\ Free(Append(ready, t), S) /\ Free(Append(ready, t), W)
  BY <1>1 DEF NothingLeft
<1>3. Free(ready, B) /\ Free(ready, S) /\ Free(ready, W)
  BY <1>2, AppendFree
<1>. QED
  BY <1>1, <1>3 DEF NothingLeft

\* Bytes arrive, or the server's program sets a property.
LEMMA CacheArriveOrSet ==
  ASSUME TypeOK, NEW d \in Clients, NEW n \in Served, Cache(d, n),
         (\E c \in Clients : ServerArrive(c)) \/ (\E m \in Served : ServerSet(m))
  PROVE  Cache(d, n)'
<1>1. /\ listeners' = listeners /\ s2c' = s2c /\ c2s' = c2s /\ queue' = queue /\ seen' = seen
      /\ closed' = closed /\ table' = table
  BY DEF ServerArrive, ServerSet, clientVars, history
<1>2. ready \in Seq(ServerTask)
  BY DEF TypeOK
<1>3. ready' = ready \/ \E t \in ServerTask : ready' = Append(ready, t)
  <2>1. ASSUME NEW c \in Clients, ServerArrive(c) PROVE \E t \in ServerTask : ready' = Append(ready, t)
    <3>1. Task("listen", c, NoMsg) \in ServerTask
      BY TaskTypes
    <3>. QED
      BY <2>1, <3>1 DEF ServerArrive
  <2>2. ASSUME NEW m \in Served, ServerSet(m)
        PROVE  ready' = ready \/ \E t \in ServerTask : ready' = Append(ready, t)
    <3>1. writes + 1 \in Writes
      BY <2>2, SyncAssumption DEF ServerSet, Writes, TypeOK
    <3>2. Task("broadcast", None, Msg("EVENT", m, writes + 1, 0)) \in ServerTask
      BY <3>1, MessageTypes, TaskTypes
    <3>. QED
      BY <2>2, <3>2 DEF ServerSet, Assign
  <2>. QED
    BY <2>1, <2>2
<1>4. NothingLeft(ready', d, n) /\ Free(ready', SetTasks(d, n))
        => NothingLeft(ready, d, n) /\ Free(ready, SetTasks(d, n))
  <2>1. CASE ready' = ready
    BY <2>1
  <2>2. ASSUME NEW t \in ServerTask, ready' = Append(ready, t)
        PROVE  NothingLeft(ready', d, n) /\ Free(ready', SetTasks(d, n))
                 => NothingLeft(ready, d, n) /\ Free(ready, SetTasks(d, n))
    BY <1>2, <2>2, NothingAppend
  <2>. QED
    BY <1>3, <2>1, <2>2
<1>. QED
  BY <1>1, <1>4 DEF Cache, NothingComing

\* on_property_set: what it accepts it broadcasts.
LEMMA CachePropertySet ==
  ASSUME TypeOK, WritesOnly, NEW d \in Clients, NEW n \in Served, Cache(d, n), OnPropertySet
  PROVE  Cache(d, n)'
<1>. DEFINE h == Head(ready)
            m == h.msg
            t == Task("broadcast", None, Msg("EVENT", m.name, m.data, 0))
<1>1. /\ ready # <<>> /\ ready \in Seq(ServerTask) /\ h \in ServerTask
      /\ Tail(ready) \in Seq(ServerTask) /\ h.kind = "handle" /\ m.command = "CHAN_SEND"
  BY ServerHead DEF ServerStep, TypeOK, OnPropertySet, Handling, Serving
<1>2. m.name \in Names /\ m.data \in Writes
  BY <1>1, TaskShapes, MessageShapes
<1>3. /\ listeners' = listeners /\ s2c' = s2c /\ c2s' = c2s /\ queue' = queue /\ seen' = seen
      /\ closed' = closed /\ table' = table
  BY DEF OnPropertySet, clientVars, history
<1>4. m.data \notin Refused
  BY DEF WritesOnly
<1>5. CASE m.name \in Served
  <2>1. t \in ServerTask /\ (m.name = n => t \in Broadcasts(n))
    <3>1. t \in ServerTask
      BY <1>2, <1>5, MessageTypes, TaskTypes
    <3>. QED
      BY <3>1 DEF Broadcasts, Task, Msg
  <2>2. ready' = Append(Tail(ready), t)
    BY <1>4, <1>5 DEF OnPropertySet, Assign
  <2>. HIDE DEF t
  <2>3. ready' = Tail(ready) \o <<t>> /\ <<t>> \in Seq(ServerTask)
    <3>1. <<t>> \in Seq(ServerTask)
      BY <2>1
    <3>2. Append(Tail(ready), t) = Tail(ready) \o <<t>>
      BY <1>1, <2>1, AppendIsConcat
    <3>. QED
      BY <2>2, <3>1, <3>2
  <2>4. CASE m.name = n
    <3>1. ~Free(Append(Tail(ready), t), Broadcasts(n))
      BY <1>1, <2>1, <2>4, AppendFree
    <3>. QED
      BY <2>2, <3>1 DEF Cache, NothingComing, NothingLeft
  <2>5. CASE m.name # n
    <3>1. h \notin Broadcasts(n) /\ h \notin SendsTo(d, n) /\ h \notin SetTasks(d, n)
      BY <1>1, <2>5 DEF Broadcasts, SendsTo, SetTasks, SetsOf
    <3>2. NothingLeft(ready', d, n) /\ Free(ready', SetTasks(d, n))
            => NothingLeft(ready, d, n) /\ Free(ready, SetTasks(d, n))
      BY <1>1, <2>3, <3>1, NothingRun
    <3>. QED
      BY <1>3, <3>2 DEF Cache, NothingComing
  <2>. QED
    BY <2>4, <2>5
<1>6. CASE m.name \notin Served
  <2>1. h \notin Broadcasts(n) /\ h \notin SendsTo(d, n) /\ h \notin SetTasks(d, n)
    BY <1>1, <1>6 DEF Broadcasts, SendsTo, SetTasks, SetsOf
  <2>2. ready' = Tail(ready)
    BY <1>6 DEF OnPropertySet
  <2>3. <<>> \in Seq(ServerTask) /\ ready' = Tail(ready) \o <<>>
    BY <1>1, <2>2, ConcatEmptySeq
  <2>4. NothingLeft(ready', d, n) /\ Free(ready', SetTasks(d, n))
          => NothingLeft(ready, d, n) /\ Free(ready, SetTasks(d, n))
    BY <1>1, <2>1, <2>3, NothingRun
  <2>. QED
    BY <1>3, <2>4 DEF Cache, NothingComing
<1>. QED
  BY <1>5, <1>6

\* A registration and a send put the event into the channel.
LEMMA CacheServerRun ==
  ASSUME TypeOK, WritesOnly, NEW d \in Clients, NEW n \in Served, Cache(d, n),
         OnPropertyGet \/ OnPropertyWatch \/ OnPropertyUnwatch \/ PropSend
  PROVE  Cache(d, n)'
<1>. DEFINE h == Head(ready)
<1>1. /\ ready # <<>> /\ ready \in Seq(ServerTask) /\ h \in ServerTask
      /\ Tail(ready) \in Seq(ServerTask)
  BY ServerHead DEF ServerStep, TypeOK
<1>2. /\ ready' = Tail(ready) /\ c2s' = c2s /\ queue' = queue /\ seen' = seen
      /\ closed' = closed /\ table' = table
  BY DEF OnPropertyGet, OnPropertyWatch, OnPropertyUnwatch, PropSend, clientVars, history
<1>3. /\ n \in Names /\ listeners \in [Names -> SUBSET Clients]
      /\ s2c[d] \in Seq(FromServer)
  BY SyncAssumption DEF TypeOK
<1>4. SUFFICES ASSUME d \in listeners'[n] \ closed, NothingLeft(ready', d, n),
                      Free(ready', SetTasks(d, n)), Free(s2c'[d], EventsOf(n))
               PROVE  d \in listeners[n] /\ NothingLeft(ready, d, n)
                      /\ Free(ready, SetTasks(d, n)) /\ Free(s2c[d], EventsOf(n))
  BY <1>2 DEF Cache, NothingComing
<1>5. h \notin Broadcasts(n) /\ h \notin SetTasks(d, n)
  BY DEF Broadcasts, SetTasks, SetsOf, OnPropertyGet, OnPropertyWatch, OnPropertyUnwatch,
     PropSend, Handling, Serving
<1>6. h \notin SendsTo(d, n) => NothingLeft(ready, d, n) /\ Free(ready, SetTasks(d, n))
  <2>1. <<>> \in Seq(ServerTask) /\ ready' = Tail(ready) \o <<>>
    BY <1>1, <1>2, ConcatEmptySeq
  <2>. QED
    BY <1>1, <1>4, <1>5, <2>1, NothingRun
<1>7. ~OnPropertyGet
  <2>1. SUFFICES ASSUME OnPropertyGet PROVE FALSE
    OBVIOUS
  <2>2. h.kind = "handle" /\ h.msg.command = "CHAN_READ"
    BY <2>1 DEF OnPropertyGet, Handling, Serving
  <2>. QED
    BY <1>1, <2>2, TaskShapes, MessageShapes DEF WritesOnly
<1>8. \A m \in FromServer : s2c'[d] = Append(s2c[d], m)
        => m \notin EventsOf(n) /\ Free(s2c[d], EventsOf(n))
  BY <1>3, <1>4, AppendFree
<1>9. CASE OnPropertyWatch
  <2>1. h.kind = "handle" /\ h.msg.command = "REGISTER"
    BY <1>9 DEF OnPropertyWatch, Handling, Serving
  <2>2. h.conn \in Clients /\ h.msg.name \in Names
    BY <1>1, <2>1, TaskShapes, MessageShapes DEF WatchCommands
  <2>3. h \notin SendsTo(d, n)
    BY <2>1 DEF SendsTo
  <2>4. CASE h.msg.name \in Served
    <3>. DEFINE m == Msg("EVENT", h.msg.name, value[h.msg.name], 0)
    <3>1. m \in FromServer /\ Deliver(h.conn, m)
      BY <1>9, <2>4, MessageTypes DEF OnPropertyWatch, FromServer, TypeOK
    <3>2. h.msg.name = n => m \in EventsOf(n)
      BY <3>1 DEF EventsOf, Msg
    <3>. HIDE DEF m
    <3>3. s2c'[d] = IF h.conn = d THEN Append(s2c[d], m) ELSE s2c[d]
      BY <1>4, <2>2, <3>1, Delivered
    <3>4. ~(h.conn = d /\ h.msg.name = n) /\ Free(s2c[d], EventsOf(n))
      BY <1>4, <1>8, <3>1, <3>2, <3>3
    <3>5. d \in listeners[n]
      BY <1>3, <1>4, <1>9, <3>4 DEF OnPropertyWatch
    <3>. QED
      BY <1>6, <2>3, <3>4, <3>5
  <2>5. CASE h.msg.name \notin Served
    <3>1. s2c' = s2c /\ h.msg.name # n
      BY <1>9, <2>5 DEF OnPropertyWatch
    <3>2. d \in listeners[n]
      BY <1>3, <1>4, <1>9, <3>1 DEF OnPropertyWatch
    <3>. QED
      BY <1>4, <1>6, <2>3, <3>1, <3>2
  <2>. QED
    BY <2>4, <2>5
<1>10. CASE OnPropertyUnwatch
  <2>1. s2c' = s2c /\ h \notin SendsTo(d, n)
    BY <1>10 DEF OnPropertyUnwatch, Handling, Serving, SendsTo
  <2>2. d \in listeners[n]
    BY <1>3, <1>4, <1>10 DEF OnPropertyUnwatch
  <2>. QED
    BY <1>4, <1>6, <2>1, <2>2
<1>11. CASE PropSend
  <2>1. h.kind = "send" /\ h.conn \in Clients /\ h.msg \in EventMessage
    BY <1>1, <1>11, TaskShapes DEF PropSend, Serving
  <2>2. h.msg \in FromServer /\ Deliver(h.conn, h.msg) /\ listeners' = listeners
    BY <1>11, <2>1 DEF FromServer, PropSend
  <2>3. h \in SendsTo(d, n) => h.conn = d /\ h.msg \in EventsOf(n)
    BY <2>1, <2>2 DEF SendsTo, EventsOf, EventMessage, Shape
  <2>4. s2c'[d] = IF h.conn = d THEN Append(s2c[d], h.msg) ELSE s2c[d]
    BY <1>4, <2>1, <2>2, Delivered
  <2>5. h \notin SendsTo(d, n) /\ Free(s2c[d], EventsOf(n))
    BY <1>4, <1>8, <2>2, <2>3, <2>4
  <2>. QED
    BY <1>4, <1>6, <2>2, <2>5
<1>. QED
  BY <1>7, <1>9, <1>10, <1>11

\* A broadcast leaves a send to every client that is registered.
LEMMA CacheBroadcast ==
  ASSUME TypeOK, NEW d \in Clients, NEW n \in Served, Cache(d, n), Broadcast
  PROVE  Cache(d, n)'
<1>. DEFINE h == Head(ready)
            m == h.msg
<1>1. /\ ready # <<>> /\ ready \in Seq(ServerTask) /\ h \in ServerTask
      /\ Tail(ready) \in Seq(ServerTask) /\ h.kind = "broadcast"
  BY ServerHead DEF ServerStep, TypeOK, Broadcast, Serving
<1>2. m \in EventMessage /\ m.name \in Served /\ m.name \in Names
  BY <1>1, TaskShapes, MessageShapes, SyncAssumption
<1>3. PICK order \in SetToSeqs(listeners[m.name]) :
        ready' = Tail(ready) \o [i \in DOMAIN order |-> Task("send", order[i], m)]
  BY DEF Broadcast
<1>4. /\ listeners' = listeners /\ s2c' = s2c /\ c2s' = c2s /\ queue' = queue
      /\ seen' = seen /\ closed' = closed /\ table' = table
  BY DEF Broadcast, clientVars, history
<1>5. PICK xs : xs = [i \in DOMAIN order |-> Task("send", order[i], m)]
  OBVIOUS
<1>6. listeners[m.name] \in SUBSET Clients
  BY <1>2 DEF TypeOK
<1>7. /\ xs \in Seq(ServerTask)
      /\ \A c \in listeners[m.name] : \E i \in DOMAIN order : order[i] = c
  BY <1>2, <1>5, <1>6, SendTasks
<1>8. DOMAIN xs = DOMAIN order /\ \A i \in DOMAIN xs : xs[i] = Task("send", order[i], m)
  BY <1>5
<1>9. \A i \in DOMAIN xs : xs[i] \in ServerTask
  BY <1>7, LenProperties, ElementOfSeq
<1>10. m.name = n /\ d \in listeners[n] => ~Free(xs, SendsTo(d, n))
  <2>1. SUFFICES ASSUME m.name = n, d \in listeners[n] PROVE ~Free(xs, SendsTo(d, n))
    OBVIOUS
  <2>2. PICK i \in DOMAIN xs : order[i] = d
    BY <1>7, <1>8, <2>1
  <2>3. xs[i] \in SendsTo(d, n)
    BY <1>8, <1>9, <2>1, <2>2 DEF SendsTo, Task
  <2>. QED
    BY <2>3 DEF Free
<1>11. ready' = Tail(ready) \o xs
  BY <1>3, <1>5
<1>12. SUFFICES ASSUME d \in listeners[n], NothingLeft(ready', d, n), Free(ready', SetTasks(d, n))
                PROVE  NothingLeft(ready, d, n) /\ Free(ready, SetTasks(d, n))
  BY <1>4 DEF Cache, NothingComing
<1>13. m.name # n
  <2>1. PICK S : S = SendsTo(d, n)
    OBVIOUS
  <2>2. Free(Tail(ready) \o xs, S)
    BY <1>11, <1>12, <2>1 DEF NothingLeft
  <2>3. Free(xs, S)
    BY <1>1, <1>7, <2>2, RunFree
  <2>. QED
    BY <1>10, <1>12, <2>1, <2>3
<1>14. h \notin Broadcasts(n) /\ h \notin SendsTo(d, n) /\ h \notin SetTasks(d, n)
  BY <1>1, <1>13 DEF Broadcasts, SendsTo, SetTasks
<1>. QED
  BY <1>1, <1>7, <1>11, <1>12, <1>14, NothingRun

\* The listener makes a handler of every write it takes from the channel.
LEMMA CacheServerListen ==
  ASSUME TypeOK, NEW d \in Clients, NEW n \in Served, Cache(d, n), ServerListen
  PROVE  Cache(d, n)'
<1>. DEFINE h == Head(ready)
            c == h.conn
<1>1. /\ ready # <<>> /\ ready \in Seq(ServerTask) /\ h \in ServerTask
      /\ Tail(ready) \in Seq(ServerTask) /\ h.kind = "listen" /\ c \in Clients
  BY ServerHead, TaskShapes DEF ServerStep, TypeOK, ServerListen, Serving
<1>2. /\ listeners' = listeners /\ s2c' = s2c /\ queue' = queue
      /\ seen' = seen /\ closed' = closed /\ table' = table
  BY DEF ServerListen, clientVars, history
<1>3. PICK k \in 1..Len(c2s[c]) :
        /\ ready' = Tail(ready) \o HandleAll("handle", c, c2s[c],
                                   IF c2s[c][k].command = "CLOSE" THEN k - 1 ELSE k)
        /\ c2s' = [c2s EXCEPT ![c] = Drop(@, k)]
  BY DEF ServerListen
<1>4. /\ c2s[c] \in Seq(FromClient) /\ Len(c2s[c]) \in Nat
      /\ c2s \in [Clients -> Seq(FromClient)]
  BY <1>1, LenProperties DEF TypeOK
<1>5. PICK i : i = IF c2s[c][k].command = "CLOSE" THEN k - 1 ELSE k
  OBVIOUS
<1>6. i \in 0..Len(c2s[c]) /\ k \in 0..Len(c2s[c])
  BY <1>4, <1>5
<1>7. PICK xs : xs = HandleAll("handle", c, c2s[c], i)
  OBVIOUS
<1>8. \A x \in FromClient : Task("handle", c, x) \in ServerTask
  BY <1>1, TaskTypes
<1>9. xs \in Seq(ServerTask)
  BY <1>4, <1>6, <1>7, <1>8, HandleAllType
<1>10. ready' = Tail(ready) \o xs
  BY <1>3, <1>5, <1>7
<1>11. SUFFICES ASSUME NothingLeft(ready', d, n), Free(ready', SetTasks(d, n)),
                       Free(c2s'[d], SetsOf(n))
                PROVE  /\ NothingLeft(ready, d, n) /\ Free(ready, SetTasks(d, n))
                       /\ Free(c2s[d], SetsOf(n))
  BY <1>2 DEF Cache, NothingComing
<1>12. h \notin Broadcasts(n) /\ h \notin SendsTo(d, n) /\ h \notin SetTasks(d, n)
  BY <1>1 DEF Broadcasts, SendsTo, SetTasks
<1>13. NothingLeft(ready, d, n) /\ Free(ready, SetTasks(d, n))
  BY <1>1, <1>9, <1>10, <1>11, <1>12, NothingRun
<1>14. CASE c # d
  BY <1>3, <1>4, <1>11, <1>13, <1>14
<1>15. CASE c = d
  <2>1. PICK s, E, D : s = c2s[d] /\ E = SetsOf(n) /\ D = SetTasks(d, n)
    OBVIOUS
  <2>2. /\ s \in Seq(FromClient) /\ i \in 0..Len(s) /\ k \in 1..Len(s) /\ k \in 0..Len(s)
        /\ Len(s) \in Nat /\ c2s'[d] = Drop(s, k) /\ xs = HandleAll("handle", d, s, i)
        /\ i = IF s[k].command = "CLOSE" THEN k - 1 ELSE k
    BY <1>3, <1>4, <1>5, <1>6, <1>7, <1>15, <2>1
  <2>3. Free(xs, D)
    <3>1. Free(Tail(ready) \o xs, D)
      BY <1>10, <1>11, <2>1
    <3>. QED
      BY <1>1, <1>9, <3>1, RunFree
  <2>4. \A m \in FromClient : Task("handle", d, m) \in D <=> m \in E
    BY <1>8, <1>15, <2>1 DEF SetTasks, Task
  <2>5. Free(SubSeq(s, 1, i), E)
    BY <2>2, <2>3, <2>4, FreeHandleAll
  <2>6. \A j \in 1..i : s[j] \notin E
    <3>1. DOMAIN SubSeq(s, 1, i) = 1..i /\ \A j \in 1..i : SubSeq(s, 1, i)[j] = s[j]
      BY <2>2
    <3>. QED
      BY <2>5, <3>1 DEF Free
  <2>7. s[k].command = "CLOSE" => s[k] \notin E
    BY <2>1 DEF SetsOf
  <2>8. \A j \in 1..k : s[j] \notin E
    <3>1. CASE i = k
      BY <2>6, <3>1
    <3>2. CASE i = k - 1 /\ s[k] \notin E
      <4>1. \A j \in 1..k : j = k \/ j \in 1..i
        BY <2>2, <3>2
      <4>. QED
        BY <2>6, <3>2, <4>1
    <3>. QED
      BY <2>2, <2>7, <3>1, <3>2
  <2>9. Free(SubSeq(s, 1, k), E)
    <3>1. DOMAIN SubSeq(s, 1, k) = 1..k /\ \A j \in 1..k : SubSeq(s, 1, k)[j] = s[j]
      BY <2>2
    <3>. QED
      BY <2>8, <3>1 DEF Free
  <2>10. Free(Drop(s, k), E)
    BY <1>11, <2>1, <2>2
  <2>11. Free(s, E)
    BY <2>2, <2>9, <2>10, LastPart
  <2>. QED
    BY <1>13, <2>1, <2>11
<1>. QED
  BY <1>14, <1>15

LEMMA CacheStep == TypeOK /\ WritesOnly /\ CacheInv /\ [Next]_vars => CacheInv'
<1>. SUFFICES ASSUME TypeOK, WritesOnly, CacheInv, [Next]_vars, NEW d \in Clients, NEW n \in Served
              PROVE  Cache(d, n)'
  BY DEF CacheInv
<1>1. Cache(d, n)
  BY DEF CacheInv
<1>2. CASE UNCHANGED vars
  BY <1>1, <1>2 DEF Cache, NothingComing, NothingLeft, vars, serverVars, clientVars, history
<1>3. CASE ServerStep
  BY <1>1, <1>3, CacheServerListen, CachePropertySet, CacheServerRun, CacheBroadcast
     DEF ServerStep
<1>4. CASE \E m \in Served : ServerSet(m)
  BY <1>1, <1>4, CacheArriveOrSet
<1>5. ASSUME NEW c \in Clients,
             \/ ClientStep(c) \/ Arrive(c) \/ Close(c)
             \/ \E m \in Names : Subscribe(c, m) \/ Unsubscribe(c, m) \/ Write(c, m)
             \/ \E m \in Names, r \in Readers : Read(c, m, r)
      PROVE  Cache(d, n)'
  <2>1. CASE ClientStep(c) \/ ClientArrive(c)
    BY <1>1, <2>1, CacheClientLoop
  <2>2. CASE ServerArrive(c)
    BY <1>1, <2>2, CacheArriveOrSet
  <2>3. CASE \/ Close(c)
             \/ \E m \in Names : Subscribe(c, m) \/ Unsubscribe(c, m) \/ Write(c, m)
             \/ \E m \in Names, r \in Readers : Read(c, m, r)
    BY <1>1, <2>3, CacheUserCalls
  <2>. QED
    BY <1>5, <2>1, <2>2, <2>3 DEF Arrive
<1>. QED
  BY <1>2, <1>3, <1>4, <1>5 DEF Next

\* When nothing is on its way, the registration, the last event and the cache
\* say the same.
LEMMA Settled ==
  ASSUME TypeOK, WatchAgreement, EventInv, CacheInv, Quiescent,
         NEW c \in Clients \ closed, NEW n \in Served, Subscribed(c, n)
  PROVE  table[c][n] = value[n]
<1>1. n \in Names
  BY SyncAssumption
<1>2. ready = <<>> /\ c2s[c] = <<>> /\ s2c[c] = <<>> /\ queue[c] = <<>>
  BY DEF Quiescent
<1>3. \A Z : Free(<<>>, Z)
  BY DEF Free
<1>4. c \in listeners[n]
  <2>1. Agree(<<>>, <<>>, c \in listeners[n], Subscribed(c, n), c, n)
    BY <1>1, <1>2 DEF WatchAgreement
  <2>2. NoWatchMsg(<<>>, n) /\ NoWatchTask(<<>>, c, n)
    BY EmptySeq DEF NoWatchMsg, NoWatchTask
  <2>. QED
    BY <2>1, <2>2 DEF Agree
<1>5. seen[c][n] = value[n]
  <2>1. ChannelTells(<<>>, <<>>, seen[c][n], n, value[n])
    BY <1>2, <1>3, <1>4 DEF EventInv, Tells, NothingLeft
  <2>. QED
    BY <1>3, <2>1 DEF ChannelTells
<1>6. table[c][n] = seen[c][n]
  BY <1>2, <1>3, <1>4 DEF CacheInv, Cache, NothingComing, NothingLeft
<1>. QED
  BY <1>5, <1>6

\* For any number of clients and properties, as long as nothing is read past
\* the cache and nothing written is refused: when everything has settled, what
\* get() returns from the cache of a subscribed client is the server's value,
\* although write() changes the cache before the server has seen the value.
THEOREM CacheSettles ==
  ASSUME WritesOnly
  PROVE  Spec => []GetReturnsServerValue
<1>1. TypeOK /\ WatchAgreement /\ EventInv /\ CacheInv => GetReturnsServerValue
  <2>1. SUFFICES ASSUME TypeOK, WatchAgreement, EventInv, CacheInv, Quiescent,
                        NEW c \in Clients \ closed, NEW n \in Served, Cached(c, n) # None
                 PROVE  Cached(c, n) = value[n]
    BY DEF GetReturnsServerValue
  <2>2. Subscribed(c, n) /\ Cached(c, n) = table[c][n]
    BY <2>1 DEF Cached
  <2>. QED
    BY <2>1, <2>2, Settled
<1>2. TypeOK /\ CacheInv /\ [Next]_vars => CacheInv'
  BY CacheStep
<1>3. Spec => []TypeOK
  BY TypeCorrect
<1>4. Spec => []WatchAgreement
  BY Agreement
<1>. QED
  BY <1>1, <1>2, <1>3, <1>4, TellsInit, TellsStep, CacheInit, PTL DEF Spec
================================================================================
