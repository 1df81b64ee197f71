--------------------------- MODULE PropertyReadProofs ---------------------------
(***************************************************************************)
(* Proofs about the reads of PropertySync: what a read returns is no older *)
(* than the call, and no older than what the same client wrote before.     *)
(*                                                                         *)
(* A read is a message to the server, then a handler in the server's ready *)
(* queue, then a message to the client, then a task in the client's; in    *)
(* each channel and queue it keeps its place behind the writes that were   *)
(* sent before it.                                                         *)
(***************************************************************************)
EXTENDS PropertySyncProofs

(***************************************************************************)
(* A channel and the queue its listener moves it to.  S and Z are kinds of *)
(* messages, ST and ZT the tasks made of them: no member of Z stands       *)
(* behind a member of S, in the channel, in the queue, or across the two.  *)
(* With S = Z there is at most one such message or task.                   *)
(***************************************************************************)
InLine(chan, q, S, ST, Z, ZT) ==
  /\ NoneBehind(chan, S, Z) /\ NoneBehind(q, ST, ZT)
  /\ Free(q, ST) \/ Free(chan, Z)

LEMMA FreeSubset ==
  ASSUME NEW q, NEW Z, NEW Y, Y \subseteq Z, Free(q, Z)
  PROVE  Free(q, Y)
BY DEF Free

LEMMA NoneBehindOne ==
  ASSUME NEW x, NEW S, NEW Z
  PROVE  NoneBehind(<<x>>, S, Z)
<1>1. DOMAIN <<x>> = {1}
  OBVIOUS
<1>. QED
  BY <1>1 DEF NoneBehind

\* A message goes into the channel.
LEMMA InLineAppend ==
  ASSUME NEW M, NEW S, NEW ST, NEW Z, NEW ZT, NEW q, NEW chan \in Seq(M), NEW x \in M,
         InLine(chan, q, S, ST, Z, ZT),
         x \notin Z \/ (Free(chan, S) /\ Free(q, ST))
  PROVE  InLine(Append(chan, x), q, S, ST, Z, ZT)
<1>1. PICK s : s = <<x>>
  OBVIOUS
<1>2. s \in Seq(M) /\ Append(chan, x) = chan \o s
  BY <1>1, AppendIsConcat
<1>3. Free(s, Z) <=> x \notin Z
  BY <1>1, LastOne
<1>4. NoneBehind(s, S, Z)
  BY <1>1, NoneBehindOne
<1>5. NoneBehind(chan \o s, S, Z)
  <2>1. /\ NoneBehind(chan, S, Z) /\ Free(s, Z) => NoneBehind(chan \o s, S, Z)
        /\ Free(chan, S) /\ NoneBehind(s, S, Z) => NoneBehind(chan \o s, S, Z)
    BY <1>2, NoneBehindConcat
  <2>. QED
    BY <1>3, <1>4, <2>1 DEF InLine
<1>6. Free(chan \o s, Z) <=> Free(chan, Z) /\ Free(s, Z)
  BY <1>2, FreeConcat
<1>. QED
  BY <1>2, <1>3, <1>5, <1>6 DEF InLine

\* The queue runs its head, or not, and other tasks are put behind.
LEMMA InLineRun ==
  ASSUME NEW T, NEW S, NEW ST, NEW Z, NEW ZT, NEW chan, NEW q \in Seq(T), NEW xs \in Seq(T),
         InLine(chan, q, S, ST, Z, ZT), Free(xs, ST), Free(xs, ZT)
  PROVE  /\ InLine(chan, q \o xs, S, ST, Z, ZT)
         /\ q # <<>> => InLine(chan, Tail(q) \o xs, S, ST, Z, ZT)
<1>1. ASSUME NEW p \in Seq(T), NoneBehind(p, ST, ZT), Free(p, ST) \/ Free(chan, Z)
      PROVE  InLine(chan, p \o xs, S, ST, Z, ZT)
  <2>1. NoneBehind(p \o xs, ST, ZT)
    BY <1>1, NoneBehindConcat
  <2>2. Free(p \o xs, ST) <=> Free(p, ST) /\ Free(xs, ST)
    BY <1>1, FreeConcat
  <2>. QED
    BY <1>1, <2>1, <2>2 DEF InLine
<1>2. InLine(chan, q \o xs, S, ST, Z, ZT)
  BY <1>1 DEF InLine
<1>3. CASE q # <<>>
  <2>1. Tail(q) \in Seq(T)
    BY <1>3, HeadTailProperties
  <2>2. NoneBehind(Tail(q), ST, ZT)
    BY <1>3, HeadOrder DEF InLine
  <2>3. Free(q, ST) => Free(Tail(q), ST)
    BY <1>3, LastHead
  <2>. QED
    BY <1>1, <1>2, <2>1, <2>2, <2>3 DEF InLine
<1>. QED
  BY <1>2, <1>3

\* The listener moves the first k messages; a message it drops is gone.
LEMMA InLineListen ==
  ASSUME NEW M, NEW T, NEW S, NEW ST, NEW Z, NEW ZT, NEW kind, NEW c,
         NEW chan \in Seq(M), NEW q \in Seq(T), q # <<>>,
         NEW k \in 0..Len(chan), NEW n \in 0..k,
         \A m \in M : /\ Task(kind, c, m) \in T
                      /\ Task(kind, c, m) \in ST <=> m \in S
                      /\ Task(kind, c, m) \in ZT <=> m \in Z,
         InLine(chan, q, S, ST, Z, ZT)
  PROVE  InLine(Drop(chan, k), Tail(q) \o HandleAll(kind, c, chan, n), S, ST, Z, ZT)
<1>1. PICK t, xs, d : t = Tail(q) /\ xs = HandleAll(kind, c, chan, n) /\ d = Drop(chan, k)
  OBVIOUS
<1>2. /\ Len(chan) \in Nat /\ DOMAIN chan = 1..Len(chan) /\ k \in Nat /\ n \in Nat
      /\ n <= k /\ k <= Len(chan) /\ n \in 0..Len(chan)
  BY LenProperties
<1>3. DOMAIN xs = 1..n /\ \A i \in 1..n : xs[i] = Task(kind, c, chan[i]) /\ chan[i] \in M
                                          /\ i \in DOMAIN chan
  BY <1>1, <1>2, ElementOfSeq DEF HandleAll
<1>4. xs \in Seq(T) /\ t \in Seq(T)
  <2>1. \A m \in M : Task(kind, c, m) \in T
    OBVIOUS
  <2>2. xs \in Seq(T)
    BY <1>1, <1>2, <2>1, HandleAllType
  <2>. QED
    BY <1>1, <2>2, HeadTailProperties
<1>5. DOMAIN d = 1..(Len(chan) - k) /\ \A i \in DOMAIN d : d[i] = chan[i + k] /\ i + k \in DOMAIN chan
  BY <1>1, <1>2 DEF Drop
<1>6. NoneBehind(xs, ST, ZT)
  BY <1>2, <1>3 DEF NoneBehind, InLine
<1>7. NoneBehind(d, S, Z)
  <2>1. ASSUME NEW i \in DOMAIN d, NEW j \in DOMAIN d, i < j PROVE ~(d[i] \in S /\ d[j] \in Z)
    <3>1. i + k < j + k
      BY <1>2, <1>5, <2>1
    <3>. QED
      BY <1>5, <3>1 DEF NoneBehind, InLine
  <2>. QED
    BY <2>1 DEF NoneBehind
<1>8. NoneBehind(t, ST, ZT) /\ (Free(q, ST) => Free(t, ST))
  BY <1>1, HeadOrder, LastHead DEF InLine
<1>9. Free(chan, Z) => Free(xs, ZT) /\ Free(d, Z)
  BY <1>3, <1>5 DEF Free
<1>10. NoneBehind(t \o xs, ST, ZT)
  <2>1. /\ NoneBehind(t, ST, ZT) /\ Free(xs, ZT) => NoneBehind(t \o xs, ST, ZT)
        /\ Free(t, ST) /\ NoneBehind(xs, ST, ZT) => NoneBehind(t \o xs, ST, ZT)
    BY <1>4, NoneBehindConcat
  <2>. QED
    BY <1>6, <1>8, <1>9, <2>1 DEF InLine
<1>11. Free(xs, ST) \/ Free(d, Z)
  <2>1. ASSUME NEW i \in DOMAIN xs, xs[i] \in ST, NEW j \in DOMAIN d PROVE d[j] \notin Z
    <3>1. i \in DOMAIN chan /\ chan[i] \in S
      BY <1>3, <2>1
    <3>2. j + k \in DOMAIN chan /\ d[j] = chan[j + k] /\ i < j + k
      BY <1>2, <1>3, <1>5, <2>1
    <3>. QED
      BY <3>1, <3>2 DEF NoneBehind, InLine
  <2>. QED
    BY <2>1 DEF Free
<1>12. Free(t \o xs, ST) <=> Free(t, ST) /\ Free(xs, ST)
  BY <1>4, FreeConcat
<1>. QED
  BY <1>1, <1>7, <1>8, <1>9, <1>10, <1>11, <1>12 DEF InLine

\* What is not there is not there after the listener has run, ...
LEMMA FreeListen ==
  ASSUME NEW M, NEW T, NEW Z, NEW ZT, NEW kind, NEW c,
         NEW chan \in Seq(M), NEW q \in Seq(T), q # <<>>,
         NEW k \in 0..Len(chan), NEW n \in 0..k,
         \A m \in M : Task(kind, c, m) \in T /\ (Task(kind, c, m) \in ZT <=> m \in Z)
  PROVE  /\ Free(chan, Z) => Free(Drop(chan, k), Z)
         /\ Free(chan, Z) /\ Free(q, ZT) => Free(Tail(q) \o HandleAll(kind, c, chan, n), ZT)
<1>1. PICK t, xs, d : t = Tail(q) /\ xs = HandleAll(kind, c, chan, n) /\ d = Drop(chan, k)
  OBVIOUS
<1>2. /\ Len(chan) \in Nat /\ DOMAIN chan = 1..Len(chan) /\ k \in Nat /\ n \in Nat
      /\ n <= k /\ k <= Len(chan) /\ n \in 0..Len(chan)
  BY LenProperties
<1>3. DOMAIN xs = 1..n /\ \A i \in 1..n : xs[i] = Task(kind, c, chan[i]) /\ chan[i] \in M
                                          /\ i \in DOMAIN chan
  BY <1>1, <1>2, ElementOfSeq DEF HandleAll
<1>4. xs \in Seq(T) /\ t \in Seq(T)
  <2>1. \A m \in M : Task(kind, c, m) \in T
    OBVIOUS
  <2>2. xs \in Seq(T)
    BY <1>1, <1>2, <2>1, HandleAllType
  <2>. QED
    BY <1>1, <2>2, HeadTailProperties
<1>5. Free(chan, Z) => Free(d, Z)
  BY <1>1, <1>2, LastPart
<1>6. Free(chan, Z) => Free(xs, ZT)
  BY <1>3 DEF Free
<1>7. Free(q, ZT) => Free(t, ZT)
  BY <1>1, LastHead
<1>8. Free(t \o xs, ZT) <=> Free(t, ZT) /\ Free(xs, ZT)
  BY <1>4, FreeConcat
<1>. QED
  BY <1>1, <1>5, <1>6, <1>7, <1>8

\* ... and what is there is still there, unless it is what the listener drops.
LEMMA KeepListen ==
  ASSUME NEW M, NEW T, NEW Z, NEW ZT, NEW kind, NEW c,
         NEW chan \in Seq(M), NEW q \in Seq(T), q # <<>>, Head(q) \notin ZT,
         NEW k \in 0..Len(chan), NEW n \in 0..k, n = k \/ (n = k - 1 /\ chan[k] \notin Z),
         \A m \in M : Task(kind, c, m) \in T /\ (Task(kind, c, m) \in ZT <=> m \in Z),
         Free(Drop(chan, k), Z), Free(Tail(q) \o HandleAll(kind, c, chan, n), ZT)
  PROVE  Free(chan, Z) /\ Free(q, ZT)
<1>1. PICK xs, d : xs = HandleAll(kind, c, chan, n) /\ d = Drop(chan, k)
  OBVIOUS
<1>2. /\ Len(chan) \in Nat /\ DOMAIN chan = 1..Len(chan) /\ k \in Nat /\ n \in Nat
      /\ n <= k /\ k <= Len(chan) /\ n \in 0..Len(chan)
  BY LenProperties
<1>3. DOMAIN xs = 1..n /\ \A i \in 1..n : xs[i] = Task(kind, c, chan[i]) /\ chan[i] \in M
  BY <1>1, <1>2, ElementOfSeq DEF HandleAll
<1>4. xs \in Seq(T)
  <2>1. \A m \in M : Task(kind, c, m) \in T
    OBVIOUS
  <2>. QED
    BY <1>1, <1>2, <2>1, HandleAllType
<1>5. Free(xs, ZT) /\ Free(q, ZT)
  <2>1. Free(Tail(q) \o xs, ZT)
    BY <1>1
  <2>. QED
    BY <1>4, <2>1, RunFree
<1>6. \A i \in 1..n : chan[i] \notin Z
  BY <1>3, <1>5 DEF Free
<1>7. DOMAIN d = 1..(Len(chan) - k) /\ \A i \in DOMAIN d : d[i] = chan[i + k]
  BY <1>1, <1>2 DEF Drop
<1>8. ASSUME NEW i \in DOMAIN chan PROVE chan[i] \notin Z
  <2>1. CASE i \in 1..n
    BY <1>6, <2>1
  <2>2. CASE i > k
    <3>1. i - k \in DOMAIN d /\ (i - k) + k = i
      BY <1>2, <1>7, <1>8, <2>2
    <3>2. d[i - k] \notin Z
      BY <1>1, <3>1 DEF Free
    <3>. QED
      BY <1>7, <3>1, <3>2
  <2>3. CASE i \notin 1..n /\ ~(i > k)
    <3>1. n = k - 1 /\ i = k
      BY <1>2, <1>8, <2>3
    <3>. QED
      BY <3>1
  <2>. QED
    BY <2>1, <2>2, <2>3
<1>. QED
  BY <1>5, <1>8 DEF Free

(***************************************************************************)
(* The invariant of the reads.                                             *)
(***************************************************************************)
\* The messages and tasks of read r, and of write w of property n.
ReadsOf(r)        == {m \in FromClient : m.command = "CHAN_READ" /\ m.seq = r}
ReadTasks(c, r)   == {t \in ServerTask : t.kind = "handle" /\ t.conn = c /\ t.msg \in ReadsOf(r)}
RepliesTo(r)      == {m \in FromServer : m.command = "REPLY" /\ m.seq = r}
ReplyTasks(r)     == {t \in ClientTask : t.msg \in RepliesTo(r)}
Puts(n, w)        == {m \in FromClient : m.command = "CHAN_SEND" /\ m.name = n /\ m.data = w}
PutTasks(c, n, w) == {t \in ServerTask : t.kind = "handle" /\ t.conn = c /\ t.msg \in Puts(n, w)}

\* There is at most one message or task of a read, and none when the client
\* waits for no reply.
NotAsked(c, r)    == Free(c2s[c], ReadsOf(r)) /\ Free(ready, ReadTasks(c, r))
NotAnswered(c, r) == Free(s2c[c], RepliesTo(r)) /\ Free(queue[c], ReplyTasks(r))
Single(c, r) ==
  /\ InLine(c2s[c], ready, ReadsOf(r), ReadTasks(c, r), ReadsOf(r), ReadTasks(c, r))
  /\ InLine(s2c[c], queue[c], RepliesTo(r), ReplyTasks(r), RepliesTo(r), ReplyTasks(r))
  /\ NotAsked(c, r) \/ NotAnswered(c, r)
  /\ calls[c][r] = Idle => NotAsked(c, r) /\ NotAnswered(c, r)

\* An acceptable write has been made, or is on its way.
Made(n, w) == \E i \in DOMAIN hist[n] : hist[n][i] = w
Due(c, n, w) ==
  /\ w \notin Refused /\ w <= writes
  /\ Made(n, w) \/ ~Free(c2s[c], Puts(n, w)) \/ ~Free(ready, PutTasks(c, n, w))

\* A read asks for the property it was called for, and no write that was sent
\* before it is behind it.
Astray(n, r)         == {m \in ReadsOf(r) : m.name # n}
AstrayTasks(c, n, r) == {t \in ReadTasks(c, r) : t.msg.name # n}
Asked(c, r, call) ==
  /\ Free(c2s[c], Astray(call.name, r)) /\ Free(ready, AstrayTasks(c, call.name, r))
  /\ call.name \in Served =>
       /\ call.since <= Len(hist[call.name])
       /\ Due(c, call.name, call.after)
       /\ InLine(c2s[c], ready, ReadsOf(r), ReadTasks(c, r),
                 Puts(call.name, call.after), PutTasks(c, call.name, call.after))

\* What comes back is fresh, and stays so as the history h grows.
Fresh(h, call, v) ==
  v \in Writes =>
    /\ call.name \in Served
    /\ \E i, j \in DOMAIN h[call.name] :
         /\ h[call.name][i] = call.after /\ h[call.name][j] = v
         /\ i <= j /\ call.since <= j
Stale(h, call, r)      == {m \in RepliesTo(r) : ~Fresh(h, call, m.data)}
StaleTasks(h, call, r) == {t \in ClientTask : t.msg \in Stale(h, call, r)}
Answered(c, r, call) ==
  /\ Free(s2c[c], Stale(hist, call, r)) /\ Free(queue[c], StaleTasks(hist, call, r))
  /\ Fresh(hist, result[c][r].call, result[c][r].val)

ReadInv(c, r) == Single(c, r) /\ Asked(c, r, calls[c][r]) /\ Answered(c, r, calls[c][r])
HistInv == \A n \in Served : hist[n] # <<>> /\ hist[n][Len(hist[n])] = value[n]
WriteInv == \A c \in Clients, n \in Served : Due(c, n, wrote[c][n])
FreshInv == HistInv /\ WriteInv /\ \A c \in Clients, r \in Readers : ReadInv(c, r)

(***************************************************************************)
(* What a step does to the history, the channels and the ready queue.      *)
(***************************************************************************)
LEMMA AssignMoves ==
  ASSUME TypeOK, NEW n \in Served, NEW v \in Writes, NEW rest, Assign(n, v, rest),
         NEW m \in Served
  PROVE  \/ hist'[m] = hist[m] /\ value'[m] = value[m]
         \/ hist'[m] = Append(hist[m], v) /\ value'[m] = v
BY DEF Assign, TypeOK

LEMMA HistMoves ==
  ASSUME TypeOK, [Next]_vars, NEW m \in Served
  PROVE  \/ hist'[m] = hist[m] /\ value'[m] = value[m]
         \/ \E v \in Writes : hist'[m] = Append(hist[m], v) /\ value'[m] = v
<1>1. CASE hist' = hist /\ value' = value
  BY <1>1
<1>2. CASE OnPropertySet
  <2>. DEFINE x == Head(ready).msg
  <2>1. x.name \in Names /\ x.data \in Writes
    <3>1. Head(ready) \in ServerTask /\ Handling("CHAN_SEND")
      BY <1>2, ServerHead DEF ServerStep, OnPropertySet
    <3>. QED
      BY <3>1, HandledMessage, MessageShapes
  <2>2. CASE x.name \in Served
    <3>1. Assign(x.name, x.data, Tail(ready))
      BY <1>2, <2>2 DEF OnPropertySet
    <3>. QED
      BY <2>1, <2>2, <3>1, AssignMoves
  <2>3. CASE x.name \notin Served
    BY <1>2, <2>3 DEF OnPropertySet
  <2>. QED
    BY <2>2, <2>3
<1>3. ASSUME NEW n \in Served, ServerSet(n)
      PROVE  \/ hist'[m] = hist[m] /\ value'[m] = value[m]
             \/ \E v \in Writes : hist'[m] = Append(hist[m], v) /\ value'[m] = v
  <2>1. writes + 1 \in Writes /\ Assign(n, writes + 1, ready)
    BY <1>3, SyncAssumption DEF ServerSet, Writes, TypeOK
  <2>. QED
    BY <2>1, AssignMoves
<1>4. CASE UNCHANGED vars
  BY <1>1, <1>4 DEF vars, serverVars
<1>5. CASE ServerStep /\ ~OnPropertySet
  BY <1>1, <1>5 DEF ServerStep, ServerListen, OnPropertyGet, OnPropertyWatch, OnPropertyUnwatch,
     Broadcast, PropSend
<1>6. ASSUME NEW c \in Clients,
             \/ ClientStep(c) \/ Arrive(c) \/ Close(c)
             \/ \E n \in Names : Subscribe(c, n) \/ Unsubscribe(c, n) \/ Write(c, n)
             \/ \E n \in Names, r \in Readers : Read(c, n, r)
      PROVE  hist' = hist /\ value' = value
  <2>1. CASE ClientStep(c) \/ Arrive(c)
    BY <2>1 DEF ClientStep, ClientListen, DispatchEvent, DispatchReply, WakeRead, Arrive,
       ServerArrive, ClientArrive, serverVars
  <2>2. CASE Close(c)
    BY <2>2 DEF Close, serverVars
  <2>3. ASSUME NEW n \in Names, Subscribe(c, n) \/ Unsubscribe(c, n) \/ Write(c, n)
        PROVE  hist' = hist /\ value' = value
    BY <2>3 DEF Subscribe, Unsubscribe, Write, serverVars
  <2>4. ASSUME NEW n \in Names, NEW r \in Readers, Read(c, n, r)
        PROVE  hist' = hist /\ value' = value
    BY <2>4 DEF Read, serverVars
  <2>. QED
    BY <1>6, <2>1, <2>2, <2>3, <2>4
<1>. QED
  BY <1>1, <1>2, <1>3, <1>4, <1>5, <1>6 DEF Next

\* A history keeps its entries and ends with the value.
Grows(h, h2) == Len(h) <= Len(h2) /\ \A i \in DOMAIN h : i \in DOMAIN h2 /\ h2[i] = h[i]

LEMMA HistGrows ==
  ASSUME TypeOK, [Next]_vars, NEW m \in Served
  PROVE  /\ Grows(hist[m], hist'[m])
         /\ hist[m] # <<>> /\ hist[m][Len(hist[m])] = value[m]
              => hist'[m] # <<>> /\ hist'[m][Len(hist'[m])] = value'[m]
<1>1. hist[m] \in Seq(Writes) /\ Len(hist[m]) \in Nat /\ DOMAIN hist[m] = 1..Len(hist[m])
  BY LenProperties DEF TypeOK
<1>2. CASE hist'[m] = hist[m] /\ value'[m] = value[m]
  BY <1>1, <1>2 DEF Grows
<1>3. ASSUME NEW v \in Writes, hist'[m] = Append(hist[m], v), value'[m] = v
      PROVE  Grows(hist[m], hist'[m]) /\ hist'[m] # <<>> /\ hist'[m][Len(hist'[m])] = value'[m]
  <2>1. /\ hist'[m] \in Seq(Writes) /\ Len(hist'[m]) = Len(hist[m]) + 1
        /\ \A i \in 1..Len(hist[m]) : hist'[m][i] = hist[m][i]
        /\ hist'[m][Len(hist[m]) + 1] = v
    BY <1>1, <1>3, AppendProperties
  <2>2. DOMAIN hist'[m] = 1..(Len(hist[m]) + 1) /\ hist'[m] # <<>>
    BY <1>1, <2>1, LenProperties, EmptySeq
  <2>. QED
    BY <1>1, <1>3, <2>1, <2>2 DEF Grows
<1>. QED
  BY <1>2, <1>3, HistMoves

LEMMA FreshGrows ==
  ASSUME TypeOK, [Next]_vars, NEW call, NEW v, Fresh(hist, call, v)
  PROVE  Fresh(hist', call, v)
<1>1. SUFFICES ASSUME v \in Writes
               PROVE  /\ call.name \in Served
                      /\ \E i, j \in DOMAIN hist'[call.name] :
                           /\ hist'[call.name][i] = call.after /\ hist'[call.name][j] = v
                           /\ i <= j /\ call.since <= j
  BY DEF Fresh
<1>2. call.name \in Served
  BY <1>1 DEF Fresh
<1>3. Grows(hist[call.name], hist'[call.name])
  BY <1>2, HistGrows
<1>. QED
  BY <1>1, <1>2, <1>3 DEF Fresh, Grows

\* Every step but that of the listener takes at most the head from the ready
\* queue, to run it, and puts no handler into it.
NoHandlers(xs) == \A i \in DOMAIN xs : xs[i].kind # "handle"
QuietReady ==
  \E xs \in Seq(ServerTask) :
    /\ NoHandlers(xs)
    /\ \/ ready' = ready \o xs
       \/ ready # <<>> /\ ready' = Tail(ready) \o xs /\ ServerStep

LEMMA NoTasks == <<>> \in Seq(ServerTask) /\ NoHandlers(<<>>)
BY DEF NoHandlers

LEMMA OneTask ==
  ASSUME NEW t \in ServerTask, t.kind # "handle"
  PROVE  <<t>> \in Seq(ServerTask) /\ NoHandlers(<<t>>)
<1>1. <<t>> \in Seq(ServerTask) /\ DOMAIN <<t>> = {1} /\ <<t>>[1] = t
  OBVIOUS
<1>. QED
  BY <1>1 DEF NoHandlers

LEMMA ReadyMoves ==
  ASSUME TypeOK, [Next]_vars, ~ServerListen
  PROVE  QuietReady
<1>1. ready \in Seq(ServerTask)
  BY DEF TypeOK
<1>2. CASE ready' = ready
  <2>1. ready' = ready \o <<>>
    BY <1>1, <1>2, ConcatEmptySeq
  <2>. QED
    BY <2>1, NoTasks DEF QuietReady
<1>3. ASSUME NEW t \in ServerTask, t.kind # "handle", ready' = Append(ready, t)
      PROVE  QuietReady
  <2>1. ready' = ready \o <<t>>
    BY <1>1, <1>3, AppendIsConcat
  <2>. QED
    BY <1>3, <2>1, OneTask DEF QuietReady
<1>4. ASSUME NEW n \in Served, ServerSet(n) PROVE QuietReady
  <2>. DEFINE t == Task("broadcast", None, Msg("EVENT", n, writes + 1, 0))
  <2>1. writes + 1 \in Writes
    BY <1>4, SyncAssumption DEF ServerSet, Writes, TypeOK
  <2>2. t \in ServerTask /\ t.kind # "handle"
    BY <2>1, MessageTypes, TaskTypes DEF Task
  <2>3. ready' = ready \/ ready' = Append(ready, t)
    BY <1>4 DEF ServerSet, Assign
  <2>. HIDE DEF t
  <2>. QED
    BY <1>2, <1>3, <2>2, <2>3
<1>5. CASE ServerStep
  <2>. DEFINE h == Head(ready)
  <2>1. ready # <<>> /\ h \in ServerTask /\ Tail(ready) \in Seq(ServerTask)
    BY <1>5, ServerHead
  <2>2. CASE ready' = Tail(ready)
    <3>1. ready' = Tail(ready) \o <<>>
      BY <2>1, <2>2, ConcatEmptySeq
    <3>. QED
      BY <1>5, <2>1, <3>1, NoTasks DEF QuietReady
  <2>3. CASE OnPropertySet
    <3>. DEFINE t == Task("broadcast", None, Msg("EVENT", h.msg.name, h.msg.data, 0))
    <3>1. h.msg.name \in Names /\ h.msg.data \in Writes
      BY <2>1, <2>3, HandledMessage, MessageShapes DEF OnPropertySet
    <3>2. h.msg.name \in Served => t \in ServerTask /\ t.kind # "handle"
      BY <3>1, MessageTypes, TaskTypes DEF Task
    <3>3. ready' = Tail(ready) \/ (h.msg.name \in Served /\ ready' = Append(Tail(ready), t))
      BY <2>3 DEF OnPropertySet, Assign
    <3>. HIDE DEF t
    <3>4. CASE h.msg.name \in Served /\ ready' = Append(Tail(ready), t)
      <4>1. ready' = Tail(ready) \o <<t>>
        BY <2>1, <3>2, <3>4, AppendIsConcat
      <4>. QED
        BY <1>5, <2>1, <3>2, <3>4, <4>1, OneTask DEF QuietReady
    <3>. QED
      BY <2>2, <3>3, <3>4
  <2>4. CASE Broadcast
    <3>1. h.msg \in EventMessage /\ h.msg.name \in Names
      BY <2>1, <2>4, TaskShapes, MessageShapes, SyncAssumption DEF Broadcast, Serving
    <3>2. PICK order \in SetToSeqs(listeners[h.msg.name]) :
            ready' = Tail(ready) \o [i \in DOMAIN order |-> Task("send", order[i], h.msg)]
      BY <2>4 DEF Broadcast
    <3>3. PICK xs : xs = [i \in DOMAIN order |-> Task("send", order[i], h.msg)]
      OBVIOUS
    <3>4. listeners[h.msg.name] \in SUBSET Clients
      BY <3>1 DEF TypeOK
    <3>5. xs \in Seq(ServerTask)
      BY <3>1, <3>3, <3>4, SendTasks
    <3>6. NoHandlers(xs)
      BY <3>3 DEF NoHandlers, Task
    <3>. QED
      BY <1>5, <2>1, <3>2, <3>3, <3>5, <3>6 DEF QuietReady
  <2>5. CASE OnPropertyGet \/ OnPropertyWatch \/ OnPropertyUnwatch \/ PropSend
    BY <2>2, <2>5 DEF OnPropertyGet, OnPropertyWatch, OnPropertyUnwatch, PropSend
  <2>. QED
    BY <1>5, <2>3, <2>4, <2>5 DEF ServerStep
<1>6. ASSUME NEW c \in Clients,
             \/ ClientStep(c) \/ Arrive(c) \/ Close(c)
             \/ \E n \in Names : Subscribe(c, n) \/ Unsubscribe(c, n) \/ Write(c, n)
             \/ \E n \in Names, r \in Readers : Read(c, n, r)
      PROVE  QuietReady
  <2>1. CASE ServerArrive(c)
    <3>1. Task("listen", c, NoMsg) \in ServerTask /\ Task("listen", c, NoMsg).kind # "handle"
      BY TaskTypes DEF Task
    <3>2. ready' = Append(ready, Task("listen", c, NoMsg))
      BY <2>1 DEF ServerArrive
    <3>. QED
      BY <1>3, <3>1, <3>2
  <2>2. CASE ClientStep(c) \/ ClientArrive(c)
    BY <1>2, <2>2 DEF ClientStep, ClientListen, DispatchEvent, DispatchReply, WakeRead,
       ClientArrive, serverVars
  <2>3. CASE Close(c)
    BY <1>2, <2>3 DEF Close, serverVars
  <2>4. ASSUME NEW n \in Names, Subscribe(c, n) \/ Unsubscribe(c, n) \/ Write(c, n)
        PROVE  ready' = ready
    BY <2>4 DEF Subscribe, Unsubscribe, Write, serverVars
  <2>5. ASSUME NEW n \in Names, NEW r \in Readers, Read(c, n, r) PROVE ready' = ready
    BY <2>5 DEF Read, serverVars
  <2>. QED
    BY <1>2, <1>6, <2>1, <2>2, <2>3, <2>4, <2>5 DEF Arrive
<1>7. CASE UNCHANGED vars
  BY <1>2, <1>7 DEF vars, serverVars
<1>. QED
  BY <1>4, <1>5, <1>6, <1>7 DEF Next

\* A client's channel to the server grows at its end, unless the listener of
\* the connection runs.
LEMMA ChannelMoves ==
  ASSUME TypeOK, [Next]_vars, ~ServerListen, NEW d \in Clients
  PROVE  c2s'[d] = c2s[d] \/ \E x \in FromClient : c2s'[d] = Append(c2s[d], x)
<1>1. ASSUME NEW c \in Clients, NEW x \in FromClient, Request(c, x)
      PROVE  c2s'[d] = c2s[d] \/ c2s'[d] = Append(c2s[d], x)
  BY <1>1 DEF Request, TypeOK
<1>2. CASE c2s' = c2s
  BY <1>2
<1>3. CASE ServerStep
  BY <1>2, <1>3 DEF ServerStep, OnPropertySet, OnPropertyGet, OnPropertyWatch,
     OnPropertyUnwatch, Broadcast, PropSend
<1>4. ASSUME NEW c \in Clients,
             \/ ClientStep(c) \/ Arrive(c) \/ Close(c)
             \/ \E n \in Names : Subscribe(c, n) \/ Unsubscribe(c, n) \/ Write(c, n)
             \/ \E n \in Names, r \in Readers : Read(c, n, r)
      PROVE  c2s' = c2s \/ \E x \in FromClient : Request(c, x)
  <2>1. CASE ClientStep(c) \/ Arrive(c)
    BY <2>1 DEF ClientStep, ClientListen, DispatchEvent, DispatchReply, WakeRead, Arrive,
       ServerArrive, ClientArrive, serverVars
  <2>2. CASE Close(c)
    BY <2>2, MessageTypes DEF Close
  <2>3. ASSUME NEW n \in Names, Subscribe(c, n) \/ Unsubscribe(c, n)
        PROVE  c2s' = c2s \/ \E x \in FromClient : Request(c, x)
    <3>1. /\ Msg("REGISTER", n, None, 0) \in FromClient
          /\ Msg("UNREGISTER", n, None, 0) \in FromClient
      BY MessageTypes DEF WatchCommands
    <3>. QED
      BY <2>3, <3>1 DEF Subscribe, Unsubscribe
  <2>4. ASSUME NEW n \in Names, Write(c, n) PROVE \E x \in FromClient : Request(c, x)
    <3>1. writes + 1 \in Writes
      BY <2>4, SyncAssumption DEF Write, Writes, TypeOK
    <3>. QED
      BY <2>4, <3>1, MessageTypes DEF Write
  <2>5. ASSUME NEW n \in Names, NEW r \in Readers, Read(c, n, r)
        PROVE  \E x \in FromClient : Request(c, x)
    BY <2>5, MessageTypes DEF Read
  <2>. QED
    BY <1>4, <2>1, <2>2, <2>3, <2>4, <2>5
<1>5. CASE \E n \in Served : ServerSet(n)
  BY <1>2, <1>5 DEF ServerSet
<1>6. CASE UNCHANGED vars
  BY <1>2, <1>6 DEF vars
<1>. QED
  BY <1>1, <1>2, <1>3, <1>4, <1>5, <1>6 DEF Next

\* The server's listener.
LEMMA ListenMoves ==
  ASSUME TypeOK, ServerListen
  PROVE  \E c \in Clients : \E k \in 0..Len(c2s[c]) : \E n \in 0..k :
           /\ ready \in Seq(ServerTask) /\ ready # <<>>
           /\ Head(ready).kind = "listen" /\ Head(ready) \in ServerTask
           /\ n = k \/ (n = k - 1 /\ c2s[c][k].command = "CLOSE")
           /\ ready' = Tail(ready) \o HandleAll("handle", c, c2s[c], n)
           /\ c2s' = [c2s EXCEPT ![c] = Drop(c2s[c], k)]
           /\ value' = value /\ listeners' = listeners /\ s2c' = s2c
           /\ UNCHANGED <<clientVars, hist, history, writes, ops>>
<1>. DEFINE c == Head(ready).conn
<1>1. /\ ready # <<>> /\ ready \in Seq(ServerTask) /\ Head(ready) \in ServerTask
      /\ Head(ready).kind = "listen" /\ c \in Clients
  BY ServerHead, TaskShapes DEF ServerStep, TypeOK, ServerListen, Serving
<1>2. PICK k \in 1..Len(c2s[c]) :
        /\ ready' = Tail(ready) \o HandleAll("handle", c, c2s[c],
                                   IF c2s[c][k].command = "CLOSE" THEN k - 1 ELSE k)
        /\ c2s' = [c2s EXCEPT ![c] = Drop(c2s[c], k)]
  BY DEF ServerListen
<1>3. Len(c2s[c]) \in Nat
  BY <1>1, LenProperties DEF TypeOK
<1>4. PICK n : n = IF c2s[c][k].command = "CLOSE" THEN k - 1 ELSE k
  OBVIOUS
<1>5. k \in 0..Len(c2s[c]) /\ n \in 0..k /\ (n = k \/ (n = k - 1 /\ c2s[c][k].command = "CLOSE"))
  BY <1>3, <1>4
<1>6. ready' = Tail(ready) \o HandleAll("handle", c, c2s[c], n)
  BY <1>2, <1>4
<1>7. /\ value' = value /\ listeners' = listeners /\ s2c' = s2c
      /\ UNCHANGED <<clientVars, hist, history, writes, ops>>
  BY DEF ServerListen
<1>. QED
  BY <1>1, <1>2, <1>5, <1>6, <1>7

(***************************************************************************)
(* A write that is acceptable is made in the end, and none is lost.        *)
(***************************************************************************)
LEMMA WritesGrow ==
  ASSUME TypeOK, [Next]_vars
  PROVE  writes' = writes \/ writes' = writes + 1
<1>1. CASE ServerStep
  BY <1>1 DEF ServerStep, ServerListen, OnPropertySet, OnPropertyGet, OnPropertyWatch,
     OnPropertyUnwatch, Broadcast, PropSend
<1>2. CASE \E n \in Served : ServerSet(n)
  BY <1>2 DEF ServerSet
<1>3. ASSUME NEW c \in Clients,
             \/ ClientStep(c) \/ Arrive(c) \/ Close(c)
             \/ \E n \in Names : Subscribe(c, n) \/ Unsubscribe(c, n) \/ Write(c, n)
             \/ \E n \in Names, r \in Readers : Read(c, n, r)
      PROVE  writes' = writes \/ writes' = writes + 1
  BY <1>3 DEF ClientStep, ClientListen, DispatchEvent, DispatchReply, WakeRead, Arrive,
     ServerArrive, ClientArrive, Close, Subscribe, Unsubscribe, Write, Read
<1>4. CASE UNCHANGED vars
  BY <1>4 DEF vars
<1>. QED
  BY <1>1, <1>2, <1>3, <1>4 DEF Next

\* The handler of an acceptable write makes it.
LEMMA PutRuns ==
  ASSUME TypeOK, ServerStep, NEW c \in Clients, NEW n \in Served, NEW w, w \notin Refused,
         Head(ready) \in PutTasks(c, n, w)
  PROVE  Made(n, w)'
<1>1. Head(ready).kind = "handle" /\ Head(ready).msg \in Puts(n, w)
  BY DEF PutTasks
<1>2. /\ Head(ready).msg.command = "CHAN_SEND" /\ Head(ready).msg.name = n
      /\ Head(ready).msg.data = w
  BY <1>1 DEF Puts
<1>3. OnPropertySet
  BY <1>1, <1>2 DEF ServerStep, ServerListen, OnPropertyGet, OnPropertyWatch, OnPropertyUnwatch,
     Broadcast, PropSend, Handling, Serving
<1>4. hist' = [hist EXCEPT ![n] = Append(@, w)]
  BY <1>2, <1>3 DEF OnPropertySet, Assign
<1>5. w \in Writes
  BY <1>1, <1>2, MessageShapes DEF Puts
<1>6. hist[n] \in Seq(Writes) /\ hist'[n] = Append(hist[n], w) /\ Len(hist[n]) \in Nat
  BY <1>4, LenProperties DEF TypeOK
<1>7. /\ Append(hist[n], w) \in Seq(Writes) /\ Len(Append(hist[n], w)) = Len(hist[n]) + 1
      /\ Append(hist[n], w)[Len(hist[n]) + 1] = w
  BY <1>5, <1>6, AppendProperties
<1>8. Len(hist[n]) + 1 \in DOMAIN hist'[n]
  BY <1>6, <1>7, LenProperties
<1>. QED
  BY <1>6, <1>7, <1>8 DEF Made

LEMMA DueStep ==
  ASSUME TypeOK, [Next]_vars, NEW c \in Clients, NEW n \in Served, NEW w \in Nat, Due(c, n, w)
  PROVE  Due(c, n, w)'
<1>1. w <= writes'
  BY WritesGrow DEF Due, TypeOK
<1>2. Made(n, w) => Made(n, w)'
  BY HistGrows DEF Made, Grows
<1>3. SUFFICES ASSUME ~Made(n, w)', Free(c2s'[c], Puts(n, w)), Free(ready', PutTasks(c, n, w))
               PROVE  Free(c2s[c], Puts(n, w)) /\ Free(ready, PutTasks(c, n, w))
  BY <1>1, <1>2 DEF Due
<1>4. PICK P, D : P = Puts(n, w) /\ D = PutTasks(c, n, w)
  OBVIOUS
<1>5. Free(c2s'[c], P) /\ Free(ready', D)
  BY <1>3, <1>4
<1>6. ready \in Seq(ServerTask) /\ c2s[c] \in Seq(FromClient)
  BY DEF TypeOK
<1>7. ServerStep => Head(ready) \notin D
  BY <1>3, <1>4, PutRuns DEF Due
<1>8. CASE ~ServerListen
  <2>1. Free(c2s[c], P)
    <3>1. CASE c2s'[c] = c2s[c]
      BY <1>5, <3>1
    <3>2. ASSUME NEW x \in FromClient, c2s'[c] = Append(c2s[c], x) PROVE Free(c2s[c], P)
      BY <1>5, <1>6, <3>2, AppendFree
    <3>. QED
      BY <1>8, <3>1, <3>2, ChannelMoves
  <2>2. PICK xs \in Seq(ServerTask) : \/ ready' = ready \o xs
                                      \/ ready # <<>> /\ ready' = Tail(ready) \o xs /\ ServerStep
    BY <1>8, ReadyMoves DEF QuietReady
  <2>3. CASE ready' = ready \o xs
    <3>1. Free(ready \o xs, D) <=> Free(ready, D) /\ Free(xs, D)
      BY <1>6, FreeConcat
    <3>. QED
      BY <1>4, <1>5, <2>1, <2>3, <3>1
  <2>4. CASE ready # <<>> /\ ready' = Tail(ready) \o xs /\ ServerStep
    <3>1. Free(ready, D)
      BY <1>5, <1>6, <1>7, <2>4, RunFree
    <3>. QED
      BY <1>4, <2>1, <3>1
  <2>. QED
    BY <2>2, <2>3, <2>4
<1>9. CASE ServerListen
  <2>1. PICK e \in Clients : \E k \in 0..Len(c2s[e]) : \E i \in 0..k :
           /\ ready # <<>>
           /\ i = k \/ (i = k - 1 /\ c2s[e][k].command = "CLOSE")
           /\ ready' = Tail(ready) \o HandleAll("handle", e, c2s[e], i)
           /\ c2s' = [c2s EXCEPT ![e] = Drop(c2s[e], k)]
    BY <1>9, ListenMoves
  <2>3. c2s[e] \in Seq(FromClient) /\ \A m \in FromClient : Task("handle", e, m) \in ServerTask
    BY TaskTypes DEF TypeOK
  <2>9. Len(c2s[e]) \in Nat
    BY <2>3, LenProperties
  <2>7. PICK k \in 0..Len(c2s[e]) : \E i \in 0..k :
           /\ ready # <<>>
           /\ i = k \/ (i = k - 1 /\ c2s[e][k].command = "CLOSE")
           /\ ready' = Tail(ready) \o HandleAll("handle", e, c2s[e], i)
           /\ c2s' = [c2s EXCEPT ![e] = Drop(c2s[e], k)]
    BY <2>1
  <2>8. PICK i \in 0..k :
           /\ ready # <<>>
           /\ i = k \/ (i = k - 1 /\ c2s[e][k].command = "CLOSE")
           /\ ready' = Tail(ready) \o HandleAll("handle", e, c2s[e], i)
           /\ c2s' = [c2s EXCEPT ![e] = Drop(c2s[e], k)]
    BY <2>7
  <2>2. i \in 0..Len(c2s[e]) /\ i \in 0..k /\ k \in 0..Len(c2s[e])
    BY <2>9
  <2>4. Head(ready) \notin D
    BY <1>7, <1>9 DEF ServerStep
  <2>5. CASE e = c
    <3>1. PICK s : s = c2s[c]
      OBVIOUS
    <3>2. /\ s \in Seq(FromClient) /\ k \in 0..Len(s) /\ i \in 0..k
          /\ i = k \/ (i = k - 1 /\ s[k] \notin P)
          /\ Free(Drop(s, k), P) /\ Free(Tail(ready) \o HandleAll("handle", c, s, i), D)
      <4>1. c2s[c][k].command = "CLOSE" => c2s[c][k] \notin P
        BY <1>4 DEF Puts
      <4>2. c2s'[c] = Drop(c2s[c], k)
        BY <2>5, <2>8 DEF TypeOK
      <4>. QED
        BY <1>5, <1>6, <2>2, <2>5, <2>8, <3>1, <4>1, <4>2
    <3>3. \A m \in FromClient : /\ Task("handle", c, m) \in ServerTask
                                /\ Task("handle", c, m) \in D <=> m \in P
      BY <1>4, <2>3, <2>5 DEF PutTasks, Task
    <3>4. Free(s, P) /\ Free(ready, D)
      BY <1>6, <2>8, <2>4, <3>2, <3>3, KeepListen
    <3>. QED
      BY <1>4, <3>1, <3>4
  <2>6. CASE e # c
    <3>1. c2s'[c] = c2s[c]
      BY <2>6, <2>8 DEF TypeOK
    <3>2. HandleAll("handle", e, c2s[e], i) \in Seq(ServerTask)
      BY <2>2, <2>3, HandleAllType
    <3>3. PICK xs \in Seq(ServerTask) : xs = HandleAll("handle", e, c2s[e], i)
      BY <3>2
    <3>4. Free(Tail(ready) \o xs, D)
      BY <1>5, <2>8, <3>3
    <3>5. Free(ready, D)
      BY <1>6, <2>8, <2>4, <3>4, RunFree
    <3>. QED
      BY <1>4, <1>5, <3>1, <3>5
  <2>. QED
    BY <2>5, <2>6
<1>. QED
  BY <1>8, <1>9

\* What a client wrote last is due: a write that counts is sent at once.
LEMMA WriteStep ==
  ASSUME TypeOK, WriteInv, [Next]_vars
  PROVE  WriteInv'
<1>. SUFFICES ASSUME NEW c \in Clients, NEW n \in Served
              PROVE  Due(c, n, wrote[c][n])'
  BY DEF WriteInv
<1>1. Due(c, n, wrote[c][n]) /\ n \in Names
  BY SyncAssumption DEF WriteInv
<1>2. wrote[c][n] \in Nat
  BY <1>1 DEF TypeOK, Writes
<1>3. CASE wrote' = wrote
  <2>1. PICK w \in Nat : w = wrote[c][n]
    BY <1>2
  <2>2. Due(c, n, w)'
    BY <1>1, <2>1, DueStep
  <2>. QED
    BY <1>3, <2>1, <2>2 DEF Due
<1>4. ASSUME NEW e \in Clients, NEW m \in Names, Write(e, m)
      PROVE  Due(c, n, wrote[c][n])'
  <2>1. /\ writes' = writes + 1 /\ writes + 1 \in Nat /\ writes + 1 \in Writes
        /\ Request(e, Msg("CHAN_SEND", m, writes + 1, 0))
        /\ wrote' = IF writes + 1 \in Refused \/ m \notin Served
                      THEN wrote ELSE [wrote EXCEPT ![e][m] = writes + 1]
    BY <1>4, SyncAssumption DEF Write, TypeOK, Writes
  <2>2. CASE wrote'[c][n] = wrote[c][n]
    <3>1. PICK w \in Nat : w = wrote[c][n]
      BY <1>2
    <3>2. Due(c, n, w)'
      BY <1>1, <3>1, DueStep
    <3>. QED
      BY <2>2, <3>1, <3>2 DEF Due
  <2>3. CASE wrote'[c][n] # wrote[c][n]
    <3>1. e = c /\ m = n /\ writes + 1 \notin Refused /\ wrote'[c][n] = writes + 1
      BY <1>1, <2>1, <2>3 DEF TypeOK
    <3>. DEFINE x == Msg("CHAN_SEND", n, writes + 1, 0)
    <3>2. x \in FromClient /\ x \in Puts(n, writes + 1)
      <4>1. x \in FromClient
        BY <1>1, <2>1, MessageTypes
      <4>. QED
        BY <4>1 DEF Puts, Msg
    <3>3. c2s'[c] = Append(c2s[c], x) /\ c2s[c] \in Seq(FromClient)
      BY <2>1, <3>1 DEF Request, TypeOK
    <3>. HIDE DEF x
    <3>4. ~Free(Append(c2s[c], x), Puts(n, writes + 1))
      BY ZenonT(60), <3>2, <3>3, AppendFree
    <3>. QED
      BY <2>1, <3>1, <3>3, <3>4 DEF Due
  <2>. QED
    BY <2>2, <2>3
<1>5. CASE ServerStep
  BY <1>3, <1>5 DEF ServerStep, ServerListen, OnPropertySet, OnPropertyGet, OnPropertyWatch,
     OnPropertyUnwatch, Broadcast, PropSend, history
<1>6. CASE \E m \in Served : ServerSet(m)
  BY <1>3, <1>6 DEF ServerSet, history
<1>7. ASSUME NEW e \in Clients,
             \/ ClientStep(e) \/ Arrive(e) \/ Close(e)
             \/ \E m \in Names : Subscribe(e, m) \/ Unsubscribe(e, m)
             \/ \E m \in Names, r \in Readers : Read(e, m, r)
      PROVE  wrote' = wrote
  BY <1>7 DEF ClientStep, ClientListen, DispatchEvent, DispatchReply, WakeRead, Arrive,
     ServerArrive, ClientArrive, Close, Subscribe, Unsubscribe, Read, history
<1>8. CASE UNCHANGED vars
  BY <1>3, <1>8 DEF vars, history
<1>. QED
  BY <1>3, <1>4, <1>5, <1>6, <1>7, <1>8 DEF Next

(***************************************************************************)
(* Steps that do nothing to read r of client d: nothing of it is put into  *)
(* a channel or a queue, and the head that runs is anyone's.               *)
(***************************************************************************)
QuietChannel(chan, chan2, M, Y) ==
  \/ chan2 = chan \/ chan2 = <<>>
  \/ \E x \in M : x \notin Y /\ chan2 = Append(chan, x)
QuietQueue(q, q2, T, Y) ==
  \E xs \in Seq(T) :
    /\ Free(xs, Y)
    /\ q2 = q \o xs \/ (q # <<>> /\ q2 = Tail(q) \o xs)

LEMMA QuietChannelFree ==
  ASSUME NEW M, NEW Y, NEW chan \in Seq(M), NEW chan2, NEW Z, Z \subseteq Y,
         QuietChannel(chan, chan2, M, Y), Free(chan, Z)
  PROVE  Free(chan2, Z)
<1>1. CASE chan2 = <<>>
  BY <1>1 DEF Free
<1>2. ASSUME NEW x \in M, x \notin Y, chan2 = Append(chan, x) PROVE Free(chan2, Z)
  BY <1>2, AppendFree
<1>. QED
  BY <1>1, <1>2 DEF QuietChannel

LEMMA QuietQueueFree ==
  ASSUME NEW T, NEW Y, NEW q \in Seq(T), NEW q2, NEW Z, Z \subseteq Y,
         QuietQueue(q, q2, T, Y), Free(q, Z)
  PROVE  Free(q2, Z)
<1>1. PICK xs \in Seq(T) : Free(xs, Y) /\ (q2 = q \o xs \/ (q # <<>> /\ q2 = Tail(q) \o xs))
  BY DEF QuietQueue
<1>2. Free(xs, Z)
  BY <1>1, FreeSubset
<1>3. CASE q2 = q \o xs
  <2>1. Free(q \o xs, Z) <=> Free(q, Z) /\ Free(xs, Z)
    BY FreeConcat
  <2>. QED
    BY <1>2, <1>3, <2>1
<1>4. CASE q # <<>> /\ q2 = Tail(q) \o xs
  <2>1. Tail(q) \in Seq(T) /\ Free(Tail(q), Z)
    BY <1>4, LastHead
  <2>2. Free(Tail(q) \o xs, Z) <=> Free(Tail(q), Z) /\ Free(xs, Z)
    BY <2>1, FreeConcat
  <2>. QED
    BY <1>2, <1>4, <2>1, <2>2
<1>. QED
  BY <1>1, <1>3, <1>4

LEMMA QuietLine ==
  ASSUME NEW M, NEW T, NEW S, NEW ST, NEW Z, NEW ZT, NEW Y, NEW YT,
         NEW chan \in Seq(M), NEW q \in Seq(T), NEW chan2, NEW q2,
         Z \subseteq Y, ST \subseteq YT, ZT \subseteq YT,
         QuietChannel(chan, chan2, M, Y), QuietQueue(q, q2, T, YT),
         InLine(chan, q, S, ST, Z, ZT)
  PROVE  InLine(chan2, q2, S, ST, Z, ZT)
<1>1. PICK xs \in Seq(T) : Free(xs, YT) /\ (q2 = q \o xs \/ (q # <<>> /\ q2 = Tail(q) \o xs))
  BY DEF QuietQueue
<1>2. Free(xs, ST) /\ Free(xs, ZT)
  BY <1>1, FreeSubset
<1>3. InLine(chan, q2, S, ST, Z, ZT)
  BY <1>1, <1>2, InLineRun
<1>4. CASE chan2 = <<>>
  <2>1. Free(<<>>, Z) /\ NoneBehind(<<>>, S, Z)
    BY DEF Free, NoneBehind
  <2>. QED
    BY <1>3, <1>4, <2>1 DEF InLine
<1>5. ASSUME NEW x \in M, x \notin Y, chan2 = Append(chan, x)
      PROVE  InLine(chan2, q2, S, ST, Z, ZT)
  BY <1>3, <1>5, InLineAppend
<1>. QED
  BY <1>3, <1>4, <1>5 DEF QuietChannel

LEMMA TaskSubsets ==
  ASSUME NEW c, NEW r, NEW n, NEW w, NEW h, NEW call
  PROVE  /\ ReadTasks(c, r) \subseteq HandlersOf(c) /\ PutTasks(c, n, w) \subseteq HandlersOf(c)
         /\ AstrayTasks(c, n, r) \subseteq HandlersOf(c) /\ Astray(n, r) \subseteq ReadsOf(r)
         /\ Stale(h, call, r) \subseteq RepliesTo(r)
         /\ StaleTasks(h, call, r) \subseteq ReplyTasks(r)
BY DEF ReadTasks, HandlersOf, PutTasks, AstrayTasks, Astray, Stale, StaleTasks, ReplyTasks

\* As the history grows, what was fresh stays so.
LEMMA StaleShrinks ==
  ASSUME TypeOK, [Next]_vars, NEW call, NEW r
  PROVE  /\ Stale(hist', call, r) \subseteq Stale(hist, call, r)
         /\ StaleTasks(hist', call, r) \subseteq StaleTasks(hist, call, r)
<1>1. \A v : Fresh(hist, call, v) => Fresh(hist', call, v)
  BY FreshGrows
<1>. QED
  BY <1>1 DEF Stale, StaleTasks

\* What is known of a call that waits, ...
LEMMA AskedStep ==
  ASSUME TypeOK, [Next]_vars, NEW d \in Clients, NEW r \in Readers, NEW call \in Call,
         Asked(d, r, call),
         Free(c2s[d], Astray(call.name, r)) /\ Free(ready, AstrayTasks(d, call.name, r))
           => Free(c2s'[d], Astray(call.name, r)) /\ Free(ready', AstrayTasks(d, call.name, r)),
         call.name \in Served
           => InLine(c2s'[d], ready', ReadsOf(r), ReadTasks(d, r),
                     Puts(call.name, call.after), PutTasks(d, call.name, call.after))
  PROVE  Asked(d, r, call)'
<1>1. /\ Free(c2s'[d], Astray(call.name, r)) /\ Free(ready', AstrayTasks(d, call.name, r))
  BY DEF Asked
<1>2. ASSUME call.name \in Served
      PROVE  call.since <= Len(hist'[call.name]) /\ Due(d, call.name, call.after)'
  <2>1. call.since <= Len(hist[call.name]) /\ Due(d, call.name, call.after)
    BY <1>2 DEF Asked
  <2>2. call.after \in Nat /\ call.since \in Nat
    BY DEF Call, Writes
  <2>3. Due(d, call.name, call.after)'
    BY <1>2, <2>1, <2>2, DueStep
  <2>4. Len(hist[call.name]) <= Len(hist'[call.name])
    BY <1>2, HistGrows DEF Grows
  <2>5. hist[call.name] \in Seq(Writes) /\ hist'[call.name] \in Seq(Writes)
    <3>1. TypeOK'
      BY TypeStep
    <3>. QED
      BY <1>2, <3>1 DEF TypeOK
  <2>6. Len(hist[call.name]) \in Nat /\ Len(hist'[call.name]) \in Nat
    BY <2>5, LenProperties
  <2>. QED
    BY <2>1, <2>2, <2>3, <2>4, <2>6
<1>. QED
  BY <1>1, <1>2 DEF Asked

\* ... and of what has come back for it.
LEMMA AnsweredStep ==
  ASSUME TypeOK, [Next]_vars, NEW d \in Clients, NEW r \in Readers, NEW call,
         Answered(d, r, call),
         Free(s2c[d], Stale(hist, call, r)) /\ Free(queue[d], StaleTasks(hist, call, r))
           => Free(s2c'[d], Stale(hist, call, r)) /\ Free(queue'[d], StaleTasks(hist, call, r)),
         result'[d][r] = result[d][r]
  PROVE  Answered(d, r, call)'
<1>1. Free(s2c'[d], Stale(hist, call, r)) /\ Free(queue'[d], StaleTasks(hist, call, r))
  BY DEF Answered
<1>2. Free(s2c'[d], Stale(hist', call, r)) /\ Free(queue'[d], StaleTasks(hist', call, r))
  BY <1>1, StaleShrinks, FreeSubset
<1>3. Fresh(hist', result[d][r].call, result[d][r].val)
  BY FreshGrows DEF Answered
<1>. QED
  BY <1>2, <1>3 DEF Answered

LEMMA ReadQuiet ==
  ASSUME TypeOK, [Next]_vars, NEW d \in Clients, NEW r \in Readers, ReadInv(d, r),
         calls'[d][r] = calls[d][r], result'[d][r] = result[d][r],
         QuietChannel(c2s[d], c2s'[d], FromClient, ReadsOf(r)),
         calls[d][r].name \in Served =>
           QuietChannel(c2s[d], c2s'[d], FromClient, Puts(calls[d][r].name, calls[d][r].after)),
         QuietQueue(ready, ready', ServerTask, HandlersOf(d)),
         QuietChannel(s2c[d], s2c'[d], FromServer, RepliesTo(r)),
         QuietQueue(queue[d], queue'[d], ClientTask, ReplyTasks(r))
  PROVE  ReadInv(d, r)'
<1>1. PICK call \in Call : call = calls[d][r]
  BY DEF TypeOK
<1>2. /\ c2s[d] \in Seq(FromClient) /\ ready \in Seq(ServerTask)
      /\ s2c[d] \in Seq(FromServer) /\ queue[d] \in Seq(ClientTask)
  BY DEF TypeOK
<1>3. /\ Free(c2s[d], ReadsOf(r)) => Free(c2s'[d], ReadsOf(r))
      /\ Free(ready, ReadTasks(d, r)) => Free(ready', ReadTasks(d, r))
      /\ Free(s2c[d], RepliesTo(r)) => Free(s2c'[d], RepliesTo(r))
      /\ Free(queue[d], ReplyTasks(r)) => Free(queue'[d], ReplyTasks(r))
  <2>1. ReadTasks(d, r) \subseteq HandlersOf(d)
    BY TaskSubsets
  <2>. QED
    BY <1>2, <2>1, QuietChannelFree, QuietQueueFree
<1>4. InLine(c2s'[d], ready', ReadsOf(r), ReadTasks(d, r), ReadsOf(r), ReadTasks(d, r))
  <2>1. ReadTasks(d, r) \subseteq HandlersOf(d)
    BY TaskSubsets
  <2>. QED
    BY <1>2, <2>1, QuietLine DEF ReadInv, Single
<1>5. InLine(s2c'[d], queue'[d], RepliesTo(r), ReplyTasks(r), RepliesTo(r), ReplyTasks(r))
  BY <1>2, QuietLine DEF ReadInv, Single
<1>6. Single(d, r)'
  BY <1>3, <1>4, <1>5 DEF ReadInv, Single, NotAsked, NotAnswered
<1>7. Asked(d, r, call)'
  <2>1. Free(c2s[d], Astray(call.name, r)) /\ Free(ready, AstrayTasks(d, call.name, r))
          => Free(c2s'[d], Astray(call.name, r)) /\ Free(ready', AstrayTasks(d, call.name, r))
    <3>1. PICK A, AT : A = Astray(call.name, r) /\ AT = AstrayTasks(d, call.name, r)
      OBVIOUS
    <3>2. A \subseteq ReadsOf(r) /\ AT \subseteq HandlersOf(d)
      BY <3>1, TaskSubsets
    <3>3. Free(c2s[d], A) => Free(c2s'[d], A)
      BY <1>2, <3>2, QuietChannelFree, QuietQueueFree
    <3>4. Free(ready, AT) => Free(ready', AT)
      BY <1>2, <3>2, QuietChannelFree, QuietQueueFree
    <3>. QED
      BY <3>1, <3>3, <3>4
  <2>2. ASSUME call.name \in Served
        PROVE  InLine(c2s'[d], ready', ReadsOf(r), ReadTasks(d, r),
                      Puts(call.name, call.after), PutTasks(d, call.name, call.after))
    <3>1. PICK P, PT, R, RT : /\ P = Puts(call.name, call.after) /\ R = ReadsOf(r)
                              /\ PT = PutTasks(d, call.name, call.after) /\ RT = ReadTasks(d, r)
      OBVIOUS
    <3>2. PT \subseteq HandlersOf(d) /\ RT \subseteq HandlersOf(d)
      BY <3>1, TaskSubsets
    <3>3. InLine(c2s[d], ready, R, RT, P, PT) /\ QuietChannel(c2s[d], c2s'[d], FromClient, P)
      BY <1>1, <2>2, <3>1 DEF ReadInv, Asked
    <3>4. InLine(c2s'[d], ready', R, RT, P, PT)
      BY <1>2, <3>2, <3>3, QuietLine
    <3>. QED
      BY <3>1, <3>4
  <2>3. Asked(d, r, call)
    BY <1>1 DEF ReadInv
  <2>. QED
    BY <2>1, <2>2, <2>3, AskedStep
<1>8. Answered(d, r, call)'
  <2>1. Free(s2c[d], Stale(hist, call, r)) /\ Free(queue[d], StaleTasks(hist, call, r))
          => Free(s2c'[d], Stale(hist, call, r)) /\ Free(queue'[d], StaleTasks(hist, call, r))
    <3>1. PICK A, AT : A = Stale(hist, call, r) /\ AT = StaleTasks(hist, call, r)
      OBVIOUS
    <3>2. A \subseteq RepliesTo(r) /\ AT \subseteq ReplyTasks(r)
      BY <3>1, TaskSubsets
    <3>. QED
      BY <1>2, <3>1, <3>2, QuietChannelFree, QuietQueueFree
  <2>2. Answered(d, r, call)
    BY <1>1 DEF ReadInv
  <2>. QED
    BY <2>1, <2>2, AnsweredStep
<1>. QED
  BY <1>1, <1>6, <1>7, <1>8 DEF ReadInv, Asked, Answered, Due, Made

LEMMA InLineFree ==
  ASSUME NEW chan, NEW q, NEW S, NEW ST, NEW Z, NEW ZT, Free(chan, S), Free(q, ST)
  PROVE  InLine(chan, q, S, ST, Z, ZT)
BY DEF InLine, NoneBehind, Free

LEMMA FreeOne ==
  ASSUME NEW T, NEW Y, NEW x \in T, x \notin Y
  PROVE  <<x>> \in Seq(T) /\ Free(<<x>>, Y)
<1>1. DOMAIN <<x>> = {1} /\ <<x>>[1] = x /\ <<x>> \in Seq(T)
  OBVIOUS
<1>. QED
  BY <1>1 DEF Free

LEMMA QuietSame ==
  ASSUME NEW T, NEW Y, NEW q \in Seq(T)
  PROVE  /\ QuietQueue(q, q, T, Y)
         /\ q # <<>> => QuietQueue(q, Tail(q), T, Y)
         /\ \A x \in T : x \notin Y =>
              /\ QuietQueue(q, Append(q, x), T, Y)
              /\ q # <<>> => QuietQueue(q, Append(Tail(q), x), T, Y)
<1>1. <<>> \in Seq(T) /\ Free(<<>>, Y) /\ q = q \o <<>>
  BY ConcatEmptySeq DEF Free
<1>2. QuietQueue(q, q, T, Y)
  BY <1>1 DEF QuietQueue
<1>3. ASSUME NEW x \in T, x \notin Y
      PROVE  QuietQueue(q, Append(q, x), T, Y)
  <2>1. <<x>> \in Seq(T) /\ Free(<<x>>, Y)
    BY <1>3, FreeOne
  <2>2. Append(q, x) = q \o <<x>>
    BY AppendIsConcat
  <2>. QED
    BY <2>1, <2>2 DEF QuietQueue
<1>4. ASSUME q # <<>>
      PROVE  /\ QuietQueue(q, Tail(q), T, Y)
             /\ \A x \in T : x \notin Y => QuietQueue(q, Append(Tail(q), x), T, Y)
  <2>1. Tail(q) \in Seq(T)
    BY <1>4, HeadTailProperties
  <2>2. Tail(q) = Tail(q) \o <<>>
    BY <2>1, ConcatEmptySeq
  <2>3. ASSUME NEW x \in T, x \notin Y
        PROVE  QuietQueue(q, Append(Tail(q), x), T, Y)
    <3>1. <<x>> \in Seq(T) /\ Free(<<x>>, Y)
      BY <2>3, FreeOne
    <3>2. Append(Tail(q), x) = Tail(q) \o <<x>>
      BY <2>1, AppendIsConcat
    <3>. QED
      BY <1>4, <3>1, <3>2 DEF QuietQueue
  <2>4. QuietQueue(q, Tail(q), T, Y)
    BY <1>1, <1>4, <2>2 DEF QuietQueue
  <2>. QED
    BY <2>3, <2>4
<1>. QED
  BY <1>2, <1>3, <1>4

LEMMA QuietByMoves ==
  ASSUME TypeOK, [Next]_vars, ~ServerListen, NEW d
  PROVE  QuietQueue(ready, ready', ServerTask, HandlersOf(d))
<1>1. PICK xs \in Seq(ServerTask) :
        NoHandlers(xs) /\ (ready' = ready \o xs \/ (ready # <<>> /\ ready' = Tail(ready) \o xs))
  BY ReadyMoves DEF QuietReady
<1>2. Free(xs, HandlersOf(d))
  BY <1>1 DEF NoHandlers, Free, HandlersOf
<1>. QED
  BY <1>1, <1>2 DEF QuietQueue

(***************************************************************************)
(* The steps, seen from read r of client d.                                *)
(***************************************************************************)
LEMMA ReadClients ==
  ASSUME TypeOK, NEW d \in Clients
  PROVE  /\ c2s[d] \in Seq(FromClient) /\ ready \in Seq(ServerTask)
         /\ s2c[d] \in Seq(FromServer) /\ queue[d] \in Seq(ClientTask)
BY DEF TypeOK

\* A message that is not this read and has a new value, if it has any.
LEMMA RequestQuiet ==
  ASSUME TypeOK, NEW d \in Clients, NEW r \in Readers, ReadInv(d, r),
         NEW c \in Clients, NEW x \in FromClient, Request(c, x),
         c = d => x \notin ReadsOf(r), x.command = "CHAN_SEND" => x.data = writes + 1
  PROVE  /\ QuietChannel(c2s[d], c2s'[d], FromClient, ReadsOf(r))
         /\ calls[d][r].name \in Served =>
              QuietChannel(c2s[d], c2s'[d], FromClient, Puts(calls[d][r].name, calls[d][r].after))
<1>1. CASE c # d
  BY <1>1 DEF Request, TypeOK, QuietChannel
<1>2. CASE c = d
  <2>1. c2s'[d] = Append(c2s[d], x)
    BY <1>2 DEF Request, TypeOK
  <2>2. ASSUME calls[d][r].name \in Served
        PROVE  x \notin Puts(calls[d][r].name, calls[d][r].after)
    <3>1. calls[d][r].after <= writes /\ writes \in Nat /\ calls[d][r].after \in Nat
      BY <2>2 DEF ReadInv, Asked, Due, TypeOK, Call, Writes
    <3>2. calls[d][r].after # writes + 1
      BY <3>1
    <3>. QED
      BY <3>2 DEF Puts
  <2>. QED
    BY <1>2, <2>1, <2>2 DEF QuietChannel
<1>. QED
  BY <1>1, <1>2

\* The user's calls, but the read itself.
LEMMA ReadUserCalls ==
  ASSUME TypeOK, [Next]_vars, NEW d \in Clients, NEW r \in Readers, ReadInv(d, r),
         NEW c \in Clients,
         \/ Close(c)
         \/ \E m \in Names : Subscribe(c, m) \/ Unsubscribe(c, m) \/ Write(c, m)
         \/ \E m \in Names, e \in Readers : Read(c, m, e) /\ ~(c = d /\ e = r)
  PROVE  ReadInv(d, r)'
<1>1. QuietQueue(ready, ready, ServerTask, HandlersOf(d))
  BY ReadClients, QuietSame
<1>2. QuietQueue(queue[d], queue[d], ClientTask, ReplyTasks(r))
  BY ReadClients, QuietSame
<1>3. ASSUME \/ s2c'[d] = s2c[d]
             \/ s2c'[d] = <<>>,
             ready' = ready, queue' = queue, result' = result, calls'[d][r] = calls[d][r],
             \/ c2s' = c2s
             \/ \E x \in FromClient :
                  /\ Request(c, x) /\ (c = d => x \notin ReadsOf(r))
                  /\ x.command = "CHAN_SEND" => x.data = writes + 1
      PROVE  ReadInv(d, r)'
  <2>1. /\ QuietChannel(c2s[d], c2s'[d], FromClient, ReadsOf(r))
        /\ calls[d][r].name \in Served =>
             QuietChannel(c2s[d], c2s'[d], FromClient, Puts(calls[d][r].name, calls[d][r].after))
    <3>1. CASE c2s' = c2s
      BY <3>1 DEF QuietChannel
    <3>. QED
      BY <1>3, <3>1, RequestQuiet
  <2>2. QuietChannel(s2c[d], s2c'[d], FromServer, RepliesTo(r))
    BY <1>3 DEF QuietChannel
  <2>3. /\ QuietQueue(ready, ready', ServerTask, HandlersOf(d))
        /\ QuietQueue(queue[d], queue'[d], ClientTask, ReplyTasks(r))
    BY <1>1, <1>2, <1>3
  <2>. QED
    BY <1>3, <2>1, <2>2, <2>3, ReadQuiet
<1>4. CASE Close(c)
  <2>. DEFINE x == Msg("CLOSE", None, None, 0)
  <2>1. x \in FromClient /\ x \notin ReadsOf(r) /\ x.command # "CHAN_SEND"
    <3>1. x \in FromClient
      BY MessageTypes
    <3>. QED
      BY <3>1 DEF ReadsOf, Msg
  <2>2. Request(c, x)
    BY <1>4 DEF Close
  <2>. HIDE DEF x
  <2>3. s2c'[d] = s2c[d] \/ s2c'[d] = <<>>
    BY <1>4 DEF Close, TypeOK
  <2>4. ready' = ready /\ queue' = queue /\ result' = result /\ calls' = calls
    BY <1>4 DEF Close, serverVars, history
  <2>. QED
    BY <1>3, <2>1, <2>2, <2>3, <2>4
<1>5. ASSUME NEW m \in Names, Subscribe(c, m) \/ Unsubscribe(c, m)
      PROVE  ReadInv(d, r)'
  <2>1. \A command \in WatchCommands :
          LET x == Msg(command, m, None, 0) IN
            x \in FromClient /\ x \notin ReadsOf(r) /\ x.command # "CHAN_SEND"
    <3>1. ASSUME NEW command \in WatchCommands PROVE Msg(command, m, None, 0) \in FromClient
      BY MessageTypes
    <3>. QED
      BY <3>1 DEF ReadsOf, Msg, WatchCommands
  <2>2. \/ c2s' = c2s
        \/ \E command \in WatchCommands : Request(c, Msg(command, m, None, 0))
    BY <1>5 DEF Subscribe, Unsubscribe, WatchCommands
  <2>3. /\ s2c' = s2c /\ ready' = ready /\ queue' = queue /\ result' = result /\ calls' = calls
    BY <1>5 DEF Subscribe, Unsubscribe, serverVars, history
  <2>4. \/ c2s' = c2s
        \/ \E x \in FromClient : Request(c, x) /\ x \notin ReadsOf(r) /\ x.command # "CHAN_SEND"
    BY <2>1, <2>2
  <2>. QED
    BY <1>3, <2>3, <2>4
<1>6. ASSUME NEW m \in Names, Write(c, m)
      PROVE  ReadInv(d, r)'
  <2>. DEFINE x == Msg("CHAN_SEND", m, writes + 1, 0)
  <2>1. writes + 1 \in Writes
    BY <1>6, SyncAssumption DEF Write, Writes, TypeOK
  <2>2. x \in FromClient
    BY <2>1, MessageTypes
  <2>3. x \notin ReadsOf(r) /\ x.data = writes + 1
    BY DEF ReadsOf, Msg
  <2>4. Request(c, x)
    BY <1>6 DEF Write
  <2>. HIDE DEF x
  <2>5. /\ s2c' = s2c /\ ready' = ready /\ queue' = queue /\ result' = result /\ calls' = calls
    BY <1>6 DEF Write, serverVars
  <2>. QED
    BY <1>3, <2>2, <2>3, <2>4, <2>5
<1>7. ASSUME NEW m \in Names, NEW e \in Readers, Read(c, m, e), ~(c = d /\ e = r)
      PROVE  ReadInv(d, r)'
  <2>. DEFINE x == Msg("CHAN_READ", m, None, e)
  <2>1. x \in FromClient
    BY MessageTypes
  <2>2. (c = d => x \notin ReadsOf(r)) /\ x.command # "CHAN_SEND"
    BY <1>7 DEF ReadsOf, Msg
  <2>3. Request(c, x)
    BY <1>7 DEF Read
  <2>. HIDE DEF x
  <2>4. /\ s2c' = s2c /\ ready' = ready /\ queue' = queue /\ result' = result
    BY <1>7 DEF Read, serverVars, history
  <2>5. calls'[d][r] = calls[d][r]
    BY <1>7 DEF Read, TypeOK
  <2>. QED
    BY <1>3, <2>1, <2>2, <2>3, <2>4, <2>5
<1>. QED
  BY <1>4, <1>5, <1>6, <1>7

\* The read itself: nothing of r is on its way, and the client's last write
\* is not behind it.
LEMMA ReadStarts ==
  ASSUME TypeOK, WriteInv, [Next]_vars, NEW d \in Clients, NEW r \in Readers, ReadInv(d, r),
         NEW n \in Names, Read(d, n, r)
  PROVE  ReadInv(d, r)'
<1>1. PICK call : call = [name |-> n, cached |-> Subscribed(d, n),
                          since |-> IF n \in Served THEN Len(hist[n]) ELSE 0,
                          after |-> wrote[d][n]]
  OBVIOUS
<1>2. calls'[d][r] = call /\ call.name = n /\ call.after = wrote[d][n] /\ call # Idle
  BY <1>1, SyncAssumption DEF Read, TypeOK, Idle
<1>3. PICK x : x = Msg("CHAN_READ", n, None, r)
  OBVIOUS
<1>4. x \in FromClient /\ c2s'[d] = Append(c2s[d], x)
  BY <1>3, MessageTypes DEF Read, Request, TypeOK
<1>5. ready' = ready /\ s2c' = s2c /\ queue' = queue /\ result' = result /\ hist' = hist
  BY DEF Read, serverVars, history
<1>6. NotAsked(d, r) /\ NotAnswered(d, r)
  BY DEF Read, ReadInv, Single
<1>7. Free(c2s[d], ReadsOf(r)) /\ Free(ready, ReadTasks(d, r))
  BY <1>6 DEF NotAsked
<1>8. Free(s2c[d], RepliesTo(r)) /\ Free(queue[d], ReplyTasks(r))
  BY <1>6 DEF NotAnswered
<1>9. ASSUME NEW Z, NEW ZT
      PROVE  InLine(c2s'[d], ready', ReadsOf(r), ReadTasks(d, r), Z, ZT)
  <2>1. InLine(c2s[d], ready, ReadsOf(r), ReadTasks(d, r), Z, ZT)
    BY <1>7, InLineFree
  <2>2. InLine(Append(c2s[d], x), ready, ReadsOf(r), ReadTasks(d, r), Z, ZT)
    BY <1>4, <1>7, <2>1, ReadClients, InLineAppend
  <2>. QED
    BY <1>4, <1>5, <2>2
<1>10. Single(d, r)'
  <2>1. InLine(s2c'[d], queue'[d], RepliesTo(r), ReplyTasks(r), RepliesTo(r), ReplyTasks(r))
    BY <1>5 DEF ReadInv, Single
  <2>2. InLine(c2s'[d], ready', ReadsOf(r), ReadTasks(d, r), ReadsOf(r), ReadTasks(d, r))
    BY <1>9
  <2>3. Free(s2c'[d], RepliesTo(r)) /\ Free(queue'[d], ReplyTasks(r))
    BY <1>5, <1>8
  <2>4. calls'[d][r] # Idle
    BY <1>2
  <2>. QED
    BY <2>1, <2>2, <2>3, <2>4 DEF Single, NotAnswered
<1>11. Free(c2s'[d], Astray(n, r)) /\ Free(ready', AstrayTasks(d, n, r))
  <2>1. Free(c2s[d], Astray(n, r))
    BY <1>7, TaskSubsets, FreeSubset
  <2>2. Free(ready, AstrayTasks(d, n, r))
    BY <1>7, FreeSubset DEF AstrayTasks
  <2>3. x \notin Astray(n, r)
    BY <1>3 DEF Astray, Msg
  <2>4. Free(Append(c2s[d], x), Astray(n, r))
    BY <1>4, <2>1, <2>3, ReadClients, AppendFree
  <2>. QED
    BY <1>4, <1>5, <2>2, <2>4
<1>12. ASSUME n \in Served
       PROVE  call.since <= Len(hist'[n]) /\ Due(d, n, call.after)'
  <2>1. call.since = Len(hist[n]) /\ Len(hist[n]) \in Nat
    BY <1>1, <1>12, LenProperties DEF TypeOK
  <2>2. PICK w \in Nat : w = wrote[d][n]
    BY DEF TypeOK, Writes
  <2>3. Due(d, n, w)'
    BY <1>12, <2>2, DueStep DEF WriteInv
  <2>. QED
    BY <1>2, <1>5, <2>1, <2>2, <2>3 DEF Due
<1>13. Asked(d, r, call)'
  <2>1. InLine(c2s'[d], ready', ReadsOf(r), ReadTasks(d, r),
               Puts(n, call.after), PutTasks(d, n, call.after))
    BY <1>9
  <2>. QED
    BY <1>2, <1>11, <1>12, <2>1 DEF Asked
<1>14. Answered(d, r, call)'
  <2>1. Free(s2c[d], Stale(hist, call, r)) /\ Free(queue[d], StaleTasks(hist, call, r))
    <3>1. PICK A, AT : A = Stale(hist, call, r) /\ AT = StaleTasks(hist, call, r)
      OBVIOUS
    <3>2. A \subseteq RepliesTo(r) /\ AT \subseteq ReplyTasks(r)
      BY <3>1, TaskSubsets
    <3>. QED
      BY <1>8, <3>1, <3>2, FreeSubset
  <2>2. Fresh(hist, result[d][r].call, result[d][r].val)
    BY DEF ReadInv, Answered
  <2>. QED
    BY <1>5, <2>1, <2>2 DEF Answered
<1>. QED
  BY <1>2, <1>10, <1>13, <1>14 DEF ReadInv, Asked, Answered, Due, Made

LEMMA ReadLoopQuiet ==
  ASSUME TypeOK, [Next]_vars, ~ServerListen, NEW d \in Clients, NEW r \in Readers, ReadInv(d, r),
         calls'[d][r] = calls[d][r], result'[d][r] = result[d][r], c2s' = c2s,
         QuietChannel(s2c[d], s2c'[d], FromServer, RepliesTo(r)),
         QuietQueue(queue[d], queue'[d], ClientTask, ReplyTasks(r))
  PROVE  ReadInv(d, r)'
<1>1. QuietQueue(ready, ready', ServerTask, HandlersOf(d))
  BY QuietByMoves
<1>2. \A Y : QuietChannel(c2s[d], c2s'[d], FromClient, Y)
  BY DEF QuietChannel
<1>. QED
  BY <1>1, <1>2, ReadQuiet

\* The client's event loop, where what it runs is not the reply to r.
LEMMA ReadOtherClient ==
  ASSUME TypeOK, [Next]_vars, ~ServerListen, NEW d \in Clients, NEW r \in Readers, ReadInv(d, r),
         NEW c \in Clients, c # d, ClientStep(c)
  PROVE  ReadInv(d, r)'
<1>1. queue \in [Clients -> Seq(ClientTask)] /\ s2c \in [Clients -> Seq(FromServer)]
  BY DEF TypeOK
<1>2. /\ c2s' = c2s /\ queue'[d] = queue[d] /\ s2c'[d] = s2c[d]
      /\ calls'[d][r] = calls[d][r] /\ result'[d][r] = result[d][r]
  <2>1. CASE ClientListen(c)
    BY <1>1, <2>1 DEF ClientListen, history
  <2>2. CASE DispatchEvent(c)
    BY <1>1, <2>2 DEF DispatchEvent
  <2>3. CASE DispatchReply(c)
    BY <1>1, <2>3 DEF DispatchReply, history
  <2>4. CASE WakeRead(c)
    BY <1>1, <2>4 DEF WakeRead, TypeOK
  <2>. QED
    BY <2>1, <2>2, <2>3, <2>4 DEF ClientStep
<1>3. QuietQueue(queue[d], queue'[d], ClientTask, ReplyTasks(r))
  BY <1>2, ReadClients, QuietSame
<1>4. QuietChannel(s2c[d], s2c'[d], FromServer, RepliesTo(r))
  BY <1>2 DEF QuietChannel
<1>. QED
  BY <1>2, <1>3, <1>4, ReadLoopQuiet

LEMMA ReadClientLoop ==
  ASSUME TypeOK, [Next]_vars, ~ServerListen, NEW d \in Clients, NEW r \in Readers, ReadInv(d, r),
         NEW c \in Clients,
         \/ Arrive(c) \/ DispatchEvent(c)
         \/ (DispatchReply(c) \/ WakeRead(c)) /\ Head(queue[c]).msg.seq # r
  PROVE  ReadInv(d, r)'
<1>1. /\ queue[d] \in Seq(ClientTask) /\ s2c[d] \in Seq(FromServer)
      /\ queue \in [Clients -> Seq(ClientTask)]
  BY DEF TypeOK
<1>2. c2s' = c2s /\ s2c' = s2c
  <2>1. CASE Arrive(c)
    BY <2>1 DEF Arrive, ServerArrive, ClientArrive
  <2>2. CASE DispatchEvent(c)
    BY <2>2 DEF DispatchEvent
  <2>3. CASE DispatchReply(c)
    BY <2>3 DEF DispatchReply
  <2>4. CASE WakeRead(c)
    BY <2>4 DEF WakeRead
  <2>. QED
    BY <2>1, <2>2, <2>3, <2>4
<1>3. calls'[d][r] = calls[d][r] /\ result'[d][r] = result[d][r]
  <2>1. CASE WakeRead(c) /\ Head(queue[c]).msg.seq # r
    BY <2>1 DEF WakeRead, TypeOK
  <2>2. CASE Arrive(c)
    BY <2>2 DEF Arrive, ServerArrive, ClientArrive, clientVars, history
  <2>3. CASE DispatchEvent(c) \/ DispatchReply(c)
    BY <2>3 DEF DispatchEvent, DispatchReply, history
  <2>. QED
    BY <2>1, <2>2, <2>3
<1>4. QuietChannel(s2c[d], s2c'[d], FromServer, RepliesTo(r))
  BY <1>2 DEF QuietChannel
<1>5. QuietQueue(queue[d], queue'[d], ClientTask, ReplyTasks(r))
  <2>1. CASE queue'[d] = queue[d]
    BY <1>1, <2>1, QuietSame
  <2>2. CASE queue[d] # <<>> /\ queue'[d] = Tail(queue[d])
    BY <1>1, <2>2, QuietSame
  <2>3. CASE ServerArrive(c)
    BY <2>1, <2>3 DEF ServerArrive, clientVars
  <2>4. CASE ClientArrive(c)
    <3>. DEFINE t == Task("listen", c, NoMsg)
    <3>1. t \in ClientTask /\ t \notin ReplyTasks(r)
      BY TaskTypes DEF Task, ReplyTasks, RepliesTo, NoMsg, Msg
    <3>2. queue'[d] = queue[d] \/ queue'[d] = Append(queue[d], t)
      BY <1>1, <2>4 DEF ClientArrive
    <3>. HIDE DEF t
    <3>3. QuietQueue(queue[d], Append(queue[d], t), ClientTask, ReplyTasks(r))
      <4>1. PICK q, Y : q = queue[d] /\ Y = ReplyTasks(r) /\ q \in Seq(ClientTask)
        BY <1>1
      <4>2. \A x \in ClientTask : x \notin Y => QuietQueue(q, Append(q, x), ClientTask, Y)
        BY <4>1, QuietSame
      <4>. QED
        BY <3>1, <4>1, <4>2
    <3>. QED
      BY <2>1, <3>2, <3>3
  <2>5. CASE DispatchEvent(c) \/ WakeRead(c)
    <3>1. queue[c] # <<>> /\ queue' = [queue EXCEPT ![c] = Tail(queue[c])]
      <4>1. CASE DispatchEvent(c)
        BY <4>1 DEF DispatchEvent, Running
      <4>2. CASE WakeRead(c)
        BY <4>2 DEF WakeRead, Running
      <4>. QED
        BY <2>5, <4>1, <4>2
    <3>2. queue'[d] = queue[d] \/ (queue[d] # <<>> /\ queue'[d] = Tail(queue[d]))
      BY <1>1, <3>1
    <3>. QED
      BY <2>1, <2>2, <3>2
  <2>6. CASE DispatchReply(c) /\ Head(queue[c]).msg.seq # r
    <3>. DEFINE m == Head(queue[c]).msg
                t == Task("wake", c, m)
    <3>1. queue[c] # <<>> /\ queue' = [queue EXCEPT ![c] = Append(Tail(queue[c]), t)]
      BY <2>6 DEF DispatchReply, Running
    <3>2. Head(queue[c]) \in ClientTask
      BY <1>1, <3>1, HeadTailProperties
    <3>3. m \in FromServer /\ m.command = "REPLY"
      BY <2>6, <3>2, TaskShapes DEF DispatchReply, Running
    <3>4. t \in ClientTask
      BY <3>3, MessageShapes, TaskTypes
    <3>5. t \notin ReplyTasks(r)
      BY <2>6 DEF Task, ReplyTasks, RepliesTo
    <3>. HIDE DEF t, m
    <3>6. CASE c = d
      <4>1. QuietQueue(queue[d], Append(Tail(queue[d]), t), ClientTask, ReplyTasks(r))
        BY <1>1, <3>1, <3>4, <3>5, <3>6, QuietSame
      <4>2. queue'[d] = Append(Tail(queue[d]), t)
        BY <1>1, <3>1, <3>6
      <4>. QED
        BY <4>1, <4>2
    <3>7. CASE c # d
      BY <1>1, <2>1, <3>1, <3>7
    <3>. QED
      BY <3>6, <3>7
  <2>. QED
    BY <2>3, <2>4, <2>5, <2>6 DEF Arrive
<1>. QED
  BY <1>2, <1>3, <1>4, <1>5, ReadLoopQuiet

\* The server's event loop, where what it runs is not the handler of r.
LEMMA ReadServerLoop ==
  ASSUME TypeOK, [Next]_vars, ~ServerListen, NEW d \in Clients, NEW r \in Readers, ReadInv(d, r),
         \/ ServerStep /\ (OnPropertyGet => Head(ready).conn # d \/ Head(ready).msg.seq # r)
         \/ \E n \in Served : ServerSet(n)
  PROVE  ReadInv(d, r)'
<1>1. calls' = calls /\ queue' = queue /\ result' = result /\ c2s' = c2s
  <2>1. CASE OnPropertySet \/ OnPropertyGet \/ OnPropertyWatch
    BY <2>1 DEF OnPropertySet, OnPropertyGet, OnPropertyWatch, clientVars, history
  <2>3. CASE OnPropertyUnwatch \/ Broadcast \/ PropSend
    BY <2>3 DEF OnPropertyUnwatch, Broadcast, PropSend, clientVars, history
  <2>2. CASE \E n \in Served : ServerSet(n)
    BY <2>2 DEF ServerSet, clientVars, history
  <2>. QED
    BY <2>1, <2>2, <2>3 DEF ServerStep
<1>2. QuietQueue(queue[d], queue'[d], ClientTask, ReplyTasks(r))
  BY <1>1, ReadClients, QuietSame
<1>3. QuietChannel(s2c[d], s2c'[d], FromServer, RepliesTo(r))
  <2>1. CASE s2c' = s2c
    BY <2>1 DEF QuietChannel
  <2>2. ASSUME NEW c \in Clients, NEW m \in FromServer, Deliver(c, m), c = d => m \notin RepliesTo(r)
        PROVE  QuietChannel(s2c[d], s2c'[d], FromServer, RepliesTo(r))
    BY <2>2, Delivered DEF QuietChannel
  <2>3. CASE \/ \E n \in Served : ServerSet(n)
             \/ OnPropertySet \/ OnPropertyUnwatch \/ Broadcast
    BY <2>1, <2>3 DEF ServerSet, OnPropertySet, OnPropertyUnwatch, Broadcast
  <2>. DEFINE h == Head(ready)
  <2>4. ServerStep => h \in ServerTask
    BY ServerHead
  <2>5. CASE OnPropertyWatch
    <3>1. h.conn \in Clients /\ h.msg.name \in Names
      BY <2>4, <2>5, HandledMessage, MessageShapes DEF OnPropertyWatch, ServerStep, WatchCommands
    <3>2. CASE h.msg.name \in Served
      <4>. DEFINE m == Msg("EVENT", h.msg.name, value[h.msg.name], 0)
      <4>1. m \in FromServer /\ m \notin RepliesTo(r)
        <5>1. m \in FromServer
          BY <3>2, MessageTypes DEF TypeOK, FromServer
        <5>. QED
          BY <5>1 DEF RepliesTo, Msg
      <4>2. Deliver(h.conn, m)
        BY <2>5, <3>2 DEF OnPropertyWatch
      <4>. HIDE DEF m
      <4>. QED
        BY <2>2, <3>1, <4>1, <4>2
    <3>. QED
      BY <2>1, <2>5, <3>2 DEF OnPropertyWatch
  <2>6. CASE PropSend
    <3>1. h.conn \in Clients /\ h.msg \in EventMessage
      BY <2>4, <2>6, TaskShapes DEF PropSend, Serving, ServerStep
    <3>2. h.msg \in FromServer /\ h.msg \notin RepliesTo(r)
      BY <3>1 DEF FromServer, EventMessage, Shape, RepliesTo
    <3>3. Deliver(h.conn, h.msg)
      BY <2>6 DEF PropSend
    <3>. QED
      BY <2>2, <3>1, <3>2, <3>3
  <2>7. CASE OnPropertyGet /\ (h.conn # d \/ h.msg.seq # r)
    <3>. DEFINE m == Msg("REPLY", None, IF h.msg.name \in Served THEN value[h.msg.name] ELSE Error,
                         h.msg.seq)
    <3>1. h.conn \in Clients /\ h.msg.name \in Names /\ h.msg.seq \in Readers
      BY <2>4, <2>7, HandledMessage, MessageShapes DEF OnPropertyGet, ServerStep
    <3>2. m \in FromServer
      BY <3>1, MessageTypes DEF TypeOK, FromServer
    <3>3. h.conn = d => m \notin RepliesTo(r)
      BY <2>7 DEF RepliesTo, Msg
    <3>4. Deliver(h.conn, m)
      BY <2>7 DEF OnPropertyGet
    <3>. HIDE DEF m
    <3>. QED
      BY <2>2, <3>1, <3>2, <3>3, <3>4
  <2>. QED
    BY <2>3, <2>5, <2>6, <2>7 DEF ServerStep
<1>. QED
  BY <1>1, <1>2, <1>3, ReadLoopQuiet

\* The head of a line, when it is the one message or task of its kind.
LEMMA InLineHead ==
  ASSUME NEW T, NEW ST, NEW Z, NEW ZT, NEW S, NEW chan, NEW q \in Seq(T), q # <<>>,
         InLine(chan, q, S, ST, Z, ZT), Head(q) \in ST
  PROVE  Free(Tail(q), ZT) /\ Free(chan, Z)
<1>1. Free(Tail(q), ZT)
  BY HeadOrder DEF InLine
<1>2. ~Free(q, ST)
  BY LastHead
<1>. QED
  BY <1>1, <1>2 DEF InLine

\* The server's listener.
LEMMA ReadServerListen ==
  ASSUME TypeOK, [Next]_vars, ServerListen, NEW d \in Clients, NEW r \in Readers, ReadInv(d, r)
  PROVE  ReadInv(d, r)'
<1>1. PICK c \in Clients : \E k \in 0..Len(c2s[c]) : \E n \in 0..k :
           /\ ready # <<>>
           /\ ready' = Tail(ready) \o HandleAll("handle", c, c2s[c], n)
           /\ c2s' = [c2s EXCEPT ![c] = Drop(c2s[c], k)]
           /\ s2c' = s2c /\ UNCHANGED <<clientVars, hist, history, writes, ops>>
  BY ListenMoves
<1>2. PICK k \in 0..Len(c2s[c]) : \E n \in 0..k :
           /\ ready # <<>>
           /\ ready' = Tail(ready) \o HandleAll("handle", c, c2s[c], n)
           /\ c2s' = [c2s EXCEPT ![c] = Drop(c2s[c], k)]
           /\ s2c' = s2c /\ UNCHANGED <<clientVars, hist, history, writes, ops>>
  BY <1>1
<1>3. PICK n \in 0..k :
           /\ ready # <<>>
           /\ ready' = Tail(ready) \o HandleAll("handle", c, c2s[c], n)
           /\ c2s' = [c2s EXCEPT ![c] = Drop(c2s[c], k)]
           /\ s2c' = s2c /\ UNCHANGED <<clientVars, hist, history, writes, ops>>
  BY <1>2
<1>4. c2s[c] \in Seq(FromClient) /\ ready \in Seq(ServerTask)
  BY ReadClients
<1>5. \A m \in FromClient : Task("handle", c, m) \in ServerTask
  BY TaskTypes
<1>6. s2c' = s2c /\ queue' = queue /\ calls' = calls /\ result' = result /\ hist' = hist
  BY <1>3 DEF clientVars, history
<1>7. CASE c # d
  <2>1. c2s'[d] = c2s[d]
    BY <1>3, <1>7 DEF TypeOK
  <2>2. PICK xs : xs = HandleAll("handle", c, c2s[c], n)
    OBVIOUS
  <2>3. n \in 0..Len(c2s[c])
    BY <1>4, LenProperties
  <2>4. xs \in Seq(ServerTask) /\ DOMAIN xs = 1..n
        /\ \A i \in 1..n : xs[i] = Task("handle", c, c2s[c][i])
    BY SMTT(30), <1>4, <1>5, <2>2, <2>3, HandleAllType DEF HandleAll
  <2>5. Free(xs, HandlersOf(d))
    BY <1>7, <2>4 DEF Free, HandlersOf, Task
  <2>6. QuietQueue(ready, ready', ServerTask, HandlersOf(d))
    BY <1>3, <2>2, <2>4, <2>5 DEF QuietQueue
  <2>7. QuietQueue(queue[d], queue'[d], ClientTask, ReplyTasks(r))
    BY <1>6, ReadClients, QuietSame
  <2>8. /\ \A Y : QuietChannel(c2s[d], c2s'[d], FromClient, Y)
        /\ \A Y : QuietChannel(s2c[d], s2c'[d], FromServer, Y)
    BY <1>6, <2>1 DEF QuietChannel
  <2>. QED
    BY <1>6, <2>6, <2>7, <2>8, ReadQuiet
<1>8. CASE c = d
  <2>1. PICK s : s = c2s[d]
    OBVIOUS
  <2>2. /\ s \in Seq(FromClient) /\ k \in 0..Len(s) /\ c2s'[d] = Drop(s, k)
        /\ ready' = Tail(ready) \o HandleAll("handle", d, s, n)
    BY <1>3, <1>4, <1>8, <2>1 DEF TypeOK
  <2>3. \A m \in FromClient : Task("handle", d, m) \in ServerTask
    BY <1>5, <1>8
  <2>4. PICK R, RT : R = ReadsOf(r) /\ RT = ReadTasks(d, r)
    OBVIOUS
  <2>5. \A m \in FromClient : Task("handle", d, m) \in RT <=> m \in R
    BY <2>3, <2>4 DEF ReadTasks, Task
  <2>6. ASSUME NEW Z, NEW ZT, InLine(s, ready, R, RT, Z, ZT),
               \A m \in FromClient : Task("handle", d, m) \in ZT <=> m \in Z
        PROVE  InLine(c2s'[d], ready', R, RT, Z, ZT)
    <3>1. InLine(Drop(s, k), Tail(ready) \o HandleAll("handle", d, s, n), R, RT, Z, ZT)
      BY <1>3, <1>4, <2>2, <2>3, <2>5, <2>6, InLineListen
    <3>. QED
      BY <2>2, <3>1
  <2>7. ASSUME NEW Z, NEW ZT, \A m \in FromClient : Task("handle", d, m) \in ZT <=> m \in Z,
               Free(s, Z), Free(ready, ZT)
        PROVE  Free(c2s'[d], Z) /\ Free(ready', ZT)
    <3>1. \A m \in FromClient : /\ Task("handle", d, m) \in ServerTask
                                /\ Task("handle", d, m) \in ZT <=> m \in Z
      BY <2>3, <2>7
    <3>2. /\ Free(s, Z) => Free(Drop(s, k), Z)
          /\ Free(s, Z) /\ Free(ready, ZT)
               => Free(Tail(ready) \o HandleAll("handle", d, s, n), ZT)
      BY <1>3, <1>4, <2>2, <3>1, FreeListen
    <3>. QED
      BY <2>2, <2>7, <3>2
  <2>8. PICK call \in Call : call = calls[d][r]
    BY DEF TypeOK
  <2>9. InLine(c2s'[d], ready', R, RT, R, RT)
    <3>1. InLine(s, ready, R, RT, R, RT)
      BY <2>1, <2>4 DEF ReadInv, Single
    <3>. QED
      BY <2>5, <2>6, <3>1
  <2>10. NotAsked(d, r) => NotAsked(d, r)'
    BY <2>1, <2>4, <2>5, <2>7 DEF NotAsked
  <2>11. Single(d, r)'
    <3>1. InLine(c2s'[d], ready', ReadsOf(r), ReadTasks(d, r), ReadsOf(r), ReadTasks(d, r))
      BY <2>4, <2>9
    <3>. QED
      BY <1>6, <2>10, <3>1 DEF ReadInv, Single, NotAnswered
  <2>12. Asked(d, r, call)'
    <3>1. PICK A, AT : A = Astray(call.name, r) /\ AT = AstrayTasks(d, call.name, r)
      OBVIOUS
    <3>2. \A m \in FromClient : Task("handle", d, m) \in AT <=> m \in A
      BY <2>4, <2>5, <3>1 DEF Astray, AstrayTasks, Task
    <3>3. Free(c2s[d], A) /\ Free(ready, AT) => Free(c2s'[d], A) /\ Free(ready', AT)
      BY <2>1, <2>7, <3>2
    <3>4. ASSUME call.name \in Served
          PROVE  InLine(c2s'[d], ready', ReadsOf(r), ReadTasks(d, r),
                        Puts(call.name, call.after), PutTasks(d, call.name, call.after))
      <4>1. PICK P, PT : P = Puts(call.name, call.after) /\ PT = PutTasks(d, call.name, call.after)
        OBVIOUS
      <4>2. InLine(s, ready, R, RT, P, PT)
        BY <2>1, <2>4, <2>8, <3>4, <4>1 DEF ReadInv, Asked
      <4>3. \A m \in FromClient : Task("handle", d, m) \in PT <=> m \in P
        BY <2>3, <4>1 DEF PutTasks, Task
      <4>4. InLine(c2s'[d], ready', R, RT, P, PT)
        BY <2>6, <4>2, <4>3
      <4>. QED
        BY <2>4, <4>1, <4>4
    <3>5. Asked(d, r, call)
      BY <2>8 DEF ReadInv
    <3>. QED
      BY <3>1, <3>3, <3>4, <3>5, AskedStep
  <2>13. Answered(d, r, call)'
    BY <1>6, <2>8 DEF ReadInv, Answered
  <2>. QED
    BY <1>6, <2>8, <2>11, <2>12, <2>13 DEF ReadInv, Asked, Answered, Due, Made
<1>. QED
  BY <1>7, <1>8

\* The handler of r: the property has its last value, which no write before
\* the read is missing from.
LEMMA ReadHandled ==
  ASSUME TypeOK, HistInv, [Next]_vars, OnPropertyGet, NEW d \in Clients, NEW r \in Readers,
         ReadInv(d, r), Head(ready).conn = d, Head(ready).msg.seq = r
  PROVE  ReadInv(d, r)'
<1>. DEFINE h == Head(ready)
            m == Msg("REPLY", None, IF h.msg.name \in Served THEN value[h.msg.name] ELSE Error, r)
<1>1. PICK call \in Call : call = calls[d][r]
  BY DEF TypeOK
<1>2. /\ s2c[d] \in Seq(FromServer) /\ ready \in Seq(ServerTask) /\ ready # <<>>
      /\ h \in ServerTask
  BY ServerHead, ReadClients DEF ServerStep
<1>3. h.msg \in FromClient /\ h.msg.name \in Names /\ h.kind = "handle"
      /\ h.msg.command = "CHAN_READ"
  BY <1>2, HandledMessage, MessageShapes DEF OnPropertyGet, Handling, Serving
<1>4. h \in ReadTasks(d, r)
  BY <1>2, <1>3 DEF ReadTasks, ReadsOf
<1>5. Free(Tail(ready), ReadTasks(d, r)) /\ Free(c2s[d], ReadsOf(r))
  BY <1>2, <1>4, InLineHead DEF ReadInv, Single
<1>6. ~Free(ready, ReadTasks(d, r))
  BY <1>2, <1>4, LastHead
<1>7. Free(s2c[d], RepliesTo(r)) /\ Free(queue[d], ReplyTasks(r)) /\ call # Idle
  BY <1>1, <1>6 DEF ReadInv, Single, NotAsked, NotAnswered
<1>8. /\ ready' = Tail(ready) /\ c2s' = c2s /\ queue' = queue /\ calls' = calls
      /\ result' = result /\ hist' = hist
  BY DEF OnPropertyGet, clientVars, history
<1>9. m \in FromServer
  BY <1>3, MessageTypes DEF TypeOK, FromServer
<1>10. s2c'[d] = s2c[d] \/ s2c'[d] = Append(s2c[d], m)
  <2>1. Deliver(d, m)
    BY DEF OnPropertyGet
  <2>. HIDE DEF m
  <2>. QED
    BY <1>9, <2>1, Delivered
<1>11. h.msg.name = call.name
  <2>1. h \notin AstrayTasks(d, call.name, r)
    BY ZenonT(60), <1>1, <1>2, LastHead DEF ReadInv, Asked
  <2>. QED
    BY <1>4, <2>1 DEF AstrayTasks
<1>12. m.data \in Writes => call.name \in Served /\ m.data = value[call.name]
  BY <1>11, SyncAssumption DEF Msg, Writes
<1>13. Fresh(hist, call, m.data)
  <2>1. SUFFICES ASSUME m.data \in Writes PROVE Fresh(hist, call, m.data)
    BY DEF Fresh
  <2>2. PICK n \in Served : n = call.name
    BY <1>12, <2>1
  <2>3. m.data = value[n] /\ n \in Names
    BY <1>12, <2>1, <2>2, SyncAssumption
  <2>4. PICK P, PT : P = Puts(n, call.after) /\ PT = PutTasks(d, n, call.after)
    OBVIOUS
  <2>5. InLine(c2s[d], ready, ReadsOf(r), ReadTasks(d, r), P, PT)
    BY <1>1, <2>2, <2>4 DEF ReadInv, Asked
  <2>6. Free(c2s[d], P) /\ Free(Tail(ready), PT)
    BY <1>2, <1>4, <2>5, InLineHead
  <2>7. Head(ready) \notin PT
    BY <1>3, <2>4 DEF PutTasks, Puts
  <2>8. Free(ready, PT)
    BY <1>2, <2>6, <2>7, LastHead
  <2>9. Made(n, call.after) /\ call.since <= Len(hist[n])
    BY <1>1, <2>2, <2>4, <2>6, <2>8 DEF ReadInv, Asked, Due
  <2>10. PICK i \in DOMAIN hist[n] : hist[n][i] = call.after
    BY <2>9 DEF Made
  <2>11. hist[n] \in Seq(Writes) /\ hist[n] # <<>> /\ hist[n][Len(hist[n])] = value[n]
    BY DEF HistInv, TypeOK
  <2>12. Len(hist[n]) \in DOMAIN hist[n] /\ i <= Len(hist[n])
    BY <2>11, LenProperties, EmptySeq
  <2>. QED
    BY <2>2, <2>3, <2>9, <2>10, <2>11, <2>12 DEF Fresh
<1>14. Single(d, r)'
  <2>1. InLine(c2s[d], Tail(ready), ReadsOf(r), ReadTasks(d, r), ReadsOf(r), ReadTasks(d, r))
    BY <1>5, InLineFree
  <2>2. InLine(s2c[d], queue[d], RepliesTo(r), ReplyTasks(r), RepliesTo(r), ReplyTasks(r))
    BY <1>7, InLineFree
  <2>3. InLine(s2c'[d], queue[d], RepliesTo(r), ReplyTasks(r), RepliesTo(r), ReplyTasks(r))
    <3>. HIDE DEF m
    <3>1. InLine(Append(s2c[d], m), queue[d], RepliesTo(r), ReplyTasks(r), RepliesTo(r), ReplyTasks(r))
      BY <1>2, <1>7, <1>9, <2>2, InLineAppend
    <3>. QED
      BY <1>10, <2>2, <3>1
  <2>. QED
    BY <1>1, <1>5, <1>7, <1>8, <2>1, <2>3 DEF Single, NotAsked
<1>15. Asked(d, r, call)'
  <2>1. InLine(c2s'[d], ready', ReadsOf(r), ReadTasks(d, r),
               Puts(call.name, call.after), PutTasks(d, call.name, call.after))
    BY <1>5, <1>8, InLineFree
  <2>2. Free(ready, AstrayTasks(d, call.name, r)) => Free(ready', AstrayTasks(d, call.name, r))
    <3>1. PICK AT : AT = AstrayTasks(d, call.name, r)
      OBVIOUS
    <3>2. Free(ready, AT) => Free(Tail(ready), AT)
      BY <1>2, LastHead
    <3>. QED
      BY <1>8, <3>1, <3>2
  <2>3. Asked(d, r, call)
    BY <1>1 DEF ReadInv
  <2>. QED
    BY <1>8, <2>1, <2>2, <2>3, AskedStep
<1>16. Answered(d, r, call)'
  <2>1. m \notin Stale(hist, call, r)
    BY <1>13 DEF Stale
  <2>2. Answered(d, r, call)
    BY <1>1 DEF ReadInv
  <2>3. Free(s2c'[d], Stale(hist, call, r))
    <3>. HIDE DEF m
    <3>1. PICK A : A = Stale(hist, call, r)
      OBVIOUS
    <3>2. Free(Append(s2c[d], m), A) <=> m \notin A /\ Free(s2c[d], A)
      BY <1>2, <1>9, AppendFree
    <3>. QED
      BY <1>10, <2>1, <2>2, <3>1, <3>2 DEF Answered
  <2>. QED
    BY <1>8, <2>2, <2>3 DEF Answered
<1>. QED
  BY <1>1, <1>8, <1>14, <1>15, <1>16 DEF ReadInv, Asked, Answered, Due, Made

\* The client's listener.
LEMMA ReadClientListen ==
  ASSUME TypeOK, [Next]_vars, NEW d \in Clients, ClientListen(d), NEW r \in Readers, ReadInv(d, r)
  PROVE  ReadInv(d, r)'
<1>1. PICK s, q : s = s2c[d] /\ q = queue[d]
  OBVIOUS
<1>2. s \in Seq(FromServer) /\ q \in Seq(ClientTask) /\ q # <<>>
  BY <1>1 DEF TypeOK, ClientListen, Running
<1>3. PICK k \in 0..Len(s) : /\ queue'[d] = Tail(q) \o HandleAll("dispatch", d, s, k)
                             /\ s2c'[d] = Drop(s, k)
  <2>1. PICK k \in IF s = <<>> THEN {0} ELSE 1..Len(s) :
               /\ queue' = [queue EXCEPT ![d] = Tail(@) \o HandleAll("dispatch", d, s2c[d], k)]
               /\ s2c' = [s2c EXCEPT ![d] = Drop(@, k)]
    BY <1>1 DEF ClientListen
  <2>2. /\ queue'[d] = Tail(q) \o HandleAll("dispatch", d, s, k)
        /\ s2c'[d] = Drop(s, k)
    BY <1>1, <2>1 DEF TypeOK
  <2>3. k \in 0..Len(s)
    BY <1>2, LenProperties
  <2>. QED
    BY <2>2, <2>3
<1>4. /\ ready' = ready /\ c2s' = c2s /\ calls' = calls /\ result' = result /\ hist' = hist
  BY DEF ClientListen, serverVars, history
<1>5. \A m \in FromServer : Task("dispatch", d, m) \in ClientTask
  BY TaskTypes
<1>6. k \in 0..k
  BY <1>2, LenProperties
<1>7. ASSUME NEW Z, NEW ZT, \A m \in FromServer : Task("dispatch", d, m) \in ZT <=> m \in Z,
             Free(s, Z), Free(q, ZT)
      PROVE  Free(s2c'[d], Z) /\ Free(queue'[d], ZT)
  <2>1. \A m \in FromServer : /\ Task("dispatch", d, m) \in ClientTask
                              /\ Task("dispatch", d, m) \in ZT <=> m \in Z
    BY <1>5, <1>7
  <2>2. /\ Free(s, Z) => Free(Drop(s, k), Z)
        /\ Free(s, Z) /\ Free(q, ZT) => Free(Tail(q) \o HandleAll("dispatch", d, s, k), ZT)
    BY <1>2, <1>6, <2>1, FreeListen
  <2>. QED
    BY <1>3, <1>7, <2>2
<1>8. PICK R, RT : R = RepliesTo(r) /\ RT = ReplyTasks(r)
  OBVIOUS
<1>9. \A m \in FromServer : Task("dispatch", d, m) \in RT <=> m \in R
  BY <1>5, <1>8 DEF ReplyTasks, Task
<1>10. InLine(s2c'[d], queue'[d], R, RT, R, RT)
  <2>1. InLine(s, q, R, RT, R, RT)
    BY <1>1, <1>8 DEF ReadInv, Single
  <2>2. InLine(Drop(s, k), Tail(q) \o HandleAll("dispatch", d, s, k), R, RT, R, RT)
    BY <1>2, <1>5, <1>6, <1>9, <2>1, InLineListen
  <2>. QED
    BY <1>3, <2>2
<1>11. NotAnswered(d, r) => NotAnswered(d, r)'
  BY <1>1, <1>7, <1>8, <1>9 DEF NotAnswered
<1>12. Single(d, r)'
  <2>1. InLine(s2c'[d], queue'[d], RepliesTo(r), ReplyTasks(r), RepliesTo(r), ReplyTasks(r))
    BY <1>8, <1>10
  <2>. QED
    BY <1>4, <1>11, <2>1 DEF ReadInv, Single, NotAsked
<1>13. PICK call \in Call : call = calls[d][r]
  BY DEF TypeOK
<1>14. Asked(d, r, call)'
  BY <1>4, <1>13, AskedStep DEF ReadInv, Asked
<1>15. Answered(d, r, call)'
  <2>1. PICK A, AT : A = Stale(hist, call, r) /\ AT = StaleTasks(hist, call, r)
    OBVIOUS
  <2>2. \A m \in FromServer : Task("dispatch", d, m) \in AT <=> m \in A
    BY <1>5, <2>1 DEF StaleTasks, Task
  <2>3. Free(s, A) /\ Free(q, AT)
    BY <1>1, <1>13, <2>1 DEF ReadInv, Answered
  <2>4. Free(s2c'[d], A) /\ Free(queue'[d], AT)
    BY <1>7, <2>2, <2>3
  <2>5. Answered(d, r, call)
    BY <1>13 DEF ReadInv
  <2>. QED
    BY <1>4, <2>1, <2>4, <2>5 DEF Answered
<1>. QED
  BY <1>4, <1>12, <1>13, <1>14, <1>15 DEF ReadInv, Asked, Answered, Due, Made

\* The reply to r, when the client runs it: it is the only one.
LEMMA ReplyHead ==
  ASSUME TypeOK, NEW d \in Clients, NEW r \in Readers, ReadInv(d, r),
         DispatchReply(d) \/ WakeRead(d), Head(queue[d]).msg.seq = r
  PROVE  /\ queue[d] # <<>> /\ Head(queue[d]) \in ClientTask /\ Tail(queue[d]) \in Seq(ClientTask)
         /\ Head(queue[d]).msg \in ReplyMessage /\ Head(queue[d]).msg \in FromServer
         /\ Head(queue[d]) \in ReplyTasks(r)
         /\ Free(s2c[d], RepliesTo(r)) /\ Free(Tail(queue[d]), ReplyTasks(r))
         /\ NotAsked(d, r) /\ calls[d][r] # Idle
         /\ Fresh(hist, calls[d][r], Head(queue[d]).msg.data)
<1>1. PICK q, h : q = queue[d] /\ h = Head(queue[d])
  OBVIOUS
<1>2. q \in Seq(ClientTask) /\ q # <<>>
  <2>1. DispatchReply(d) => queue[d] # <<>>
    BY DEF DispatchReply, Running
  <2>2. WakeRead(d) => queue[d] # <<>>
    BY DEF WakeRead, Running
  <2>. QED
    BY <1>1, <2>1, <2>2 DEF TypeOK
<1>3. h \in ClientTask /\ Tail(q) \in Seq(ClientTask)
  BY <1>1, <1>2, HeadTailProperties
<1>4. h.msg \in ReplyMessage
  <2>1. CASE DispatchReply(d)
    BY <1>1, <1>3, <2>1, TaskShapes, MessageShapes DEF DispatchReply, Running
  <2>2. CASE WakeRead(d)
    BY <1>1, <1>3, <2>2, TaskShapes DEF WakeRead, Running
  <2>. QED
    BY <2>1, <2>2
<1>5. h.msg \in FromServer /\ h.msg.command = "REPLY"
  BY <1>4 DEF FromServer, ReplyMessage, Shape
<1>6. h.msg \in RepliesTo(r) /\ h \in ReplyTasks(r)
  BY <1>1, <1>3, <1>5 DEF ReplyTasks, RepliesTo
<1>7. Free(Tail(q), ReplyTasks(r)) /\ Free(s2c[d], RepliesTo(r))
  <2>1. InLine(s2c[d], q, RepliesTo(r), ReplyTasks(r), RepliesTo(r), ReplyTasks(r))
    BY <1>1 DEF ReadInv, Single
  <2>2. Head(q) \in ReplyTasks(r)
    BY <1>1, <1>6
  <2>. QED
    BY <1>2, <2>1, <2>2, InLineHead
<1>8. ~Free(q, ReplyTasks(r))
  BY <1>1, <1>2, <1>6, LastHead
<1>9. NotAsked(d, r) /\ calls[d][r] # Idle
  BY <1>1, <1>8 DEF ReadInv, Single, NotAnswered
<1>10. Fresh(hist, calls[d][r], h.msg.data)
  <2>1. PICK AT : AT = StaleTasks(hist, calls[d][r], r)
    OBVIOUS
  <2>2. Free(q, AT)
    BY <1>1, <2>1 DEF ReadInv, Answered
  <2>3. h \notin AT
    BY <1>1, <1>2, <2>2, LastHead
  <2>. QED
    BY <1>3, <1>6, <2>1, <2>3 DEF StaleTasks, Stale
<1>. QED
  BY <1>1, <1>2, <1>3, <1>4, <1>5, <1>6, <1>7, <1>9, <1>10

LEMMA ReadDispatched ==
  ASSUME TypeOK, [Next]_vars, NEW d \in Clients, NEW r \in Readers, ReadInv(d, r),
         DispatchReply(d), Head(queue[d]).msg.seq = r
  PROVE  ReadInv(d, r)'
<1>1. PICK q, m, t : q = queue[d] /\ m = Head(queue[d]).msg /\ t = Task("wake", d, m)
  OBVIOUS
<1>2. /\ q # <<>> /\ q \in Seq(ClientTask) /\ Tail(q) \in Seq(ClientTask) /\ Head(q) \in ClientTask
      /\ m \in ReplyMessage /\ m \in FromServer
      /\ Free(s2c[d], RepliesTo(r)) /\ Free(Tail(q), ReplyTasks(r))
      /\ NotAsked(d, r) /\ calls[d][r] # Idle /\ Fresh(hist, calls[d][r], m.data)
  BY <1>1, ReplyHead DEF TypeOK
<1>3. t \in ClientTask
  BY <1>1, <1>2, TaskTypes
<1>4. queue'[d] = Append(Tail(q), t)
  BY <1>1 DEF DispatchReply, TypeOK
<1>5. /\ ready' = ready /\ c2s' = c2s /\ s2c' = s2c /\ calls' = calls /\ result' = result
      /\ hist' = hist
  BY DEF DispatchReply, serverVars, history
<1>6. Single(d, r)'
  <2>1. NoneBehind(<<t>>, ReplyTasks(r), ReplyTasks(r))
    BY NoneBehindOne
  <2>2. <<t>> \in Seq(ClientTask) /\ Append(Tail(q), t) = Tail(q) \o <<t>>
    BY <1>2, <1>3, AppendIsConcat
  <2>3. PICK xs : xs = <<t>>
    OBVIOUS
  <2>4. NoneBehind(Tail(q) \o xs, ReplyTasks(r), ReplyTasks(r))
    BY <1>2, <2>1, <2>2, <2>3, NoneBehindConcat
  <2>5. NoneBehind(queue'[d], ReplyTasks(r), ReplyTasks(r))
    BY <1>4, <2>2, <2>3, <2>4
  <2>6. NoneBehind(s2c[d], RepliesTo(r), RepliesTo(r))
    BY DEF ReadInv, Single, InLine
  <2>7. InLine(s2c'[d], queue'[d], RepliesTo(r), ReplyTasks(r), RepliesTo(r), ReplyTasks(r))
    BY <1>2, <1>5, <2>5, <2>6 DEF InLine
  <2>. QED
    BY <1>2, <1>5, <2>7 DEF ReadInv, Single, NotAsked
<1>7. PICK call \in Call : call = calls[d][r]
  BY DEF TypeOK
<1>8. Asked(d, r, call)'
  BY <1>5, <1>7, AskedStep DEF ReadInv, Asked
<1>9. Answered(d, r, call)'
  <2>1. PICK AT : AT = StaleTasks(hist, call, r)
    OBVIOUS
  <2>2. Free(q, AT)
    BY <1>1, <1>7, <2>1 DEF ReadInv, Answered
  <2>3. t \notin AT
    BY <1>1, <1>2, <1>7, <2>1 DEF StaleTasks, Stale, Task
  <2>4. Free(Tail(q), AT)
    BY <1>2, <2>2, LastHead
  <2>5. Free(Append(Tail(q), t), AT)
    BY <1>2, <1>3, <2>3, <2>4, AppendFree
  <2>. QED
    BY <1>4, <1>5, <1>7, <2>1, <2>5 DEF ReadInv, Answered
<1>. QED
  BY <1>5, <1>6, <1>7, <1>8, <1>9 DEF ReadInv, Asked, Answered, Due, Made

\* The read returns.
LEMMA ReadReturns ==
  ASSUME TypeOK, [Next]_vars, NEW d \in Clients, NEW r \in Readers, ReadInv(d, r),
         WakeRead(d), Head(queue[d]).msg.seq = r
  PROVE  ReadInv(d, r)'
<1>1. PICK q, m : q = queue[d] /\ m = Head(queue[d]).msg
  OBVIOUS
<1>2. /\ Free(s2c[d], RepliesTo(r)) /\ Free(Tail(q), ReplyTasks(r))
      /\ NotAsked(d, r) /\ Fresh(hist, calls[d][r], m.data)
  BY <1>1, ReplyHead
<1>3. /\ calls'[d][r] = Idle /\ queue'[d] = Tail(q)
      /\ result'[d][r] = [call |-> calls[d][r], val |-> m.data]
  BY <1>1 DEF WakeRead, TypeOK
<1>4. ready' = ready /\ c2s' = c2s /\ s2c' = s2c /\ hist' = hist
  BY DEF WakeRead, serverVars
<1>5. /\ Free(c2s'[d], ReadsOf(r)) /\ Free(ready', ReadTasks(d, r))
      /\ Free(s2c'[d], RepliesTo(r)) /\ Free(queue'[d], ReplyTasks(r))
  BY <1>2, <1>3, <1>4 DEF NotAsked
<1>6. Single(d, r)'
  <2>1. /\ InLine(c2s'[d], ready', ReadsOf(r), ReadTasks(d, r), ReadsOf(r), ReadTasks(d, r))
        /\ InLine(s2c'[d], queue'[d], RepliesTo(r), ReplyTasks(r), RepliesTo(r), ReplyTasks(r))
    BY <1>5, InLineFree
  <2>. QED
    BY <1>5, <2>1 DEF Single, NotAsked, NotAnswered
<1>7. Asked(d, r, Idle)'
  <2>1. Free(c2s'[d], Astray(None, r)) /\ Free(ready', AstrayTasks(d, None, r))
    BY <1>5 DEF Free, Astray, AstrayTasks
  <2>2. Idle.name = None /\ None \notin Served
    BY SyncAssumption DEF Idle
  <2>. QED
    BY <2>1, <2>2 DEF Asked
<1>8. Answered(d, r, Idle)'
  <2>1. Free(s2c'[d], Stale(hist', Idle, r)) /\ Free(queue'[d], StaleTasks(hist', Idle, r))
    <3>1. PICK A, AT : A = Stale(hist', Idle, r) /\ AT = StaleTasks(hist', Idle, r)
      OBVIOUS
    <3>2. A \subseteq RepliesTo(r) /\ AT \subseteq ReplyTasks(r)
      BY <3>1 DEF Stale, StaleTasks, ReplyTasks
    <3>. QED
      BY <1>5, <3>1, <3>2, FreeSubset
  <2>2. Fresh(hist', result'[d][r].call, result'[d][r].val)
    BY <1>2, <1>3, <1>4
  <2>. QED
    BY <2>1, <2>2 DEF Answered
<1>. QED
  BY <1>3, <1>6, <1>7, <1>8 DEF ReadInv, Asked, Answered, Due, Made

LEMMA FreshInit == Init => FreshInv
<1>. SUFFICES ASSUME Init PROVE FreshInv
  OBVIOUS
<1>1. TypeOK
  BY TypeInit
<1>2. ASSUME NEW n \in Served PROVE hist[n] = <<0>> /\ value[n] = 0 /\ <<0>> # <<>>
  BY <1>2 DEF Init
<1>3. HistInv
  BY <1>2 DEF HistInv
<1>4. WriteInv
  <2>1. ASSUME NEW c \in Clients, NEW n \in Served PROVE Due(c, n, wrote[c][n])
    <3>1. n \in Names /\ wrote[c][n] = 0 /\ writes = 0
      BY <2>1, SyncAssumption DEF Init
    <3>2. 0 \notin Refused
      BY SyncAssumption
    <3>3. 1 \in DOMAIN hist[n] /\ hist[n][1] = 0
      BY <1>2
    <3>. QED
      BY <3>1, <3>2, <3>3 DEF Due, Made
  <2>. QED
    BY <2>1 DEF WriteInv
<1>5. ASSUME NEW c \in Clients, NEW r \in Readers PROVE ReadInv(c, r)
  <2>1. /\ c2s[c] = <<>> /\ ready = <<>> /\ s2c[c] = <<>> /\ queue[c] = <<>>
        /\ calls[c][r] = Idle /\ result[c][r] = NoResult
    BY <1>5 DEF Init
  <2>2. \A Z : Free(<<>>, Z)
    BY DEF Free
  <2>3. \A S, Z : NoneBehind(<<>>, S, Z)
    BY DEF NoneBehind
  <2>4. Single(c, r)
    BY <2>1, <2>2, <2>3 DEF Single, InLine, NotAsked, NotAnswered
  <2>5. Idle.name = None /\ None \notin Served
    BY SyncAssumption DEF Idle
  <2>6. Asked(c, r, Idle)
    BY <2>1, <2>2, <2>5 DEF Asked
  <2>7. NoResult.val \notin Writes
    BY SyncAssumption DEF NoResult, Writes
  <2>8. Answered(c, r, Idle)
    BY <2>1, <2>2, <2>7 DEF Answered, Fresh
  <2>. QED
    BY <2>1, <2>4, <2>6, <2>8 DEF ReadInv
<1>. QED
  BY <1>3, <1>4, <1>5 DEF FreshInv

LEMMA FreshStep == TypeOK /\ FreshInv /\ [Next]_vars => FreshInv'
<1>. SUFFICES ASSUME TypeOK, FreshInv, [Next]_vars PROVE FreshInv'
  OBVIOUS
<1>1. HistInv'
  BY HistGrows DEF FreshInv, HistInv
<1>2. WriteInv'
  BY WriteStep DEF FreshInv
<1>3. ASSUME NEW d \in Clients, NEW r \in Readers
      PROVE  ReadInv(d, r)'
  <2>. ReadInv(d, r)
    BY DEF FreshInv
  <2>1. CASE ServerListen
    BY <2>1, ReadServerListen
  <2>2. CASE ~ServerListen /\ (ServerStep \/ \E n \in Served : ServerSet(n))
    <3>1. CASE OnPropertyGet /\ Head(ready).conn = d /\ Head(ready).msg.seq = r
      BY <3>1, ReadHandled DEF FreshInv
    <3>. QED
      BY <2>2, <3>1, ReadServerLoop
  <2>3. ASSUME ~ServerListen, NEW c \in Clients, ClientStep(c) PROVE ReadInv(d, r)'
    <3>1. CASE c # d
      BY <2>3, <3>1, ReadOtherClient
    <3>2. CASE c = d /\ ClientListen(c)
      BY <3>2, ReadClientListen
    <3>3. CASE DispatchEvent(c)
      BY <2>3, <3>3, ReadClientLoop
    <3>4. CASE (DispatchReply(c) \/ WakeRead(c)) /\ Head(queue[c]).msg.seq # r
      BY <2>3, <3>4, ReadClientLoop
    <3>5. CASE c = d /\ DispatchReply(c) /\ Head(queue[c]).msg.seq = r
      BY <3>5, ReadDispatched
    <3>6. CASE c = d /\ WakeRead(c) /\ Head(queue[c]).msg.seq = r
      BY <3>6, ReadReturns
    <3>. QED
      BY <2>3, <3>1, <3>2, <3>3, <3>4, <3>5, <3>6 DEF ClientStep
  <2>4. ASSUME ~ServerListen, NEW c \in Clients, Arrive(c) PROVE ReadInv(d, r)'
    BY <2>4, ReadClientLoop
  <2>5. ASSUME NEW c \in Clients, Close(c) PROVE ReadInv(d, r)'
    BY <2>5, ReadUserCalls
  <2>6. ASSUME NEW c \in Clients, NEW n \in Names, Subscribe(c, n) \/ Unsubscribe(c, n) \/ Write(c, n)
        PROVE ReadInv(d, r)'
    BY <2>6, ReadUserCalls
  <2>7. ASSUME NEW c \in Clients, NEW n \in Names, NEW e \in Readers, Read(c, n, e)
        PROVE ReadInv(d, r)'
    <3>1. CASE c = d /\ e = r
      BY <2>7, <3>1, ReadStarts DEF FreshInv
    <3>2. CASE ~(c = d /\ e = r)
      BY <2>7, <3>2, ReadUserCalls
    <3>. QED
      BY <3>1, <3>2
  <2>8. CASE UNCHANGED vars
    BY <2>8 DEF vars, serverVars, clientVars, history, ReadInv, Single, NotAsked, NotAnswered,
       Asked, Answered, Due, Made
  <2>. QED
    BY <2>1, <2>2, <2>3, <2>4, <2>5, <2>6, <2>7, <2>8 DEF Next
<1>. QED
  BY <1>1, <1>2, <1>3 DEF FreshInv

\* A read that asks the server returns a value the property had when get() was
\* called or later, and no older than the client's own last write before it.
THEOREM ReadsFresh == Spec => []ReadsAreFresh
<1>1. FreshInv => ReadsAreFresh
  BY DEF FreshInv, ReadInv, Answered, Fresh, ReadsAreFresh
<1>2. Spec => []TypeOK
  BY TypeCorrect
<1>. QED
  BY <1>1, <1>2, FreshInit, FreshStep, PTL DEF Spec
================================================================================
