--------------------------- MODULE RemoteCallsProofs ---------------------------
(***************************************************************************)
(* Type correctness of RemoteCalls and that it keeps the promise of        *)
(* RemoteCall, for every number of clients and calls, every kind of call   *)
(* and every modulus greater than the number of calls.                     *)
(*                                                                         *)
(* The promise needs an invariant about everything on its way: a request   *)
(* is in one place and its call has not started; a task that executes a    *)
(* call is on the ready queue once, and only when it is due; every answer  *)
(* is the outcome of a call whose number it bears; no two calls of a       *)
(* client bear the same number.                                            *)
(***************************************************************************)
EXTENDS RemoteCalls, EventLoopProofs

(***************************************************************************)
(* The invariant.                                                          *)
(***************************************************************************)
\* The server's tasks that belong to a call, and the callers to be woken.
Executions == Tasks("handle", Clients, CallRequest) \cup Tasks("run", Clients, CallRequest)
                \cup Tasks("finish", Clients, CallRequest)
Wakes == Tasks("wake", Clients, CallRequest)

SomeInterrupted == \E k \in Calls : status[k] = "interrupted"

CallInv == \A k \in Calls :
    /\ k > issued => /\ owner[k] = None /\ status[k] = "new"
                     /\ body[k] = "none" /\ outcome[k] = None
    /\ k <= issued => /\ owner[k] \in Clients /\ kind[k] \in AllKinds /\ status[k] # "new"
                      /\ kind[k] # "oneway" => seq[k] # 0
    /\ status[k] \in {"waiting", "resolved", "stopping"} => kind[k] # "oneway"
    /\ body[k] \in {"ready", "asleep"} => outcome[k] = None
    /\ status[k] = "resolved" => reply[k].call = k /\ reply[k].how = outcome[k]

\* A call waits to be executed.
Untouched(k) == body[k] = "none" /\ outcome[k] = None

Pending(c) ==
    /\ Once(c2s[c], CallRequest)
    /\ \A m \in ToSet(c2s[c]) :
         /\ m \in CallRequest => /\ owner[m.call] = c /\ Untouched(m.call)
                                 /\ Task("handle", c, m) \notin ToSet(ready)
         /\ m \in AbortRequest => SomeInterrupted

RequestInv == \A c \in Clients : Pending(c)

\* What is known of the call of a task on the server's ready queue.
Due(t) ==
    /\ t \in Executions => owner[t.msg.call] = t.conn
    /\ t.kind = "handle" /\ t.msg \in CallRequest => Untouched(t.msg.call)
    /\ t.kind = "handle" /\ t.msg \in AbortRequest => SomeInterrupted
    /\ t.kind = "run" => body[t.msg.call] = "ready"
    /\ t.kind = "finish" => outcome[t.msg.call] # None

ReadyInv == Once(ready, Executions) /\ \A t \in ToSet(ready) : Due(t)

CancelInv == cancelled # {} => SomeInterrupted

\* An answer on its way to client c is the outcome of a call that c made under
\* the number it bears.
Genuine(c, m) ==
    /\ owner[m.call] = c /\ kind[m.call] # "oneway"
    /\ seq[m.call] = m.seq /\ outcome[m.call] = m.how

Answering(c) ==
    /\ \A m \in ToSet(s2c[c]) : Genuine(c, m)
    /\ \A t \in ToSet(queue[c]) : t.kind = "dispatch" => Genuine(c, t.msg)

AnswerInv == \A c \in Clients : Answering(c)

\* A caller is woken once.
Waking(c) ==
    /\ Once(queue[c], Wakes)
    /\ \A t \in ToSet(queue[c]) :
         t.kind = "wake" => /\ t.conn = c /\ owner[t.msg.call] = c
                            /\ status[t.msg.call] \in {"resolved", "stopping"}

WakeInv == \A c \in Clients : Waking(c)

\* How many numbers lie between s and the client's last number l: fewer than
\* the calls made since s was given.
Gap(s, l) == IF s <= l THEN l - s ELSE l - s + Modulus - 1
Numbered(k) == k <= issued /\ kind[k] # "oneway"

NumberInv ==
    /\ \A k \in Calls : Numbered(k) =>
         /\ lastSeq[owner[k]] # 0
         /\ Gap(seq[k], lastSeq[owner[k]]) <= issued - k
    /\ \A j, k \in Calls : Numbered(j) /\ Numbered(k) /\ j < k /\ owner[j] = owner[k] =>
         Gap(seq[k], lastSeq[owner[k]]) < Gap(seq[j], lastSeq[owner[j]])

Inv == /\ TypeOK /\ CallInv /\ RequestInv /\ ReadyInv /\ CancelInv
       /\ AnswerInv /\ WakeInv /\ NumberInv

(***************************************************************************)
(* What messages and tasks are.                                            *)
(***************************************************************************)
LEMMA MessageShapes ==
  /\ \A m \in CallRequest : /\ m.command = "CALL" /\ m.call \in Calls
                            /\ m = CallMsg(m.call) /\ m \notin AbortRequest
  /\ \A m \in AbortRequest : m.command = "ABORT" /\ m \notin CallRequest
  /\ \A k \in Calls : CallMsg(k) \in CallRequest /\ CallMsg(k).call = k
  /\ \A B \in SUBSET Calls : Request("ABORT", 0, B) \in AbortRequest
  /\ \A s \in 1..Modulus - 1, k \in Calls, how \in {"result", "raised", "aborted"} :
       /\ Answer(s, k, how) \in Answers
       /\ Answer(s, k, how).seq = s /\ Answer(s, k, how).call = k
       /\ Answer(s, k, how).how = how
  /\ \A m \in Answers : /\ m.seq \in 1..Modulus - 1 /\ m.call \in Calls
                        /\ m.how \in {"result", "raised", "aborted"}
BY DEF CallRequest, AbortRequest, CallMsg, Request, Answer, Answers

LEMMA TaskShapes ==
  /\ \A t \in ServerTask :
       /\ t.kind \in {"listen", "handle", "run", "finish"} /\ t.conn \in Clients
       /\ t.kind = "handle" => t.msg \in Requests
       /\ t.kind \in {"run", "finish"} => t.msg \in CallRequest
       /\ t = Task(t.kind, t.conn, t.msg)
       /\ t \in Executions <=> t.kind # "listen" /\ t.msg \in CallRequest
  /\ \A t \in ClientTask :
       /\ t.kind \in {"listen", "dispatch", "wake"} /\ t.conn \in Clients
       /\ t.kind = "dispatch" => t.msg \in Answers
       /\ t.kind = "wake" => t.msg \in CallRequest
       /\ t = Task(t.kind, t.conn, t.msg)
       /\ t \in Wakes <=> t.kind = "wake"
  /\ \A kd, c, m : /\ Task(kd, c, m).kind = kd /\ Task(kd, c, m).conn = c
                   /\ Task(kd, c, m).msg = m
BY DEF ServerTask, ClientTask, Tasks, Task, Executions, Wakes, Requests,
     CallRequest, AbortRequest, Answers

LEMMA Entries ==
  ASSUME TypeOK
  PROVE  /\ ToSet(ready) \subseteq ServerTask
         /\ \A c \in Clients : /\ ToSet(queue[c]) \subseteq ClientTask
                             /\ ToSet(c2s[c]) \subseteq Requests
                             /\ ToSet(s2c[c]) \subseteq Answers
BY EntriesType DEF TypeOK

LEMMA TaskTypes ==
  /\ \A c \in Clients : Task("listen", c, NoMsg) \in ServerTask \cap ClientTask
  /\ \A c \in Clients, m \in Requests : Task("handle", c, m) \in ServerTask
  /\ \A c \in Clients, m \in CallRequest :
       /\ Task("run", c, m) \in ServerTask /\ Task("finish", c, m) \in ServerTask
       /\ Task("wake", c, m) \in ClientTask
  /\ \A c \in Clients, m \in Answers : Task("dispatch", c, m) \in ClientTask
BY DEF ServerTask, ClientTask, Tasks, Task

(***************************************************************************)
(* Initially.                                                              *)
(***************************************************************************)
LEMMA InitInv == Init => Inv
<1>. SUFFICES ASSUME Init PROVE Inv
  OBVIOUS
<1>. USE CallsAssumption DEF Init
<1>1. ToSet(<<>>) = {} /\ \A S : Once(<<>>, S)
  BY DEF ToSet, Once
<1>2. TypeOK
  <2>1. lastSeq \in [Clients -> 0..Modulus - 1]
    OBVIOUS
  <2>2. 0 \in 0..Modulus - 1 /\ 0 \in 0..MaxCalls
    OBVIOUS
  <2>3. /\ queue \in [Clients -> Seq(ClientTask)] /\ c2s \in [Clients -> Seq(Requests)]
        /\ s2c \in [Clients -> Seq(Answers)] /\ ready \in Seq(ServerTask)
    OBVIOUS
  <2>. QED
    BY <2>1, <2>2, <2>3 DEF TypeOK, Statuses
<1>3. CallInv
  BY DEF CallInv, Calls
<1>4. RequestInv /\ AnswerInv /\ WakeInv /\ ReadyInv
  <2>1. ready = <<>> /\ \A c \in Clients : c2s[c] = <<>> /\ s2c[c] = <<>> /\ queue[c] = <<>>
    OBVIOUS
  <2>2. RequestInv
    BY <1>1, <2>1 DEF RequestInv, Pending
  <2>3. AnswerInv
    BY <1>1, <2>1 DEF AnswerInv, Answering
  <2>4. WakeInv
    BY <1>1, <2>1 DEF WakeInv, Waking
  <2>5. ReadyInv
    BY <1>1, <2>1 DEF ReadyInv
  <2>. QED
    BY <2>2, <2>3, <2>4, <2>5
<1>5. NumberInv
  BY DEF NumberInv, Numbered, Calls
<1>. QED
  BY <1>2, <1>3, <1>4, <1>5 DEF Inv, CancelInv

(***************************************************************************)
(* Sequence numbers.                                                       *)
(***************************************************************************)
\* The number after l: one more, and 1 where it would wrap around to 0.
LEMMA NextNumber ==
  ASSUME NEW l \in 0..Modulus - 1, Modulus >= 2
  PROVE  /\ NextSequenceNumber(l) = IF l = Modulus - 1 THEN 1 ELSE l + 1
         /\ NextSequenceNumber(l) \in 1..Modulus - 1
<1>1. Modulus \in Nat
  BY CallsAssumption
<1>2. CASE l = Modulus - 1
  <2>1. (l + 1) % Modulus = 0
    BY <1>1, <1>2
  <2>. QED
    BY <1>1, <1>2, <2>1 DEF NextSequenceNumber
<1>3. CASE l # Modulus - 1
  <2>1. (l + 1) % Modulus = l + 1
    BY <1>1, <1>3
  <2>. QED
    BY <1>1, <1>3, <2>1 DEF NextSequenceNumber
<1>. QED
  BY <1>2, <1>3

\* Each new number is one further from the older ones, as long as they are
\* fewer than the numbers there are.
LEMMA GapNext ==
  ASSUME NEW s \in 1..Modulus - 1, NEW l \in 1..Modulus - 1, Modulus >= 2,
         Gap(s, l) < Modulus - 2
  PROVE  /\ Gap(s, NextSequenceNumber(l)) = Gap(s, l) + 1
         /\ Gap(l, l) = 0
BY NextNumber, CallsAssumption DEF Gap

\* No two calls of a client bear the same number.
LEMMA NumbersDiffer ==
  ASSUME TypeOK, CallInv, NumberInv, NEW j \in Calls, NEW k \in Calls,
         Numbered(j), Numbered(k), owner[j] = owner[k], seq[j] = seq[k]
  PROVE  j = k
<1>1. /\ j \in Int /\ k \in Int /\ owner[k] \in Clients
      /\ Gap(seq[k], lastSeq[owner[k]]) \in Int
  <2>1. j \in Int /\ k \in Int /\ Modulus \in Int
    BY CallsAssumption DEF Calls
  <2>2. owner[k] \in Clients
    BY DEF CallInv, Numbered
  <2>3. seq[k] \in Int /\ lastSeq[owner[k]] \in Int
    BY <2>1, <2>2 DEF TypeOK
  <2>. QED
    BY <2>1, <2>2, <2>3 DEF Gap
<1>2. ~(j < k)
  BY <1>1 DEF NumberInv
<1>3. ~(k < j)
  BY <1>1 DEF NumberInv
<1>. QED
  BY <1>1, <1>2, <1>3

(***************************************************************************)
(* The client's steps.                                                     *)
(***************************************************************************)
LEMMA IssueInv ==
  ASSUME Inv, NEW c \in Clients, NEW kd \in Kinds, Issue(c, kd)
  PROVE  Inv'
<1> DEFINE n == NextSequenceNumber(lastSeq[c])
<1>1. /\ issued \in Nat /\ MaxCalls \in Nat /\ Modulus \in Nat /\ issued < MaxCalls
      /\ Modulus > MaxCalls /\ kd \in AllKinds /\ None \notin Clients
  BY CallsAssumption DEF Inv, TypeOK, Issue
<1>k. PICK k \in Calls : k = issued + 1
  BY <1>1 DEF Calls
<1>2. \A j \in Calls : j \in Nat /\ j >= 1 /\ (j <= issued' <=> j <= issued \/ j = k)
  BY <1>1, <1>k DEF Issue, Calls
<1>3. /\ owner[k] = None /\ status[k] = "new" /\ body[k] = "none" /\ outcome[k] = None
      /\ k > issued
  BY <1>1, <1>2, <1>k DEF Inv, CallInv
<1>4. n \in 1..Modulus - 1 /\ lastSeq[c] \in 0..Modulus - 1
  BY <1>1, NextNumber DEF Inv, TypeOK
<1>5. /\ owner' = [owner EXCEPT ![k] = c] /\ kind' = [kind EXCEPT ![k] = kd]
      /\ status' = [status EXCEPT ![k] = IF kd = "oneway" THEN "sent" ELSE "waiting"]
      /\ issued' = k
      /\ UNCHANGED <<reply, queue, s2c, ready, body, outcome, cancelled, abortable>>
      /\ c2s' = [c2s EXCEPT ![c] = Append(@, CallMsg(k))]
      /\ lost' = lost
  BY <1>k DEF Issue, Send, serverVars
<1>6. /\ kd = "oneway" => seq' = seq /\ lastSeq' = lastSeq
      /\ kd # "oneway" => /\ seq' = [seq EXCEPT ![k] = n]
                          /\ lastSeq' = [lastSeq EXCEPT ![c] = n]
  BY <1>k DEF Issue
<1>. HIDE DEF n
<1>7. /\ owner'[k] = c /\ kind'[k] = kd
      /\ status'[k] = IF kd = "oneway" THEN "sent" ELSE "waiting"
      /\ kd # "oneway" => seq'[k] = n /\ lastSeq'[c] = n
      /\ \A j \in Calls : j # k => /\ owner'[j] = owner[j] /\ kind'[j] = kind[j]
                                   /\ status'[j] = status[j] /\ seq'[j] = seq[j]
      /\ \A d \in Clients : d # c => lastSeq'[d] = lastSeq[d]
  BY <1>2, <1>5, <1>6 DEF Inv, TypeOK
<1>8. TypeOK'
  <2>1. issued' \in 0..MaxCalls
    BY <1>1, <1>2, <1>5, <1>k DEF Calls
  <2>2. owner' \in [Calls -> Clients \cup {None}] /\ kind' \in [Calls -> AllKinds \cup {None}]
    BY <1>1, <1>5 DEF Inv, TypeOK
  <2>3. seq' \in [Calls -> 0..Modulus - 1] /\ lastSeq' \in [Clients -> 0..Modulus - 1]
    <3>1. CASE kd = "oneway"
      BY <1>6, <3>1 DEF Inv, TypeOK
    <3>2. CASE kd # "oneway"
      <4>1. n \in 0..Modulus - 1
        BY <1>1, <1>4
      <4>2. seq \in [Calls -> 0..Modulus - 1] /\ lastSeq \in [Clients -> 0..Modulus - 1]
        BY DEF Inv, TypeOK
      <4>. QED
        BY <1>6, <3>2, <4>1, <4>2
    <3>. QED
      BY <3>1, <3>2
  <2>4. status' \in [Calls -> Statuses]
    BY <1>5 DEF Inv, TypeOK, Statuses
  <2>5. c2s' \in [Clients -> Seq(Requests)]
    <3>1. CallMsg(k) \in Requests
      BY <1>2, MessageShapes DEF Requests
    <3>. QED
      BY <1>5, <3>1 DEF Inv, TypeOK
  <2>. QED
    BY <1>5, <2>1, <2>2, <2>3, <2>4, <2>5 DEF Inv, TypeOK
<1>9. CallInv'
  <2>1. k # issued' => k <= issued'
    BY <1>1, <1>2
  <2>2. \A j \in Calls : j # k => (j > issued' => j > issued) /\ (j <= issued' => j <= issued)
    BY <1>1, <1>2, <1>5
  <2>. QED
    BY <1>1, <1>2, <1>3, <1>4, <1>5, <1>7, <2>1, <2>2 DEF Inv, CallInv
<1>10. SomeInterrupted => SomeInterrupted'
  BY <1>3, <1>7 DEF SomeInterrupted
<1>11. /\ \A d \in Clients : c2s'[d] = IF d = c THEN Append(c2s[c], CallMsg(k)) ELSE c2s[d]
       /\ c2s[c] \in Seq(Requests) /\ CallMsg(k) \in CallRequest /\ CallMsg(k).call = k
       /\ CallMsg(k) \in Requests /\ CallMsg(k) \notin AbortRequest
  BY <1>2, <1>5, MessageShapes DEF Inv, TypeOK, Requests
<1>12. CallMsg(k) \notin ToSet(c2s[c])
  BY <1>1, <1>3, <1>11 DEF Inv, RequestInv, Pending
<1>13. Task("handle", c, CallMsg(k)) \notin ToSet(ready)
  <2>1. Task("handle", c, CallMsg(k)) \in Executions
    BY <1>11 DEF Task, Tasks, Executions
  <2>. QED
    BY <1>1, <1>3, <1>11, <2>1, TaskShapes DEF Inv, ReadyInv, Due
<1>14. RequestInv'
  <2>1. SUFFICES ASSUME NEW d \in Clients PROVE Pending(d)'
    BY DEF RequestInv
  <2>2. CASE d # c
    <3>1. \A m \in CallRequest : m \in ToSet(c2s[d]) => m.call # k
      BY <1>1, <1>3 DEF Inv, RequestInv, Pending
    <3>. QED
      BY <1>5, <1>7, <1>10, <1>11, <2>2, <3>1, MessageShapes DEF Inv, RequestInv, Pending, Untouched
  <2>3. CASE d = c
    <3>1. /\ Once(c2s[c], CallRequest)
          /\ \A m \in ToSet(c2s[c]) :
               /\ m \in CallRequest => /\ owner[m.call] = c /\ Untouched(m.call)
                                       /\ Task("handle", c, m) \notin ToSet(ready)
               /\ m \in AbortRequest => SomeInterrupted
      BY DEF Inv, RequestInv, Pending
    <3>2. ToSet(c2s'[c]) = ToSet(c2s[c]) \cup {CallMsg(k)} /\ Once(c2s'[c], CallRequest)
      BY <1>11, <1>12, <3>1, EntriesAppend, OnceAppend
    <3>3. \A m \in CallRequest : m \in ToSet(c2s[c]) => m.call # k /\ m.call \in Calls
      BY <1>1, <1>3, <3>1, MessageShapes
    <3>4. \A j \in Calls : Untouched(j)' <=> Untouched(j)
      BY <1>5 DEF Untouched
    <3>5. Untouched(k)
      BY <1>3 DEF Untouched
    <3>. QED
      BY <1>2, <1>5, <1>7, <1>10, <1>11, <1>13, <2>3, <3>1, <3>2, <3>3, <3>4, <3>5
      DEF Pending
  <2>. QED
    BY <2>2, <2>3
<1>15. ReadyInv'
  <2>1. ASSUME NEW t \in ToSet(ready) PROVE Due(t)'
    <3>1. t \in ServerTask /\ Due(t)
      BY Entries DEF Inv, ReadyInv
    <3>2. t \in Executions => t.conn \in Clients /\ t.msg.call \in Calls /\ t.msg.call # k
      BY <1>1, <1>3, <3>1, TaskShapes, MessageShapes DEF Due
    <3>3. t.kind \in {"run", "finish"} => t \in Executions
      BY <3>1, TaskShapes
    <3>4. t.kind = "handle" /\ t.msg \in CallRequest => t \in Executions
      BY <3>1, TaskShapes
    <3>. QED
      BY <1>5, <1>7, <1>10, <3>1, <3>2, <3>3, <3>4 DEF Due, Untouched
  <2>. QED
    BY <1>5, <2>1 DEF Inv, ReadyInv
<1>16. CancelInv'
  BY <1>5, <1>10 DEF Inv, CancelInv
<1>17. AnswerInv'
  <2>1. \A d \in Clients, m \in Answers : Genuine(d, m) => Genuine(d, m)'
    BY <1>1, <1>3, <1>5, <1>7, MessageShapes DEF Genuine
  <2>. QED
    BY <1>5, <2>1, Entries, TaskShapes DEF Inv, AnswerInv, Answering
<1>18. WakeInv'
  <2>1. \A d \in Clients : \A t \in ToSet(queue[d]) : t.kind = "wake" => t.msg.call \in Calls
    BY Entries, TaskShapes, MessageShapes DEF Inv
  <2>. QED
    BY <1>1, <1>3, <1>5, <1>7, <2>1 DEF Inv, WakeInv, Waking
<1>19. NumberInv'
  <2>1. ASSUME NEW j \in Calls, Numbered(j)', j # k
        PROVE  /\ Numbered(j) /\ j < k /\ owner[j] \in Clients
               /\ seq[j] \in 1..Modulus - 1 /\ lastSeq[owner[j]] \in 1..Modulus - 1
               /\ Gap(seq[j], lastSeq[owner[j]]) \in Nat
               /\ Gap(seq[j], lastSeq[owner[j]]) <= issued - j
    <3>1. Numbered(j) /\ j <= issued /\ j < k /\ j \in Nat
      BY <1>1, <1>2, <1>k, <1>7, <2>1 DEF Numbered
    <3>2. /\ owner[j] \in Clients /\ seq[j] # 0 /\ lastSeq[owner[j]] # 0
          /\ Gap(seq[j], lastSeq[owner[j]]) <= issued - j
      BY <3>1 DEF Inv, CallInv, NumberInv, Numbered
    <3>3. seq[j] \in 0..Modulus - 1 /\ lastSeq[owner[j]] \in 0..Modulus - 1
      BY <3>2 DEF Inv, TypeOK
    <3>4. seq[j] \in 1..Modulus - 1 /\ lastSeq[owner[j]] \in 1..Modulus - 1
      BY <1>1, <3>2, <3>3
    <3>. QED
      BY <1>1, <3>1, <3>2, <3>4 DEF Gap
  <2>2. ASSUME NEW j \in Calls, Numbered(j)', j # k
        PROVE  /\ lastSeq'[owner'[j]] # 0
               /\ Gap(seq'[j], lastSeq'[owner'[j]]) =
                    IF owner[j] = c /\ kd # "oneway" THEN Gap(seq[j], lastSeq[owner[j]]) + 1
                      ELSE Gap(seq[j], lastSeq[owner[j]])
    <3>1. CASE owner[j] = c /\ kd # "oneway"
      <4>1. Gap(seq[j], lastSeq[c]) < Modulus - 2 /\ Modulus >= 2
        BY <1>1, <1>2, <2>1, <2>2, <3>1, <1>k
      <4>2. Gap(seq[j], n) = Gap(seq[j], lastSeq[c]) + 1
        BY <2>1, <2>2, <3>1, <4>1, GapNext DEF n
      <4>. QED
        BY <1>4, <1>7, <2>2, <3>1, <4>2
    <3>2. CASE ~(owner[j] = c /\ kd # "oneway")
      BY <1>6, <1>7, <2>1, <2>2, <3>2
    <3>. QED
      BY <3>1, <3>2
  <2>3. ASSUME Numbered(k)'
        PROVE  lastSeq'[owner'[k]] # 0 /\ Gap(seq'[k], lastSeq'[owner'[k]]) = 0
    BY <1>1, <1>4, <1>7, <2>3 DEF Numbered, Gap
  <2>4. ASSUME NEW j \in Calls, Numbered(j)'
        PROVE  lastSeq'[owner'[j]] # 0 /\ Gap(seq'[j], lastSeq'[owner'[j]]) <= issued' - j
    <3>1. CASE j = k
      BY <1>1, <1>2, <1>5, <1>k, <2>3, <2>4, <3>1
    <3>2. CASE j # k
      <4>1. Gap(seq'[j], lastSeq'[owner'[j]]) <= Gap(seq[j], lastSeq[owner[j]]) + 1
        BY <2>1, <2>2, <2>4, <3>2
      <4>2. Gap(seq'[j], lastSeq'[owner'[j]]) \in Nat
        BY <2>1, <2>2, <2>4, <3>2
      <4>. QED
        BY <1>1, <1>2, <1>5, <1>k, <2>1, <2>2, <2>4, <3>2, <4>1, <4>2
    <3>. QED
      BY <3>1, <3>2
  <2>5. ASSUME NEW i \in Calls, NEW j \in Calls, Numbered(i)', Numbered(j)', i < j,
               owner'[i] = owner'[j]
        PROVE  Gap(seq'[j], lastSeq'[owner'[j]]) < Gap(seq'[i], lastSeq'[owner'[i]])
    <3>1. i # k
      BY <1>1, <1>2, <1>5, <1>k, <2>5 DEF Numbered
    <3>2. CASE j = k
      BY <1>7, <2>1, <2>2, <2>3, <2>5, <3>1, <3>2 DEF Numbered
    <3>3. CASE j # k
      <4>1. Gap(seq[j], lastSeq[owner[j]]) < Gap(seq[i], lastSeq[owner[i]])
        BY <1>7, <2>1, <2>5, <3>1, <3>3 DEF Inv, NumberInv
      <4>. QED
        BY <1>7, <2>1, <2>2, <2>5, <3>1, <3>3, <4>1
    <3>. QED
      BY <3>2, <3>3
  <2>. QED
    BY <2>4, <2>5 DEF NumberInv
<1>. QED
  BY <1>8, <1>9, <1>14, <1>15, <1>16, <1>17, <1>18, <1>19 DEF Inv

\* What a step of a client or the network leaves as it was on the server.
LEMMA ServerUntouched ==
  ASSUME Inv, UNCHANGED <<callVars, ready, body, outcome, cancelled>>,
         SomeInterrupted => SomeInterrupted'
  PROVE  ReadyInv' /\ CancelInv' /\ NumberInv' /\ (c2s' = c2s => RequestInv')
<1>1. ReadyInv'
  BY DEF Inv, ReadyInv, Due, Untouched, callVars
<1>2. CancelInv'
  BY DEF Inv, CancelInv
<1>3. NumberInv'
  BY DEF Inv, NumberInv, Numbered, callVars
<1>4. c2s' = c2s => RequestInv'
  BY DEF Inv, RequestInv, Pending, Untouched, callVars
<1>. QED
  BY <1>1, <1>2, <1>3, <1>4

LEMMA InterruptInv ==
  ASSUME Inv, NEW k \in Calls, Interrupt(k)
  PROVE  Inv'
<1>1. PICK c \in Clients : owner[k] = c
  BY CallsAssumption DEF Interrupt
<1>2. /\ status' = [status EXCEPT ![k] = "stopping"]
      /\ status[k] \in {"waiting", "resolved"} /\ kind[k] # "oneway"
      /\ UNCHANGED <<callVars, reply, c2s, s2c, lost, ready, body, outcome, cancelled, abortable>>
  BY DEF Interrupt, netVars, serverVars, Inv, CallInv
<1>3. /\ status'[k] = "stopping"
      /\ \A j \in Calls : j # k => status'[j] = status[j]
      /\ status' \in [Calls -> Statuses]
  BY <1>2 DEF Inv, TypeOK, Statuses
<1>4. SomeInterrupted => SomeInterrupted'
  BY <1>2, <1>3 DEF SomeInterrupted
<1>5. CallInv'
  BY <1>2, <1>3 DEF Inv, CallInv, callVars
<1> DEFINE x == Task("wake", c, CallMsg(k))
<1>6. /\ x \in ClientTask /\ x.kind = "wake" /\ x.conn = c /\ x.msg.call = k
      /\ CallMsg(k).call = k
  BY MessageShapes, TaskTypes, TaskShapes
<1>7. /\ \A d \in Clients : /\ queue[d] \in Seq(ClientTask) /\ Once(queue[d], Wakes)
                            /\ ToSet(queue[d]) \subseteq ClientTask
      /\ queue \in [Clients -> Seq(ClientTask)]
  BY Entries DEF Inv, TypeOK, WakeInv, Waking
<1>8. /\ queue' \in [Clients -> Seq(ClientTask)]
      /\ \A d \in Clients : /\ ToSet(queue'[d]) \subseteq ToSet(queue[d]) \cup {x}
                            /\ Once(queue'[d], Wakes)
                            /\ d # c => queue'[d] = queue[d]
  <2>1. CASE status[k] = "resolved"
    BY <1>7, <2>1 DEF Interrupt
  <2>2. CASE status[k] = "waiting"
    <3>1. queue' = [queue EXCEPT ![c] = Append(@, x)]
      BY <1>1, <2>2 DEF Interrupt
    <3>2. x \notin ToSet(queue[c])
      BY <1>6, <2>2 DEF Inv, WakeInv, Waking
    <3>3. /\ Append(queue[c], x) \in Seq(ClientTask)
          /\ ToSet(Append(queue[c], x)) = ToSet(queue[c]) \cup {x}
          /\ Once(Append(queue[c], x), Wakes)
      BY <1>6, <1>7, <3>2, EntriesAppend, OnceAppend
    <3>. QED
      BY <1>7, <3>1, <3>3
  <2>. QED
    BY <1>2, <2>1, <2>2
<1>. HIDE DEF x
<1>9. TypeOK'
  BY <1>2, <1>3, <1>8 DEF Inv, TypeOK, callVars
<1>10. AnswerInv'
  BY <1>2, <1>6, <1>8 DEF Inv, AnswerInv, Answering, Genuine, callVars
<1>11. WakeInv'
  <2>1. SUFFICES ASSUME NEW d \in Clients, NEW t \in ToSet(queue'[d]), t.kind = "wake"
                 PROVE  /\ t.conn = d /\ owner[t.msg.call] = d
                        /\ status'[t.msg.call] \in {"resolved", "stopping"}
    BY <1>2, <1>8 DEF WakeInv, Waking, callVars
  <2>2. CASE t \in ToSet(queue[d])
    <3>1. t.msg.call \in Calls
      BY <1>7, <2>1, <2>2, TaskShapes, MessageShapes
    <3>. QED
      BY <1>3, <2>1, <2>2, <3>1 DEF Inv, WakeInv, Waking
  <2>3. CASE t \notin ToSet(queue[d])
    BY <1>1, <1>3, <1>6, <1>8, <2>1, <2>3
  <2>. QED
    BY <2>2, <2>3
<1>. QED
  BY <1>2, <1>4, <1>5, <1>9, <1>10, <1>11, ServerUntouched DEF Inv

LEMMA ClientArriveInv ==
  ASSUME Inv, NEW c \in Clients, ClientArrive(c)
  PROVE  Inv'
<1> DEFINE x == Task("listen", c, NoMsg)
<1>1. /\ UNCHANGED <<callVars, status, reply, netVars, ready, serverVars>>
      /\ queue' = [queue EXCEPT ![c] = Append(@, x)]
  BY DEF ClientArrive
<1>2. x \in ClientTask /\ x.kind = "listen" /\ x \notin Wakes
  BY TaskTypes, TaskShapes
<1>3. queue \in [Clients -> Seq(ClientTask)] /\ \A d \in Clients : Once(queue[d], Wakes)
  BY DEF Inv, TypeOK, WakeInv, Waking
<1>4. /\ Append(queue[c], x) \in Seq(ClientTask)
      /\ ToSet(Append(queue[c], x)) = ToSet(queue[c]) \cup {x}
      /\ Once(Append(queue[c], x), Wakes)
  BY <1>2, <1>3, EntriesAppend, OnceAppend
<1>. HIDE DEF x
<1>5. \A d \in Clients : /\ ToSet(queue'[d]) \subseteq ToSet(queue[d]) \cup {x}
                         /\ Once(queue'[d], Wakes)
  BY <1>1, <1>3, <1>4
<1>6. TypeOK'
  BY <1>1, <1>3, <1>4 DEF Inv, TypeOK, callVars, netVars, serverVars
<1>7. CallInv'
  BY <1>1 DEF Inv, CallInv, callVars, serverVars
<1>8. AnswerInv'
  <2>1. \A d, m : Genuine(d, m)' <=> Genuine(d, m)
    BY <1>1 DEF Genuine, callVars, serverVars
  <2>. QED
    BY <1>1, <1>2, <1>5, <2>1 DEF Inv, AnswerInv, Answering, netVars
<1>9. WakeInv'
  BY <1>1, <1>2, <1>5 DEF Inv, WakeInv, Waking, callVars
<1>10. SomeInterrupted => SomeInterrupted'
  BY <1>1 DEF SomeInterrupted
<1>. QED
  BY <1>1, <1>6, <1>7, <1>8, <1>9, <1>10, ServerUntouched DEF Inv, netVars, serverVars

LEMMA ClientListenInv ==
  ASSUME Inv, NEW c \in Clients, ClientListen(c)
  PROVE  Inv'
<1>1. PICK n \in 0..Len(s2c[c]) :
        /\ queue' = [queue EXCEPT ![c] = Tail(@) \o HandleAll("dispatch", c, s2c[c], n)]
        /\ s2c' = [s2c EXCEPT ![c] = Drop(@, n)]
  <2>1. Len(s2c[c]) \in Nat
    BY LenProperties DEF Inv, TypeOK
  <2>2. PICK n \in IF s2c[c] = <<>> THEN {0} ELSE 1..Len(s2c[c]) :
          /\ queue' = [queue EXCEPT ![c] = Tail(@) \o HandleAll("dispatch", c, s2c[c], n)]
          /\ s2c' = [s2c EXCEPT ![c] = Drop(@, n)]
    BY DEF ClientListen
  <2>3. n \in 0..Len(s2c[c])
    BY <2>1, <2>2
  <2>. QED
    BY <2>2, <2>3
<1>2. /\ queue[c] # <<>>
      /\ UNCHANGED <<callVars, status, reply, c2s, lost, ready, serverVars>>
  BY DEF ClientListen, Running
<1>3. /\ queue \in [Clients -> Seq(ClientTask)] /\ s2c \in [Clients -> Seq(Answers)]
      /\ \A d \in Clients : Once(queue[d], Wakes)
  BY DEF Inv, TypeOK, WakeInv, Waking
<1> DEFINE xs == HandleAll("dispatch", c, s2c[c], n)
<1>4. /\ xs \in Seq(ClientTask)
      /\ \A x \in ToSet(xs) : \E m \in ToSet(s2c[c]) : x = Task("dispatch", c, m)
  BY <1>3, TaskTypes, EntriesHandleAll
<1>5. Drop(s2c[c], n) \in Seq(Answers) /\ ToSet(Drop(s2c[c], n)) \subseteq ToSet(s2c[c])
  BY <1>3, EntriesPart
<1>6. \A x \in ToSet(xs) : x.kind = "dispatch" /\ x \notin Wakes /\ x.msg \in ToSet(s2c[c])
  BY <1>4, TaskShapes, EntriesType
<1>7. /\ Tail(queue[c]) \o xs \in Seq(ClientTask)
      /\ ToSet(Tail(queue[c]) \o xs) \subseteq ToSet(queue[c]) \cup ToSet(xs)
  BY <1>2, <1>3, <1>4, EntriesStep
<1>8. Once(Tail(queue[c]) \o xs, Wakes)
  <2>1. Once(xs, Wakes)
    BY <1>6 DEF Once, ToSet
  <2>. QED
    BY <1>2, <1>3, <1>4, <1>6, <2>1, OnceStep
<1>. HIDE DEF xs
<1>9. /\ \A d \in Clients : /\ ToSet(queue'[d]) \subseteq
                                 ToSet(queue[d]) \cup IF d = c THEN ToSet(xs) ELSE {}
                            /\ Once(queue'[d], Wakes)
                            /\ ToSet(s2c'[d]) \subseteq ToSet(s2c[d])
      /\ queue' \in [Clients -> Seq(ClientTask)] /\ s2c' \in [Clients -> Seq(Answers)]
  BY <1>1, <1>3, <1>5, <1>7, <1>8 DEF xs
<1>10. TypeOK'
  BY <1>2, <1>9 DEF Inv, TypeOK, callVars, serverVars
<1>11. CallInv'
  BY <1>2 DEF Inv, CallInv, callVars, serverVars
<1>12. AnswerInv'
  BY <1>2, <1>6, <1>9 DEF Inv, AnswerInv, Answering, Genuine, callVars, serverVars
<1>13. WakeInv'
  BY <1>2, <1>6, <1>9 DEF Inv, WakeInv, Waking, callVars
<1>14. SomeInterrupted => SomeInterrupted'
  BY <1>2 DEF SomeInterrupted
<1>. QED
  BY <1>2, <1>10, <1>11, <1>12, <1>13, <1>14, ServerUntouched DEF Inv, serverVars

LEMMA DispatchReplyInv ==
  ASSUME Inv, NEW c \in Clients, DispatchReply(c)
  PROVE  Inv'
<1> DEFINE m == Head(queue[c]).msg
<1>1. /\ queue[c] # <<>> /\ Head(queue[c]).kind = "dispatch"
      /\ UNCHANGED <<callVars, netVars, ready, serverVars>>
  BY DEF DispatchReply, Running
<1>2. /\ queue \in [Clients -> Seq(ClientTask)]
      /\ \A d \in Clients : Once(queue[d], Wakes) /\ ToSet(queue[d]) \subseteq ClientTask
  BY Entries DEF Inv, TypeOK, WakeInv, Waking
<1>3. Head(queue[c]) \in ToSet(queue[c]) /\ Head(queue[c]) \in ClientTask
  BY <1>1, <1>2, EntriesStep, EmptySeq
<1>4. m \in Answers /\ m.call \in Calls /\ Genuine(c, m)
  BY <1>1, <1>3, TaskShapes, MessageShapes DEF Inv, AnswerInv, Answering
<1>5. PICK ks \in SUBSET Calls : ks = Listeners(c, m.seq)
  BY DEF Listeners
<1>6. /\ \A k \in ks : /\ k = m.call /\ owner[k] = c /\ status[k] = "waiting"
                       /\ outcome[k] = m.how
      /\ IsFiniteSet(Calls)
  <2>1. ASSUME NEW k \in ks
        PROVE  k = m.call /\ owner[k] = c /\ status[k] = "waiting" /\ outcome[k] = m.how
    <3>1. owner[k] = c /\ seq[k] = m.seq /\ status[k] = "waiting"
      BY <1>5 DEF Listeners
    <3>2. Numbered(k) /\ Numbered(m.call)
      <4>1. issued \in Nat /\ None \notin Clients /\ \A j \in Calls : j \in Nat
        BY CallsAssumption DEF Inv, TypeOK, Calls
      <4>2. k <= issued /\ m.call <= issued
        BY <1>4, <3>1, <4>1 DEF Inv, CallInv, Genuine
      <4>. QED
        BY <1>4, <3>1, <4>2 DEF Inv, CallInv, Numbered, Genuine
    <3>3. k = m.call
      BY <1>4, <3>1, <3>2, NumbersDiffer DEF Inv, Genuine
    <3>. QED
      BY <1>4, <3>1, <3>3 DEF Genuine
  <2>2. IsFiniteSet(Calls)
    BY FS_Interval, CallsAssumption DEF Calls
  <2>. QED
    BY <2>1, <2>2
<1> DEFINE F == [k \in ks |-> Task("wake", c, CallMsg(k))]
<1>7. PICK order \in SetToSeqs(ks) :
        queue' = [queue EXCEPT ![c] = Tail(@) \o [i \in DOMAIN order |-> F[order[i]]]]
  <2>1. PICK order \in SetToSeqs(ks) :
          queue' = [queue EXCEPT ![c] = Tail(@) \o
                      [i \in DOMAIN order |-> Task("wake", c, CallMsg(order[i]))]]
    BY <1>5 DEF DispatchReply
  <2>2. \A i \in DOMAIN order : order[i] \in ks
    BY <2>1 DEF SetToSeqs
  <2>. QED
    BY <2>1, <2>2
<1> DEFINE xs == [i \in DOMAIN order |-> F[order[i]]]
<1>8. /\ xs \in Seq(ClientTask)
      /\ \A x \in ToSet(xs) : \E k \in ks : x = Task("wake", c, CallMsg(k))
      /\ Once(xs, Wakes)
  <2>1. F \in [ks -> ClientTask]
    BY TaskTypes, MessageShapes
  <2>2. \A a, b \in ks : F[a] = F[b] => a = b
    BY TaskShapes, MessageShapes
  <2>3. \A k \in ks : F[k] = Task("wake", c, CallMsg(k))
    OBVIOUS
  <2>. HIDE DEF F
  <2>4. /\ xs \in Seq(ClientTask) /\ \A x \in ToSet(xs) : \E k \in ks : x = F[k]
        /\ \A S : Once(xs, S)
    <3>1. IsFiniteSet(Calls) /\ ks \in SUBSET Calls /\ order \in SetToSeqs(ks)
      BY <1>6
    <3>. QED
      BY ONLY <2>1, <2>2, <3>1, OnceOrder
  <2>. QED
    BY <2>3, <2>4
<1>. HIDE DEF xs, m
<1>9. \A x \in ToSet(xs) : /\ x.kind = "wake" /\ x.conn = c /\ x.msg.call \in ks
                           /\ x \notin ToSet(queue[c])
  BY <1>6, <1>8, TaskShapes, MessageShapes DEF Inv, WakeInv, Waking
<1>10. /\ Tail(queue[c]) \o xs \in Seq(ClientTask)
       /\ ToSet(Tail(queue[c]) \o xs) \subseteq ToSet(queue[c]) \cup ToSet(xs)
       /\ ToSet(Tail(queue[c])) \subseteq ToSet(queue[c])
  BY <1>1, <1>2, <1>8, EntriesStep
<1>11. Once(Tail(queue[c]) \o xs, Wakes)
  BY <1>1, <1>2, <1>8, <1>9, <1>10, OnceStep
<1>12. /\ \A d \in Clients : /\ ToSet(queue'[d]) \subseteq
                                  ToSet(queue[d]) \cup IF d = c THEN ToSet(xs) ELSE {}
                             /\ Once(queue'[d], Wakes)
       /\ queue' \in [Clients -> Seq(ClientTask)]
  BY <1>2, <1>7, <1>10, <1>11 DEF xs
<1>13. /\ status' = [k \in Calls |-> IF k \in ks THEN "resolved" ELSE status[k]]
       /\ reply' = [k \in Calls |-> IF k \in ks THEN m ELSE reply[k]]
  BY <1>5 DEF DispatchReply, m
<1>14. TypeOK'
  <2>1. status' \in [Calls -> Statuses] /\ reply' \in [Calls -> Answers \cup {NoAnswer}]
    BY <1>4, <1>13 DEF Inv, TypeOK, Statuses
  <2>. QED
    BY <1>1, <1>12, <2>1 DEF Inv, TypeOK, callVars, netVars, serverVars
<1>15. CallInv'
  BY <1>1, <1>4, <1>6, <1>13 DEF Inv, CallInv, callVars, serverVars
<1>16. AnswerInv'
  BY <1>1, <1>9, <1>12 DEF Inv, AnswerInv, Answering, Genuine, callVars, netVars, serverVars
<1>17. WakeInv'
  <2>1. SUFFICES ASSUME NEW d \in Clients, NEW t \in ToSet(queue'[d]), t.kind = "wake"
                 PROVE  /\ t.conn = d /\ owner[t.msg.call] = d
                        /\ status'[t.msg.call] \in {"resolved", "stopping"}
    BY <1>1, <1>12 DEF WakeInv, Waking, callVars
  <2>2. CASE t \in ToSet(queue[d])
    <3>1. t.msg.call \in Calls
      BY <1>2, <2>1, <2>2, TaskShapes, MessageShapes
    <3>. QED
      BY <1>13, <2>1, <2>2, <3>1 DEF Inv, WakeInv, Waking
  <2>3. CASE t \notin ToSet(queue[d])
    <3>1. d = c /\ t \in ToSet(xs)
      BY <1>12, <2>1, <2>3
    <3>. QED
      BY <1>6, <1>9, <1>13, <3>1
  <2>. QED
    BY <2>2, <2>3
<1>18. SomeInterrupted => SomeInterrupted'
  BY <1>6, <1>13 DEF SomeInterrupted
<1>. QED
  BY <1>1, <1>14, <1>15, <1>16, <1>17, <1>18, ServerUntouched DEF Inv, netVars, serverVars

LEMMA WakeCallerInv ==
  ASSUME Inv, NEW c \in Clients, WakeCaller(c)
  PROVE  Inv'
<1>1. /\ queue[c] # <<>> /\ Head(queue[c]).kind = "wake"
      /\ queue' = [queue EXCEPT ![c] = Tail(@)]
      /\ UNCHANGED <<callVars, reply, s2c, lost, ready, serverVars>>
  BY DEF WakeCaller, Running
<1>2. /\ queue \in [Clients -> Seq(ClientTask)]
      /\ \A d \in Clients : Once(queue[d], Wakes) /\ ToSet(queue[d]) \subseteq ClientTask
  BY Entries DEF Inv, TypeOK, WakeInv, Waking
<1> DEFINE h == Head(queue[c])
<1>3. /\ h \in ToSet(queue[c]) /\ h \in ClientTask /\ h \in Wakes
      /\ Tail(queue[c]) \in Seq(ClientTask)
      /\ ToSet(Tail(queue[c])) \subseteq ToSet(queue[c])
      /\ Once(Tail(queue[c]), Wakes) /\ h \notin ToSet(Tail(queue[c]))
  <2>1. h \in ToSet(queue[c]) /\ h \in ClientTask
    BY <1>1, <1>2, EntriesStep, EmptySeq
  <2>2. h \in Wakes
    BY <1>1, <2>1, TaskShapes
  <2>3. /\ Tail(queue[c]) \in Seq(ClientTask)
        /\ ToSet(Tail(queue[c])) \subseteq ToSet(queue[c])
    BY <1>1, <1>2, EntriesStep, EmptySeq
  <2>. QED
    BY <1>1, <1>2, <2>1, <2>2, <2>3, OnceTail
<1>4. PICK k \in Calls : k = h.msg.call
  BY <1>1, <1>3, TaskShapes, MessageShapes
<1>5. owner[k] = c /\ status[k] \in {"resolved", "stopping"} /\ h = Task("wake", c, CallMsg(k))
  BY <1>1, <1>3, <1>4, TaskShapes, MessageShapes DEF Inv, WakeInv, Waking
<1>6. /\ status' \in [Calls -> Statuses]
      /\ status'[k] \in {"interrupted", "returned", "failed"}
      /\ status[k] = "stopping" => status'[k] = "interrupted"
      /\ \A j \in Calls : j # k => status'[j] = status[j]
  BY <1>4 DEF WakeCaller, Inv, TypeOK, Statuses
<1> DEFINE a == Request("ABORT", 0, {j \in Calls : owner[j] = c})
<1>7. /\ c2s' \in [Clients -> Seq(Requests)]
      /\ \A d \in Clients :
           \/ c2s'[d] = c2s[d]
           \/ /\ c2s'[d] = Append(c2s[d], a) /\ status[k] = "stopping"
  <2>1. a \in Requests /\ c2s \in [Clients -> Seq(Requests)]
    BY MessageShapes DEF Requests, Inv, TypeOK
  <2>2. \/ c2s' = c2s
        \/ c2s' = [c2s EXCEPT ![c] = Append(@, a)] /\ status[k] = "stopping"
    BY <1>4 DEF WakeCaller, Send
  <2>3. Append(c2s[c], a) \in Seq(Requests)
    BY <2>1
  <2>. QED
    BY <2>1, <2>2, <2>3
<1>8. a \in AbortRequest /\ a \notin CallRequest /\ a \in Requests
  BY MessageShapes DEF Requests
<1>. HIDE DEF a, h
<1>9. SomeInterrupted => SomeInterrupted'
  BY <1>5, <1>6 DEF SomeInterrupted
<1>10. TypeOK'
  BY <1>1, <1>2, <1>3, <1>6, <1>7 DEF Inv, TypeOK, callVars, serverVars
<1>11. CallInv'
  BY <1>1, <1>5, <1>6 DEF Inv, CallInv, callVars, serverVars
<1>12. \A d \in Clients : /\ ToSet(queue'[d]) \subseteq ToSet(queue[d])
                          /\ d = c => h \notin ToSet(queue'[d])
                          /\ Once(queue'[d], Wakes)
  BY <1>1, <1>2, <1>3
<1>13. RequestInv'
  <2>1. SUFFICES ASSUME NEW d \in Clients PROVE Pending(d)'
    BY DEF RequestInv
  <2>2. Pending(d) /\ c2s[d] \in Seq(Requests)
    BY DEF Inv, RequestInv, TypeOK
  <2>3. CASE c2s'[d] = c2s[d]
    BY <1>1, <1>9, <2>2, <2>3 DEF Pending, Untouched, callVars, serverVars
  <2>4. CASE c2s'[d] = Append(c2s[d], a) /\ status[k] = "stopping"
    <3>1. ToSet(c2s'[d]) = ToSet(c2s[d]) \cup {a} /\ Once(c2s'[d], CallRequest)
      BY <1>8, <2>2, <2>4, EntriesAppend, OnceAppend DEF Pending
    <3>2. SomeInterrupted'
      BY <1>6, <2>4 DEF SomeInterrupted
    <3>. QED
      BY <1>1, <1>8, <2>2, <3>1, <3>2 DEF Pending, Untouched, callVars, serverVars
  <2>. QED
    BY <1>7, <2>3, <2>4
<1>14. AnswerInv'
  BY <1>1, <1>12 DEF Inv, AnswerInv, Answering, Genuine, callVars, serverVars
<1>15. WakeInv'
  <2>1. SUFFICES ASSUME NEW d \in Clients, NEW t \in ToSet(queue'[d]), t.kind = "wake"
                 PROVE  /\ t.conn = d /\ owner[t.msg.call] = d
                        /\ status'[t.msg.call] \in {"resolved", "stopping"}
    BY <1>1, <1>12 DEF WakeInv, Waking, callVars
  <2>2. /\ t \in ToSet(queue[d]) /\ t.conn = d /\ owner[t.msg.call] = d
        /\ status[t.msg.call] \in {"resolved", "stopping"} /\ t.msg.call \in Calls
        /\ t = Task("wake", d, CallMsg(t.msg.call))
    BY <1>2, <1>12, <2>1, TaskShapes, MessageShapes DEF Inv, WakeInv, Waking
  <2>3. t.msg.call # k
    BY <1>5, <1>12, <2>1, <2>2
  <2>. QED
    BY <1>6, <2>2, <2>3
<1>. QED
  BY <1>1, <1>9, <1>10, <1>11, <1>13, <1>14, <1>15, ServerUntouched DEF Inv, serverVars

\* The connection breaks.
LEMMA LoseInv ==
  ASSUME Inv, NEW c \in Clients, Lose(c)
  PROVE  Inv'
<1>1. /\ UNCHANGED <<callVars, clientVars, ready, serverVars>>
      /\ lost' = lost \cup {c}
      /\ c2s \in [Clients -> Seq(Requests)] /\ s2c \in [Clients -> Seq(Answers)]
  BY DEF Lose, Inv, TypeOK
<1>2. PICK n \in 0..Len(c2s[c]) : c2s' = [c2s EXCEPT ![c] = SubSeq(@, 1, n)]
  BY DEF Lose
<1>3. PICK l \in 0..Len(s2c[c]) : s2c' = [s2c EXCEPT ![c] = SubSeq(@, 1, l)]
  BY DEF Lose
<1>4. /\ SubSeq(c2s[c], 1, n) \in Seq(Requests)
      /\ ToSet(SubSeq(c2s[c], 1, n)) \subseteq ToSet(c2s[c])
      /\ Once(SubSeq(c2s[c], 1, n), CallRequest)
  BY <1>1, EntriesPart, OncePart DEF Inv, RequestInv, Pending
<1>5. /\ SubSeq(s2c[c], 1, l) \in Seq(Answers)
      /\ ToSet(SubSeq(s2c[c], 1, l)) \subseteq ToSet(s2c[c])
  BY <1>1, EntriesPart
<1>6. TypeOK'
  BY <1>1, <1>2, <1>3, <1>4, <1>5 DEF Inv, TypeOK, callVars, clientVars, serverVars
<1>7. CallInv'
  BY <1>1 DEF Inv, CallInv, callVars, clientVars, serverVars
<1>8. SomeInterrupted => SomeInterrupted'
  BY <1>1 DEF SomeInterrupted, clientVars
<1>9. RequestInv'
  <2>1. SUFFICES ASSUME NEW d \in Clients PROVE Pending(d)'
    BY DEF RequestInv
  <2>2. Pending(d)
    BY DEF Inv, RequestInv
  <2>3. ToSet(c2s'[d]) \subseteq ToSet(c2s[d]) /\ Once(c2s'[d], CallRequest)
    BY <1>1, <1>2, <1>4, <2>2 DEF Pending
  <2>. QED
    BY <1>1, <1>8, <2>2, <2>3 DEF Pending, Untouched, callVars, serverVars
<1>10. AnswerInv'
  <2>1. \A d \in Clients : ToSet(s2c'[d]) \subseteq ToSet(s2c[d])
    BY <1>1, <1>3, <1>5
  <2>. QED
    BY <1>1, <2>1 DEF Inv, AnswerInv, Answering, Genuine, callVars, clientVars, serverVars
<1>11. WakeInv'
  BY <1>1 DEF Inv, WakeInv, Waking, callVars, clientVars
<1>. QED
  BY <1>1, <1>6, <1>7, <1>8, <1>9, <1>10, <1>11, ServerUntouched
  DEF Inv, clientVars, serverVars

(***************************************************************************)
(* The server's steps.                                                     *)
(***************************************************************************)
\* What a step of the server leaves as it was at the clients.
LEMMA ClientUntouched ==
  ASSUME Inv, UNCHANGED <<callVars, clientVars>>,
         \A k \in Calls : outcome[k] # None => outcome'[k] = outcome[k]
  PROVE  /\ WakeInv' /\ NumberInv'
         /\ \A c \in Clients : \A m \in Answers : Genuine(c, m) => Genuine(c, m)'
         /\ s2c' = s2c => AnswerInv'
         /\ SomeInterrupted' <=> SomeInterrupted
<1>1. WakeInv' /\ NumberInv'
  BY DEF Inv, WakeInv, Waking, NumberInv, Numbered, callVars, clientVars
<1>2. \A c \in Clients : \A m \in Answers : Genuine(c, m) => Genuine(c, m)'
  BY MessageShapes, CallsAssumption DEF Genuine, callVars
<1>3. s2c' = s2c => AnswerInv'
  BY <1>2, Entries, TaskShapes DEF Inv, AnswerInv, Answering, clientVars
<1>4. SomeInterrupted' <=> SomeInterrupted
  BY DEF SomeInterrupted, clientVars
<1>. QED
  BY <1>1, <1>2, <1>3, <1>4

\* A task of an execution is known by its kind and its call.
LEMMA ExecutionOf ==
  ASSUME Inv, NEW t \in ToSet(ready), t \in Executions
  PROVE  /\ t.msg.call \in Calls /\ t.msg.call <= issued /\ owner[t.msg.call] \in Clients
         /\ t.kind \in {"handle", "run", "finish"}
         /\ t = Task(t.kind, owner[t.msg.call], CallMsg(t.msg.call))
<1>1. t \in ServerTask /\ Due(t)
  BY Entries DEF Inv, ReadyInv
<1>2. t.msg \in CallRequest /\ t.msg.call \in Calls /\ owner[t.msg.call] = t.conn
  BY <1>1, TaskShapes, MessageShapes DEF Due
<1>3. t.msg.call <= issued
  BY <1>1, <1>2, TaskShapes, CallsAssumption DEF Inv, CallInv, TypeOK, Calls
<1>. QED
  BY <1>1, <1>2, <1>3, TaskShapes, MessageShapes

\* A future is resolved only with the outcome of an execution that ended.
LEMMA NotResolved ==
  ASSUME Inv, NEW k \in Calls, outcome[k] = None
  PROVE  status[k] # "resolved"
<1>1. SUFFICES ASSUME status[k] = "resolved" PROVE FALSE
  OBVIOUS
<1>2. reply[k].call = k /\ reply[k].how = None /\ reply[k] \in Answers \cup {NoAnswer}
  BY <1>1 DEF Inv, CallInv, TypeOK
<1>3. k # 0
  BY DEF Calls
<1>4. reply[k] \in Answers
  BY <1>2, <1>3 DEF NoAnswer
<1>. QED
  BY <1>2, <1>4, MessageShapes, CallsAssumption

LEMMA ServerHead ==
  ASSUME Inv, ready # <<>>
  PROVE  /\ Head(ready) \in ToSet(ready) /\ Head(ready) \in ServerTask /\ Due(Head(ready))
         /\ ready \in Seq(ServerTask) /\ Tail(ready) \in Seq(ServerTask)
         /\ ToSet(Tail(ready)) \subseteq ToSet(ready)
         /\ Once(ready, Executions) /\ Once(Tail(ready), Executions)
         /\ Head(ready) \in Executions => Head(ready) \notin ToSet(Tail(ready))
<1>1. ready \in Seq(ServerTask) /\ Once(ready, Executions)
  BY DEF Inv, TypeOK, ReadyInv
<1>2. /\ Head(ready) \in ToSet(ready) /\ Head(ready) \in ServerTask
      /\ Tail(ready) \in Seq(ServerTask) /\ ToSet(Tail(ready)) \subseteq ToSet(ready)
  BY <1>1, EntriesStep, EmptySeq
<1>. QED
  BY <1>1, <1>2, OnceTail DEF Inv, ReadyInv

LEMMA ServerArriveInv ==
  ASSUME Inv, NEW c \in Clients, ServerArrive(c)
  PROVE  Inv'
<1> DEFINE x == Task("listen", c, NoMsg)
<1>1. /\ UNCHANGED <<callVars, clientVars, netVars, serverVars>>
      /\ ready' = Append(ready, x) /\ ready \in Seq(ServerTask)
  BY DEF ServerArrive, Inv, TypeOK
<1>2. x \in ServerTask /\ x.kind = "listen" /\ x \notin Executions
  BY TaskTypes, TaskShapes
<1>3. /\ ready' \in Seq(ServerTask) /\ ToSet(ready') = ToSet(ready) \cup {x}
      /\ Once(ready', Executions)
  BY <1>1, <1>2, EntriesAppend, OnceAppend DEF Inv, ReadyInv
<1>4. TypeOK'
  BY <1>1, <1>3 DEF Inv, TypeOK, callVars, clientVars, netVars, serverVars
<1>5. CallInv' /\ CancelInv'
  BY <1>1 DEF Inv, CallInv, CancelInv, SomeInterrupted, callVars, clientVars, serverVars
<1>. HIDE DEF x
<1>6. ReadyInv'
  BY <1>1, <1>2, <1>3
  DEF Inv, ReadyInv, Due, Untouched, SomeInterrupted, callVars, clientVars, serverVars
<1>7. RequestInv'
  <2>1. \A d \in Clients : \A m : Task("handle", d, m) # x
    BY <1>2, TaskShapes
  <2>. QED
    BY <1>1, <1>3, <2>1 DEF Inv, RequestInv, Pending, Untouched, SomeInterrupted,
                            callVars, clientVars, netVars, serverVars
<1>. QED
  BY <1>1, <1>4, <1>5, <1>6, <1>7, ClientUntouched DEF Inv, netVars, serverVars

LEMMA ServerListenInv ==
  ASSUME Inv, ServerListen
  PROVE  Inv'
<1>1. PICK c \in Clients : c = Head(ready).conn
  BY ServerHead, TaskShapes DEF ServerListen, Serving
<1>2. /\ ready # <<>> /\ UNCHANGED <<callVars, clientVars, s2c, lost, serverVars>>
      /\ c2s \in [Clients -> Seq(Requests)] /\ Once(c2s[c], CallRequest)
  BY DEF ServerListen, Serving, Inv, TypeOK, RequestInv, Pending
<1>3. PICK n \in 0..Len(c2s[c]) :
        /\ ready' = Tail(ready) \o HandleAll("handle", c, c2s[c], n)
        /\ c2s' = [c2s EXCEPT ![c] = Drop(@, n)]
  <2>1. Len(c2s[c]) \in Nat
    BY <1>2, LenProperties
  <2>2. PICK n \in IF c2s[c] = <<>> THEN {0} ELSE 1..Len(c2s[c]) :
          /\ ready' = Tail(ready) \o HandleAll("handle", c, c2s[c], n)
          /\ c2s' = [c2s EXCEPT ![c] = Drop(@, n)]
    BY <1>1 DEF ServerListen
  <2>3. n \in 0..Len(c2s[c])
    BY <2>1, <2>2
  <2>. QED
    BY <2>2, <2>3
<1> DEFINE xs == HandleAll("handle", c, c2s[c], n)
<1>4. /\ xs \in Seq(ServerTask)
      /\ \A x \in ToSet(xs) : \E m \in ToSet(c2s[c]) : x = Task("handle", c, m)
  <2>1. /\ c2s[c] \in Seq(Requests) /\ n \in 0..Len(c2s[c])
        /\ \A m \in Requests : Task("handle", c, m) \in ServerTask
    BY <1>2, TaskTypes
  <2>. QED
    BY ONLY <2>1, EntriesHandleAll
<1>5. /\ Drop(c2s[c], n) \in Seq(Requests) /\ ToSet(Drop(c2s[c], n)) \subseteq ToSet(c2s[c])
      /\ Once(Drop(c2s[c], n), CallRequest)
  BY <1>2, EntriesPart, OncePart
<1>6. /\ Once(xs, Executions)
      /\ \A m \in CallRequest : Task("handle", c, m) \in ToSet(xs)
                                  => m \notin ToSet(Drop(c2s[c], n))
  <2>1. \A m \in Requests : Task("handle", c, m) \in Executions => m \in CallRequest
    BY TaskTypes, TaskShapes
  <2>. QED
    BY ZenonT(60), <1>2, <2>1, OnceHandleAll
<1>. HIDE DEF xs
<1>7. \A x \in ToSet(xs) :
        /\ x.kind = "handle" /\ x.conn = c /\ x.msg \in ToSet(c2s[c]) /\ x.msg \in Requests
        /\ x = Task("handle", c, x.msg) /\ x \in ServerTask
        /\ x \in Executions => x.msg \in CallRequest /\ x \notin ToSet(ready)
  <2>1. SUFFICES ASSUME NEW x \in ToSet(xs), NEW m \in ToSet(c2s[c]),
                        x = Task("handle", c, m), m \in Requests
                 PROVE  /\ x.kind = "handle" /\ x.conn = c /\ x.msg = m
                        /\ x \in ServerTask
                        /\ x \in Executions => m \in CallRequest /\ x \notin ToSet(ready)
    BY <1>2, <1>4, Entries DEF Inv
  <2>. QED
    BY <2>1, TaskShapes, TaskTypes DEF Inv, RequestInv, Pending
<1>8. /\ ready' \in Seq(ServerTask) /\ ToSet(ready') \subseteq ToSet(ready) \cup ToSet(xs)
      /\ Once(ready', Executions)
  <2>1. /\ Tail(ready) \o xs \in Seq(ServerTask)
        /\ ToSet(Tail(ready) \o xs) = ToSet(Tail(ready)) \cup ToSet(xs)
        /\ ToSet(Tail(ready)) \subseteq ToSet(ready)
    BY <1>2, <1>4, ServerHead, EntriesStep
  <2>2. Once(Tail(ready) \o xs, Executions)
    BY <1>2, <1>4, <1>6, <1>7, <2>1, ServerHead, OnceStep
  <2>. QED
    BY <1>3, <2>1, <2>2 DEF xs
<1>9. TypeOK'
  BY <1>2, <1>3, <1>5, <1>8 DEF Inv, TypeOK, callVars, clientVars, serverVars
<1>10. CallInv' /\ CancelInv' /\ (SomeInterrupted' <=> SomeInterrupted)
  BY <1>2 DEF Inv, CallInv, CancelInv, SomeInterrupted, callVars, clientVars, serverVars
<1>11. \A k \in Calls : Untouched(k)' <=> Untouched(k)
  BY <1>2 DEF Untouched, serverVars
<1>12. ReadyInv'
  <2>1. ASSUME NEW t \in ToSet(ready) PROVE Due(t)'
    BY <1>2, <1>10 DEF Inv, ReadyInv, Due, Untouched, callVars, serverVars
  <2>2. ASSUME NEW t \in ToSet(xs) PROVE Due(t)'
    <3>1. /\ t.kind = "handle" /\ t.conn = c /\ t.msg \in ToSet(c2s[c]) /\ t.msg \in Requests
          /\ t \in Executions => t.msg \in CallRequest
      BY <1>7, <2>2
    <3>2. /\ t.msg \in CallRequest => owner[t.msg.call] = c /\ Untouched(t.msg.call)
          /\ t.msg \in AbortRequest => SomeInterrupted
      BY <3>1 DEF Inv, RequestInv, Pending
    <3>. QED
      BY <1>2, <1>10, <3>1, <3>2 DEF Due, Untouched, callVars, serverVars
  <2>. QED
    BY <1>8, <2>1, <2>2 DEF ReadyInv
<1>13. RequestInv'
  <2>1. SUFFICES ASSUME NEW d \in Clients PROVE Pending(d)'
    BY DEF RequestInv
  <2>2. Pending(d)
    BY DEF Inv, RequestInv
  <2>3. ToSet(c2s'[d]) \subseteq ToSet(c2s[d]) /\ Once(c2s'[d], CallRequest)
    BY <1>2, <1>3, <1>5, <2>2 DEF Pending
  <2>4. ASSUME NEW m \in CallRequest, m \in ToSet(c2s'[d])
        PROVE  Task("handle", d, m) \notin ToSet(ready')
    <3>1. Task("handle", d, m) \notin ToSet(ready)
      BY <2>2, <2>3, <2>4 DEF Pending
    <3>2. CASE d = c
      BY <1>2, <1>3, <1>6, <1>8, <2>4, <3>1, <3>2
    <3>3. CASE d # c
      BY <1>7, <1>8, <3>1, <3>3, TaskShapes
    <3>. QED
      BY <3>2, <3>3
  <2>. QED
    BY <1>2, <1>10, <2>2, <2>3, <2>4 DEF Pending, Untouched, callVars, serverVars
<1>. QED
  BY <1>2, <1>9, <1>10, <1>12, <1>13, ClientUntouched DEF Inv, serverVars

LEMMA OnCallInv ==
  ASSUME Inv, OnCall
  PROVE  Inv'
<1> DEFINE h == Head(ready)
<1>1. /\ ready # <<>> /\ h.kind = "handle" /\ h.msg.command = "CALL"
      /\ UNCHANGED <<callVars, clientVars, c2s, lost, cancelled>>
  BY DEF OnCall, Handling, Serving
<1>2. h.msg \in CallRequest /\ h \in Executions
  BY <1>1, ServerHead, TaskShapes, MessageShapes DEF Requests
<1>3. PICK k \in Calls : k = h.msg.call
  BY <1>2, MessageShapes
<1>4. PICK c \in Clients : c = h.conn
  BY <1>1, ServerHead, TaskShapes
<1>5. /\ owner[k] = c /\ Untouched(k) /\ h = Task("handle", c, CallMsg(k)) /\ k <= issued
      /\ \A t \in ToSet(Tail(ready)) : t # h
      /\ h \in ToSet(ready)
  BY <1>1, <1>2, <1>3, <1>4, ServerHead, ExecutionOf DEF Due
<1>6. /\ Tail(ready) \in Seq(ServerTask) /\ ToSet(Tail(ready)) \subseteq ToSet(ready)
      /\ Once(Tail(ready), Executions)
  BY <1>1, ServerHead
<1> DEFINE x == Task("run", c, CallMsg(k))
<1>7. PICK how \in {"result", "raised"} :
        \/ /\ kind[k] = "plain" /\ outcome' = [outcome EXCEPT ![k] = how] /\ body' = body
           /\ Deliver(c, Answer(seq[k], k, how))
           /\ ready' = Tail(ready) /\ abortable' = abortable
        \/ /\ kind[k] # "plain" /\ outcome' = outcome /\ body' = [body EXCEPT ![k] = "ready"]
           /\ s2c' = s2c /\ abortable' = abortable \cup {k}
           /\ ready' = Append(Tail(ready), x)
  BY <1>3, <1>4 DEF OnCall
<1>8. /\ x \in ServerTask /\ x.kind = "run" /\ x.conn = c /\ x.msg = CallMsg(k)
      /\ x.msg.call = k /\ \A d, m : x # Task("handle", d, m)
  BY TaskTypes, TaskShapes, MessageShapes
<1>9. \A t \in ToSet(Tail(ready)) : t \in Executions => t.msg.call # k
  <2>1. SUFFICES ASSUME NEW t \in ToSet(Tail(ready)), t \in Executions, t.msg.call = k
                 PROVE  FALSE
    OBVIOUS
  <2>2. t \in ServerTask /\ Due(t) /\ t.msg \in CallRequest /\ t = Task(t.kind, c, CallMsg(k))
    BY <1>5, <1>6, <2>1, Entries, ExecutionOf, TaskShapes DEF Inv, ReadyInv
  <2>3. t.kind # "handle"
    BY <1>5, <2>1, <2>2
  <2>. QED
    BY <1>5, <2>1, <2>2, <2>3, TaskShapes DEF Due, Untouched
<1>. HIDE DEF h, x
<1>10. /\ outcome' \in [Calls -> {None, "result", "raised", "aborted"}]
       /\ body' \in [Calls -> {"none", "ready", "asleep", "ended"}]
       /\ \A j \in Calls : j # k => outcome'[j] = outcome[j] /\ body'[j] = body[j]
       /\ \/ outcome'[k] # None /\ body'[k] = "none"
          \/ outcome'[k] = None /\ body'[k] = "ready"
  BY ZenonT(60), <1>5, <1>7, CallsAssumption DEF Inv, TypeOK, Untouched
<1>11. /\ ready' \in Seq(ServerTask) /\ Once(ready', Executions)
       /\ ToSet(ready') \subseteq ToSet(Tail(ready)) \cup IF body'[k] = "ready" THEN {x} ELSE {}
  <2>1. CASE ready' = Tail(ready)
    BY <1>6, <2>1
  <2>2. CASE ready' = Append(Tail(ready), x) /\ body'[k] = "ready"
    <3>1. x \notin ToSet(Tail(ready))
      BY <1>6, <1>8, <1>9, TaskShapes, Entries, MessageShapes DEF Inv
    <3>. QED
      BY <1>6, <1>8, <2>2, <3>1, EntriesAppend, OnceAppend
  <2>. QED
    BY <1>7, <2>1, <2>2 DEF Inv, TypeOK
<1>12. seq[k] \in 1..Modulus - 1 \/ kind[k] = "oneway"
  BY <1>5, CallsAssumption DEF Inv, TypeOK, CallInv
<1>13. /\ s2c' \in [Clients -> Seq(Answers)]
       /\ \A d \in Clients : \/ s2c'[d] = s2c[d]
                             \/ /\ s2c'[d] = Append(s2c[d], Answer(seq[k], k, how)) /\ d = c
                                /\ kind[k] = "plain" /\ outcome'[k] = how
                                /\ Answer(seq[k], k, how) \in Answers
  <2>1. CASE s2c' = s2c
    BY <2>1 DEF Inv, TypeOK
  <2>2. CASE /\ s2c' = [s2c EXCEPT ![c] = Append(@, Answer(seq[k], k, how))]
             /\ kind[k] = "plain" /\ outcome' = [outcome EXCEPT ![k] = how]
    <3>1. Answer(seq[k], k, how) \in Answers
      BY <1>12, <2>2, MessageShapes
    <3>2. s2c \in [Clients -> Seq(Answers)] /\ outcome'[k] = how
      BY <2>2 DEF Inv, TypeOK
    <3>3. Append(s2c[c], Answer(seq[k], k, how)) \in Seq(Answers)
      BY <3>1, <3>2
    <3>. QED
      BY <2>2, <3>1, <3>2, <3>3
  <2>. QED
    BY <1>7, <2>1, <2>2 DEF Deliver
<1>14. TypeOK'
  <2>1. abortable' \subseteq Calls
    BY <1>7 DEF Inv, TypeOK
  <2>2. /\ outcome' \in [Calls -> {None, "result", "raised", "aborted"}]
        /\ body' \in [Calls -> {"none", "ready", "asleep", "ended"}]
        /\ ready' \in Seq(ServerTask) /\ s2c' \in [Clients -> Seq(Answers)]
    BY <1>10, <1>11, <1>13
  <2>3. UNCHANGED <<issued, owner, kind, seq, lastSeq, status, reply, queue, c2s, lost, cancelled>>
    BY <1>1 DEF callVars, clientVars
  <2>4. TypeOK
    BY DEF Inv
  <2>. QED
    BY <2>1, <2>2, <2>3, <2>4 DEF TypeOK
<1>15. CallInv'
  <2>1. status[k] # "resolved"
    BY <1>5, NotResolved DEF Untouched
  <2>2. issued' = issued /\ issued \in Nat /\ k \in Nat
    BY <1>1, CallsAssumption DEF Inv, TypeOK, Calls, callVars
  <2>. QED
    BY <1>1, <1>5, <1>10, <2>1, <2>2 DEF Inv, CallInv, callVars, clientVars
<1>16. CancelInv' /\ (SomeInterrupted' <=> SomeInterrupted)
  BY <1>1 DEF Inv, CancelInv, SomeInterrupted, clientVars
<1>17. ReadyInv'
  <2>1. ASSUME NEW t \in ToSet(Tail(ready)) PROVE Due(t)'
    <3>1. t \in ServerTask /\ Due(t)
      BY <1>6, Entries DEF Inv, ReadyInv
    <3>2. t \in Executions => t.msg.call # k /\ t.msg.call \in Calls
      BY <1>6, <1>9, ExecutionOf
    <3>3. t \in Executions <=> t.kind # "listen" /\ t.msg \in CallRequest
      BY <3>1, TaskShapes
    <3>4. t.kind \in {"run", "finish"} => t.msg \in CallRequest
      BY <3>1, TaskShapes
    <3>. QED
      BY <1>1, <1>10, <1>16, <3>1, <3>2, <3>3, <3>4 DEF Due, Untouched, callVars
  <2>2. body'[k] = "ready" => Due(x)'
    BY <1>1, <1>5, <1>8 DEF Due, callVars
  <2>. QED
    BY <1>11, <2>1, <2>2 DEF ReadyInv
<1>18. RequestInv'
  <2>1. SUFFICES ASSUME NEW d \in Clients PROVE Pending(d)'
    BY DEF RequestInv
  <2>2. Pending(d)
    BY DEF Inv, RequestInv
  <2>3. ASSUME NEW m \in CallRequest, m \in ToSet(c2s[d])
        PROVE  /\ m.call \in Calls /\ m.call # k
               /\ Task("handle", d, m) \notin ToSet(ready')
    <3>1. m = CallMsg(m.call) /\ m.call \in Calls
      BY <2>3, MessageShapes
    <3>2. owner[m.call] = d /\ Task("handle", d, m) \notin ToSet(ready)
      BY <2>2, <2>3 DEF Pending
    <3>3. m.call # k
      BY <1>5, <3>1, <3>2
    <3>. QED
      BY <1>6, <1>8, <1>11, <3>1, <3>2, <3>3
  <2>. QED
    BY <1>1, <1>10, <1>16, <2>2, <2>3 DEF Pending, Untouched, callVars
<1>19. WakeInv' /\ NumberInv'
  BY <1>1, <1>5, <1>10, ClientUntouched DEF Untouched
<1>20. AnswerInv'
  <2>1. \A d \in Clients : \A m \in Answers : Genuine(d, m) => Genuine(d, m)'
    BY <1>1, <1>5, <1>10, ClientUntouched DEF Untouched
  <2>2. ASSUME NEW d \in Clients PROVE Answering(d)'
    <3>1. Answering(d) /\ ToSet(s2c[d]) \subseteq Answers /\ s2c[d] \in Seq(Answers)
      BY Entries DEF Inv, AnswerInv, TypeOK
    <3>2. \A t \in ToSet(queue'[d]) : t.kind = "dispatch" => Genuine(d, t.msg)'
      BY <1>1, <2>1, <3>1, Entries, TaskShapes DEF Answering, Inv, clientVars
    <3>3. ASSUME NEW m \in ToSet(s2c'[d]) PROVE Genuine(d, m)'
      <4>1. CASE m \in ToSet(s2c[d])
        BY <2>1, <3>1, <4>1 DEF Answering
      <4>2. CASE m \notin ToSet(s2c[d])
        <5>1. /\ m = Answer(seq[k], k, how) /\ d = c
              /\ kind[k] = "plain" /\ outcome'[k] = how /\ m \in Answers
          <6>1. s2c'[d] # s2c[d]
            BY <3>3, <4>2
          <6>2. /\ s2c'[d] = Append(s2c[d], Answer(seq[k], k, how)) /\ d = c
                /\ kind[k] = "plain" /\ outcome'[k] = how
                /\ Answer(seq[k], k, how) \in Answers
            BY <1>13, <6>1
          <6>3. ToSet(s2c'[d]) = ToSet(s2c[d]) \cup {Answer(seq[k], k, how)}
            BY <3>1, <6>2, EntriesAppend
          <6>. QED
            BY <3>3, <4>2, <6>2, <6>3
        <5>. QED
          BY <1>1, <1>5, <5>1 DEF Genuine, Answer, callVars
      <4>. QED
        BY <4>1, <4>2
    <3>. QED
      BY <3>2, <3>3 DEF Answering
  <2>. QED
    BY <2>2 DEF AnswerInv
<1>. QED
  BY <1>14, <1>15, <1>16, <1>17, <1>18, <1>19, <1>20 DEF Inv

\* A step of the execution of call k: it runs a task of k, changes nothing of
\* the other calls, and leaves on the ready queue what was there of others and
\* tasks of k that are due.
LEMMA StepOfExecution ==
  ASSUME Inv, NEW k \in Calls, NEW h \in ToSet(ready), h \in Executions, h.msg.call = k,
         UNCHANGED <<callVars, clientVars, c2s>>,
         \A j \in Calls : j # k => body'[j] = body[j] /\ outcome'[j] = outcome[j],
         \A t \in ToSet(ready') :
           \/ t \in ToSet(ready) /\ (t \in Executions => t.msg.call # k)
           \/ t.kind \in {"run", "finish"} /\ Due(t)'
  PROVE  /\ RequestInv'
         /\ Once(ready', Executions) => ReadyInv'
<1>1. SomeInterrupted' <=> SomeInterrupted
  BY DEF SomeInterrupted, clientVars
<1>2. /\ Due(h) /\ owner[k] \in Clients /\ h = Task(h.kind, owner[k], CallMsg(k))
      /\ h.kind \in {"handle", "run", "finish"} /\ h.msg \in CallRequest
  BY ExecutionOf, Entries, TaskShapes DEF Inv, ReadyInv
<1>3. RequestInv'
  <2>1. SUFFICES ASSUME NEW d \in Clients PROVE Pending(d)'
    BY DEF RequestInv
  <2>2. Pending(d)
    BY DEF Inv, RequestInv
  <2>3. ASSUME NEW m \in CallRequest, m \in ToSet(c2s[d])
        PROVE  /\ m.call \in Calls /\ m.call # k
               /\ Task("handle", d, m) \notin ToSet(ready')
    <3>1. m = CallMsg(m.call) /\ m.call \in Calls
      BY <2>3, MessageShapes
    <3>2. /\ owner[m.call] = d /\ Task("handle", d, m) \notin ToSet(ready)
          /\ Untouched(m.call)
      BY <2>2, <2>3 DEF Pending
    <3>3. m.call # k
      BY <1>2, <3>1, <3>2 DEF Due, Untouched
    <3>4. Task("handle", d, m).kind = "handle"
      BY TaskShapes
    <3>. QED
      BY <3>1, <3>2, <3>3, <3>4
  <2>. QED
    BY <1>1, <2>2, <2>3 DEF Pending, Untouched, callVars
<1>4. ASSUME NEW t \in ToSet(ready') PROVE Due(t)'
  <2>1. CASE t \in ToSet(ready) /\ (t \in Executions => t.msg.call # k)
    <3>1. t \in ServerTask /\ Due(t)
      BY <2>1, Entries DEF Inv, ReadyInv
    <3>2. t \in Executions => t.msg.call # k /\ t.msg.call \in Calls
      BY <2>1, ExecutionOf
    <3>3. /\ t \in Executions <=> t.kind # "listen" /\ t.msg \in CallRequest
          /\ t.kind \in {"run", "finish"} => t.msg \in CallRequest
      BY <3>1, TaskShapes
    <3>. QED
      BY <1>1, <3>1, <3>2, <3>3 DEF Due, Untouched, callVars
  <2>. QED
    BY <2>1
<1>. QED
  BY <1>3, <1>4 DEF ReadyInv

\* The other tasks on the ready queue belong to other calls.
LEMMA OthersOnly ==
  ASSUME Inv, ready # <<>>, Head(ready) \in Executions,
         NEW t \in ToSet(Tail(ready)), t \in Executions
  PROVE  t.msg.call # Head(ready).msg.call
<1> DEFINE h == Head(ready)
<1>1. /\ h \in ToSet(ready) /\ Due(h) /\ h # t /\ t \in ToSet(ready) /\ Due(t)
      /\ h \in ServerTask /\ t \in ServerTask
  BY ServerHead, Entries DEF Inv, ReadyInv
<1>2. SUFFICES ASSUME t.msg.call = h.msg.call PROVE FALSE
  OBVIOUS
<1> DEFINE k == h.msg.call
<1>3. /\ h = Task(h.kind, owner[k], CallMsg(k)) /\ t = Task(t.kind, owner[k], CallMsg(k))
      /\ h.kind \in {"handle", "run", "finish"} /\ t.kind \in {"handle", "run", "finish"}
      /\ h.msg \in CallRequest /\ t.msg \in CallRequest /\ k \in Calls
  BY <1>1, <1>2, ExecutionOf, TaskShapes
<1>4. body[k] = "ready" => outcome[k] = None
  BY <1>3 DEF Inv, CallInv
<1>5. h.kind = t.kind
  BY <1>1, <1>2, <1>3, <1>4 DEF Due, Untouched
<1>. QED
  BY <1>1, <1>3, <1>5

LEMMA RunBodyInv ==
  ASSUME Inv, RunBody
  PROVE  Inv'
<1> DEFINE h == Head(ready)
<1>1. /\ ready # <<>> /\ h.kind = "run"
      /\ UNCHANGED <<callVars, clientVars, netVars, abortable>>
  BY DEF RunBody, Serving
<1>2. /\ h \in ToSet(ready) /\ h \in ServerTask /\ h \in Executions /\ Due(h)
      /\ Tail(ready) \in Seq(ServerTask) /\ ToSet(Tail(ready)) \subseteq ToSet(ready)
      /\ Once(Tail(ready), Executions)
  BY <1>1, ServerHead, TaskShapes
<1>3. PICK k \in Calls : k = h.msg.call
  BY <1>2, ExecutionOf
<1>4. PICK c \in Clients : c = h.conn
  BY <1>2, TaskShapes
<1>5. /\ owner[k] = c /\ body[k] = "ready" /\ outcome[k] = None /\ k <= issued
      /\ status[k] # "resolved"
  BY <1>1, <1>2, <1>3, <1>4, ExecutionOf, NotResolved DEF Due, Inv, CallInv
<1>6. \A t \in ToSet(Tail(ready)) : t \in Executions => t.msg.call # k
  BY <1>1, <1>2, <1>3, OthersOnly
<1> DEFINE x == Task("finish", c, CallMsg(k))
<1>7. /\ x \in ServerTask /\ x.kind = "finish" /\ x.conn = c /\ x.msg.call = k
      /\ x \notin ToSet(Tail(ready))
  <2>1. /\ x \in ServerTask /\ x.kind = "finish" /\ x.conn = c /\ x.msg.call = k
        /\ x.msg \in CallRequest
    BY TaskTypes, TaskShapes, MessageShapes
  <2>2. x \in Executions
    BY <2>1, TaskShapes
  <2>. QED
    BY <1>6, <2>1, <2>2
<1>8. \/ /\ body' = [body EXCEPT ![k] = "asleep"] /\ ready' = Tail(ready)
         /\ UNCHANGED <<outcome, cancelled>>
      \/ /\ \E how \in {"result", "raised", "aborted"} : outcome' = [outcome EXCEPT ![k] = how]
         /\ body' = [body EXCEPT ![k] = "ended"]
         /\ cancelled' = cancelled \ {k}
         /\ ready' = Append(Tail(ready), x)
  BY <1>3, <1>4 DEF RunBody
<1>. HIDE DEF h, x
<1>9. /\ outcome' \in [Calls -> {None, "result", "raised", "aborted"}]
      /\ body' \in [Calls -> {"none", "ready", "asleep", "ended"}]
      /\ \A j \in Calls : j # k => outcome'[j] = outcome[j] /\ body'[j] = body[j]
      /\ \/ outcome'[k] # None /\ body'[k] = "ended" /\ ready' = Append(Tail(ready), x)
         \/ outcome'[k] = None /\ body'[k] = "asleep" /\ ready' = Tail(ready)
      /\ cancelled' \subseteq cancelled
  <2>1. /\ outcome \in [Calls -> {None, "result", "raised", "aborted"}]
        /\ body \in [Calls -> {"none", "ready", "asleep", "ended"}]
    BY DEF Inv, TypeOK
  <2>2. CASE /\ body' = [body EXCEPT ![k] = "asleep"] /\ ready' = Tail(ready)
             /\ UNCHANGED <<outcome, cancelled>>
    BY <1>5, <2>1, <2>2
  <2>3. CASE /\ \E how \in {"result", "raised", "aborted"} : outcome' = [outcome EXCEPT ![k] = how]
             /\ body' = [body EXCEPT ![k] = "ended"]
             /\ cancelled' = cancelled \ {k}
             /\ ready' = Append(Tail(ready), x)
    <3>1. PICK how \in {"result", "raised", "aborted"} : outcome' = [outcome EXCEPT ![k] = how]
      BY <2>3
    <3>2. how # None
      BY CallsAssumption
    <3>. QED
      BY <2>1, <2>3, <3>1, <3>2
  <2>. QED
    BY <1>8, <2>2, <2>3
<1>10. /\ ready' \in Seq(ServerTask) /\ Once(ready', Executions)
       /\ \A t \in ToSet(ready') : \/ t \in ToSet(Tail(ready))
                                   \/ t = x /\ outcome'[k] # None
  <2>1. CASE ready' = Tail(ready)
    BY <1>2, <2>1
  <2>2. CASE ready' = Append(Tail(ready), x) /\ outcome'[k] # None
    <3>1. /\ Append(Tail(ready), x) \in Seq(ServerTask)
          /\ ToSet(Append(Tail(ready), x)) = ToSet(Tail(ready)) \cup {x}
          /\ Once(Append(Tail(ready), x), Executions)
      BY <1>2, <1>7, EntriesAppend, OnceAppend
    <3>. QED
      BY <2>2, <3>1
  <2>. QED
    BY <1>9, <2>1, <2>2
<1>11. TypeOK'
  BY <1>1, <1>9, <1>10 DEF Inv, TypeOK, callVars, clientVars, netVars
<1>12. CallInv'
  BY <1>1, <1>5, <1>9 DEF Inv, CallInv, callVars, clientVars
<1>13. CancelInv'
  BY <1>1, <1>9 DEF Inv, CancelInv, SomeInterrupted, clientVars
<1>14. RequestInv' /\ ReadyInv'
  <2>1. outcome'[k] # None => Due(x)'
    BY <1>1, <1>5, <1>7 DEF Due, callVars
  <2>2. \A t \in ToSet(ready') :
          \/ t \in ToSet(ready) /\ (t \in Executions => t.msg.call # k)
          \/ t.kind \in {"run", "finish"} /\ Due(t)'
    BY <1>2, <1>6, <1>7, <1>10, <2>1
  <2>. QED
    BY SMTT(30), <1>1, <1>2, <1>3, <1>9, <1>10, <2>2, StepOfExecution DEF netVars
<1>. QED
  BY <1>1, <1>5, <1>9, <1>11, <1>12, <1>13, <1>14, ClientUntouched DEF Inv, netVars

LEMMA BodyWakeInv ==
  ASSUME Inv, NEW k \in Calls, BodyWake(k)
  PROVE  Inv'
<1>1. /\ body[k] = "asleep" /\ body' = [body EXCEPT ![k] = "ready"] /\ outcome[k] = None
      /\ owner[k] \in Clients
      /\ UNCHANGED <<callVars, clientVars, netVars, outcome, cancelled, abortable>>
  BY CallsAssumption DEF BodyWake, Inv, CallInv, TypeOK, Calls
<1>2. PICK c \in Clients : owner[k] = c
  BY <1>1
<1> DEFINE x == Task("run", c, CallMsg(k))
<1>3. ready' = Append(ready, x) /\ ready \in Seq(ServerTask) /\ Once(ready, Executions)
  BY <1>2 DEF BodyWake, Inv, TypeOK, ReadyInv
<1>4. x \in ServerTask /\ x.kind = "run" /\ x.conn = c /\ x.msg = CallMsg(k) /\ x.msg.call = k
  BY TaskTypes, TaskShapes, MessageShapes
<1>5. x \notin ToSet(ready)
  BY <1>1, <1>4 DEF Inv, ReadyInv, Due
<1>. HIDE DEF x
<1>6. /\ ready' \in Seq(ServerTask) /\ ToSet(ready') = ToSet(ready) \cup {x}
      /\ Once(ready', Executions)
  BY <1>3, <1>4, <1>5, EntriesAppend, OnceAppend
<1>7. /\ body' \in [Calls -> {"none", "ready", "asleep", "ended"}] /\ body'[k] = "ready"
      /\ \A j \in Calls : j # k => body'[j] = body[j]
      /\ \A j \in Calls : Untouched(j)' <=> Untouched(j)
  BY <1>1 DEF Inv, TypeOK, Untouched
<1>8. TypeOK'
  BY <1>1, <1>6, <1>7 DEF Inv, TypeOK, callVars, clientVars, netVars
<1>9. CallInv'
  BY <1>1, <1>7 DEF Inv, CallInv, callVars, clientVars
<1>10. CancelInv' /\ (SomeInterrupted' <=> SomeInterrupted)
  BY <1>1 DEF Inv, CancelInv, SomeInterrupted, clientVars
<1>11. ReadyInv'
  <2>1. ASSUME NEW t \in ToSet(ready) PROVE Due(t)'
    <3>1. t \in ServerTask /\ Due(t)
      BY Entries DEF Inv, ReadyInv
    <3>2. t.kind = "handle" /\ t.msg \in CallRequest => t.msg.call \in Calls
      BY MessageShapes
    <3>3. t.kind = "run" => t.msg.call \in Calls
      BY <3>1, TaskShapes, MessageShapes
    <3>. QED
      BY <1>1, <1>7, <1>10, <3>1, <3>2, <3>3 DEF Due, callVars
  <2>2. Due(x)'
    BY <1>1, <1>2, <1>4, <1>7 DEF Due, callVars
  <2>. QED
    BY <1>6, <2>1, <2>2 DEF ReadyInv
<1>12. RequestInv'
  <2>1. \A d, m : Task("handle", d, m) # x
    BY <1>4, TaskShapes
  <2>. QED
    BY <1>1, <1>6, <1>7, <1>10, <2>1, MessageShapes
    DEF Inv, RequestInv, Pending, callVars, netVars
<1>. QED
  BY <1>1, <1>8, <1>9, <1>10, <1>11, <1>12, ClientUntouched DEF Inv, netVars

LEMMA FinishInv ==
  ASSUME Inv, Finish
  PROVE  Inv'
<1> DEFINE h == Head(ready)
<1>1. /\ ready # <<>> /\ h.kind = "finish" /\ ready' = Tail(ready)
      /\ UNCHANGED <<callVars, clientVars, c2s, lost, body, outcome, cancelled>>
  BY DEF Finish, Serving
<1>2. /\ h \in ToSet(ready) /\ h \in ServerTask /\ h \in Executions /\ Due(h)
      /\ Tail(ready) \in Seq(ServerTask) /\ ToSet(Tail(ready)) \subseteq ToSet(ready)
      /\ Once(Tail(ready), Executions)
  BY <1>1, ServerHead, TaskShapes
<1>3. PICK k \in Calls : k = h.msg.call
  BY <1>2, ExecutionOf
<1>4. PICK c \in Clients : c = h.conn
  BY <1>2, TaskShapes
<1>5. owner[k] = c /\ outcome[k] # None /\ k <= issued
  BY <1>1, <1>2, <1>3, <1>4, ExecutionOf DEF Due
<1>6. \A t \in ToSet(Tail(ready)) : t \in Executions => t.msg.call # k
  BY <1>1, <1>2, <1>3, OthersOnly
<1>7. /\ abortable' \subseteq Calls
      /\ IF kind[k] = "oneway" THEN s2c' = s2c ELSE Deliver(c, Answer(seq[k], k, outcome[k]))
  BY <1>3, <1>4 DEF Finish, Inv, TypeOK
<1>. HIDE DEF h
<1> DEFINE a == Answer(seq[k], k, outcome[k])
<1>8. kind[k] # "oneway" => a \in Answers
  <2>1. SUFFICES ASSUME kind[k] # "oneway" PROVE a \in Answers
    OBVIOUS
  <2>2. seq[k] \in 1..Modulus - 1
    BY <1>5, <2>1, CallsAssumption DEF Inv, TypeOK, CallInv
  <2>3. outcome[k] \in {"result", "raised", "aborted"}
    BY <1>5 DEF Inv, TypeOK
  <2>. QED
    BY <2>2, <2>3, MessageShapes
<1>9. /\ s2c' \in [Clients -> Seq(Answers)]
      /\ \A d \in Clients : \/ s2c'[d] = s2c[d]
                            \/ /\ s2c'[d] = Append(s2c[d], a) /\ d = c
                               /\ kind[k] # "oneway"
  <2>1. s2c \in [Clients -> Seq(Answers)]
    BY DEF Inv, TypeOK
  <2>2. CASE s2c' = s2c
    BY <2>1, <2>2
  <2>3. CASE s2c' = [s2c EXCEPT ![c] = Append(@, a)] /\ kind[k] # "oneway"
    <3>1. Append(s2c[c], a) \in Seq(Answers)
      BY <1>8, <2>1, <2>3
    <3>. QED
      BY <2>1, <2>3, <3>1
  <2>. QED
    BY <1>7, <2>2, <2>3 DEF Deliver
<1>10. TypeOK'
  BY <1>1, <1>2, <1>7, <1>9 DEF Inv, TypeOK, callVars, clientVars
<1>11. CallInv' /\ CancelInv'
  BY <1>1 DEF Inv, CallInv, CancelInv, SomeInterrupted, callVars, clientVars
<1>12. RequestInv' /\ ReadyInv'
  BY <1>1, <1>2, <1>3, <1>6, StepOfExecution
<1>13. AnswerInv'
  <2>1. \A d \in Clients : \A m \in Answers : Genuine(d, m) => Genuine(d, m)'
    BY <1>1, ClientUntouched
  <2>2. ASSUME NEW d \in Clients PROVE Answering(d)'
    <3>1. Answering(d) /\ ToSet(s2c[d]) \subseteq Answers /\ s2c[d] \in Seq(Answers)
      BY Entries DEF Inv, AnswerInv, TypeOK
    <3>2. \A t \in ToSet(queue'[d]) : t.kind = "dispatch" => Genuine(d, t.msg)'
      BY <1>1, <2>1, <3>1, Entries, TaskShapes DEF Answering, Inv, clientVars
    <3>3. ASSUME NEW m \in ToSet(s2c'[d]) PROVE Genuine(d, m)'
      <4>1. CASE m \in ToSet(s2c[d])
        BY <2>1, <3>1, <4>1 DEF Answering
      <4>2. CASE m \notin ToSet(s2c[d])
        <5>1. s2c'[d] # s2c[d]
          BY <3>3, <4>2
        <5>2. s2c'[d] = Append(s2c[d], a) /\ d = c /\ kind[k] # "oneway" /\ a \in Answers
          BY <1>8, <1>9, <5>1
        <5>3. ToSet(s2c'[d]) = ToSet(s2c[d]) \cup {a}
          BY <3>1, <5>2, EntriesAppend
        <5>4. m = a /\ d = c /\ kind[k] # "oneway"
          BY <3>3, <4>2, <5>2, <5>3
        <5>. QED
          BY <1>1, <1>5, <5>4 DEF Genuine, Answer, callVars
      <4>. QED
        BY <4>1, <4>2
    <3>. QED
      BY <3>2, <3>3 DEF Answering
  <2>. QED
    BY <2>2 DEF AnswerInv
<1>. QED
  BY <1>1, <1>10, <1>11, <1>12, <1>13, ClientUntouched DEF Inv

LEMMA OnAbortInv ==
  ASSUME Inv, OnAbort
  PROVE  Inv'
<1> DEFINE h == Head(ready)
<1>1. /\ ready # <<>> /\ h.kind = "handle" /\ h.msg.command = "ABORT"
      /\ UNCHANGED <<callVars, clientVars, netVars, outcome>>
      /\ abortable' = {} /\ cancelled' \subseteq Calls
  BY DEF OnAbort, Handling, Serving, Inv, TypeOK
<1>2. /\ h \in ServerTask /\ Due(h) /\ ready \in Seq(ServerTask)
      /\ Tail(ready) \in Seq(ServerTask) /\ ToSet(Tail(ready)) \subseteq ToSet(ready)
      /\ Once(ready, Executions)
  BY <1>1, ServerHead
<1>3. h.msg \in AbortRequest /\ SomeInterrupted
  BY <1>1, <1>2, TaskShapes, MessageShapes DEF Requests, Due
<1>. HIDE DEF h
<1>4. PICK asleep \in SUBSET Calls : asleep = {k \in abortable : body[k] = "asleep"}
  BY DEF Inv, TypeOK
<1>5. /\ body' = [k \in Calls |-> IF k \in asleep THEN "ready" ELSE body[k]]
      /\ \A k \in asleep : body[k] = "asleep" /\ outcome[k] = None /\ owner[k] \in Clients
  <2>1. \A k \in asleep : body[k] = "asleep"
    BY <1>4
  <2>2. \A k \in Calls : k \in Nat
    BY CallsAssumption DEF Calls
  <2>3. body' = [k \in Calls |-> IF k \in asleep THEN "ready" ELSE body[k]]
    BY <1>4 DEF OnAbort
  <2>4. ASSUME NEW k \in asleep PROVE outcome[k] = None /\ owner[k] \in Clients
    <3>1. k \in Calls /\ k \in Nat /\ issued \in Nat /\ body[k] = "asleep"
      BY <2>1, <2>2, CallsAssumption DEF Inv, TypeOK
    <3>2. k <= issued
      BY <3>1 DEF Inv, CallInv
    <3>. QED
      BY <3>1, <3>2 DEF Inv, CallInv
  <2>. QED
    BY <2>1, <2>3, <2>4
<1> DEFINE F == [k \in asleep |-> Task("run", owner[k], CallMsg(k))]
<1>6. PICK order \in SetToSeqs(asleep) :
        ready' = Tail(ready) \o [i \in DOMAIN order |-> F[order[i]]]
  <2>1. PICK order \in SetToSeqs(asleep) :
          ready' = Tail(ready) \o
            [i \in DOMAIN order |-> Task("run", owner[order[i]], CallMsg(order[i]))]
    BY <1>4 DEF OnAbort
  <2>2. \A i \in DOMAIN order : order[i] \in asleep
    BY <2>1 DEF SetToSeqs
  <2>. QED
    BY <2>1, <2>2
<1> DEFINE xs == [i \in DOMAIN order |-> F[order[i]]]
<1>7. /\ xs \in Seq(ServerTask)
      /\ \A x \in ToSet(xs) : \E k \in asleep : x = Task("run", owner[k], CallMsg(k))
      /\ Once(xs, Executions)
  <2>1. F \in [asleep -> ServerTask]
    BY <1>5, TaskTypes, MessageShapes
  <2>2. \A a, b \in asleep : F[a] = F[b] => a = b
    BY TaskShapes, MessageShapes
  <2>3. \A k \in asleep : F[k] = Task("run", owner[k], CallMsg(k))
    OBVIOUS
  <2>. HIDE DEF F
  <2>4. /\ xs \in Seq(ServerTask) /\ \A x \in ToSet(xs) : \E k \in asleep : x = F[k]
        /\ \A S : Once(xs, S)
    <3>1. /\ IsFiniteSet(Calls) /\ asleep \in SUBSET Calls
          /\ order \in SetToSeqs(asleep)
      BY FS_Interval, CallsAssumption DEF Calls
    <3>. QED
      BY ONLY <2>1, <2>2, <3>1, OnceOrder
  <2>. QED
    BY <2>3, <2>4
<1>. HIDE DEF xs
<1>8. \A x \in ToSet(xs) :
        /\ x.kind = "run" /\ x.msg.call \in asleep /\ x.conn = owner[x.msg.call]
        /\ x \notin ToSet(ready) /\ \A d, m : x # Task("handle", d, m)
  BY <1>5, <1>7, TaskShapes, MessageShapes DEF Inv, ReadyInv, Due
<1>9. /\ ready' \in Seq(ServerTask) /\ ToSet(ready') \subseteq ToSet(ready) \cup ToSet(xs)
      /\ Once(ready', Executions)
  <2>1. /\ Tail(ready) \o xs \in Seq(ServerTask)
        /\ ToSet(Tail(ready) \o xs) = ToSet(Tail(ready)) \cup ToSet(xs)
    BY <1>1, <1>2, <1>7, EntriesStep
  <2>2. Once(Tail(ready) \o xs, Executions)
    BY <1>1, <1>2, <1>7, <1>8, OnceStep
  <2>. QED
    BY <1>2, <1>6, <2>1, <2>2 DEF xs
<1>10. /\ body' \in [Calls -> {"none", "ready", "asleep", "ended"}]
       /\ \A k \in Calls : k \in asleep => body'[k] = "ready"
       /\ \A k \in Calls : k \notin asleep => body'[k] = body[k]
       /\ \A k \in Calls : Untouched(k)' <=> Untouched(k)
  BY <1>1, <1>5 DEF Inv, TypeOK, Untouched
<1>11. TypeOK'
  BY <1>1, <1>9, <1>10 DEF Inv, TypeOK, callVars, clientVars, netVars
<1>12. CallInv'
  BY <1>1, <1>5, <1>10 DEF Inv, CallInv, callVars, clientVars
<1>13. SomeInterrupted' /\ CancelInv'
  BY <1>1, <1>3 DEF SomeInterrupted, CancelInv, clientVars
<1>14. ReadyInv'
  <2>1. ASSUME NEW t \in ToSet(ready) PROVE Due(t)'
    <3>1. t \in ServerTask /\ Due(t)
      BY Entries DEF Inv, ReadyInv
    <3>2. t.kind = "handle" /\ t.msg \in CallRequest => t.msg.call \in Calls
      BY MessageShapes
    <3>3. t.kind = "run" => t.msg.call \in Calls
      BY <3>1, TaskShapes, MessageShapes
    <3>. QED
      BY <1>1, <1>10, <1>13, <3>1, <3>2, <3>3 DEF Due, callVars
  <2>2. ASSUME NEW x \in ToSet(xs) PROVE Due(x)'
    BY <1>1, <1>8, <1>10 DEF Due, callVars
  <2>. QED
    BY <1>9, <2>1, <2>2 DEF ReadyInv
<1>15. RequestInv'
  BY <1>1, <1>8, <1>9, <1>10, <1>13, MessageShapes
  DEF Inv, RequestInv, Pending, callVars, netVars
<1>. QED
  BY <1>1, <1>11, <1>12, <1>13, <1>14, <1>15, ClientUntouched DEF Inv, netVars

(***************************************************************************)
(* The invariant holds.                                                    *)
(***************************************************************************)
LEMMA StutterInv ==
  ASSUME Inv, UNCHANGED vars
  PROVE  Inv'
<1>. USE DEF vars, callVars, clientVars, netVars, serverVars
<1>1. TypeOK' /\ CallInv'
  BY DEF Inv, TypeOK, CallInv
<1>2. SomeInterrupted' <=> SomeInterrupted
  BY DEF SomeInterrupted
<1>3. ReadyInv' /\ CancelInv' /\ NumberInv' /\ RequestInv'
  BY <1>2, ServerUntouched
<1>4. AnswerInv' /\ WakeInv'
  BY ClientUntouched
<1>. QED
  BY <1>1, <1>3, <1>4 DEF Inv

LEMMA NextInv == Inv /\ [Next]_vars => Inv'
<1>. SUFFICES ASSUME Inv, [Next]_vars PROVE Inv'
  OBVIOUS
<1>1. CASE UNCHANGED vars
  BY <1>1, StutterInv
<1>2. CASE ServerStep
  BY <1>2, ServerListenInv, OnCallInv, RunBodyInv, FinishInv, OnAbortInv DEF ServerStep
<1>3. ASSUME NEW k \in Calls, Interrupt(k) \/ BodyWake(k) PROVE Inv'
  BY <1>3, InterruptInv, BodyWakeInv
<1>4. ASSUME NEW c \in Clients,
             ClientStep(c) \/ ClientArrive(c) \/ ServerArrive(c) \/ Lose(c)
      PROVE  Inv'
  BY <1>4, ClientListenInv, DispatchReplyInv, WakeCallerInv, ClientArriveInv,
     ServerArriveInv, LoseInv DEF ClientStep
<1>5. ASSUME NEW c \in Clients, NEW kd \in Kinds, Issue(c, kd) PROVE Inv'
  BY <1>5, IssueInv
<1>. QED
  BY <1>1, <1>2, <1>3, <1>4, <1>5 DEF Next

\* The invariant holds of every reachable state.
LEMMA Invariance == Spec => []Inv
BY InitInv, NextInv, PTL DEF Spec

\* Every variable keeps its type: in particular every message and every task
\* names a call that was made, and every answer bears a number that a client
\* can have given out (get_next_sequence_number never gives 0).
THEOREM TypeCorrect == Spec => []TypeOK
<1>1. Inv => TypeOK
  BY DEF Inv
<1>. QED
  BY <1>1, Invariance, PTL

(***************************************************************************)
(* The promise.                                                            *)
(***************************************************************************)
\* A step that changes no call's caller, execution or answer.
LEMMA PromiseStutter ==
  ASSUME \A k \in Calls : /\ CallerOf(k)' = CallerOf(k) /\ CalleeOf(k)' = CalleeOf(k)
                          /\ AnswerOf(k)' = AnswerOf(k)
  PROVE  UNCHANGED Promise!vars
BY DEF Promise!vars

\* Steps that the abstract call does not see.
LEMMA HiddenSteps ==
  ASSUME Inv,
         \/ UNCHANGED vars \/ ServerListen \/ Finish \/ OnAbort
         \/ \E k \in Calls : Interrupt(k) \/ BodyWake(k)
         \/ \E c \in Clients : \/ ClientListen(c) \/ DispatchReply(c) \/ ClientArrive(c)
                               \/ ServerArrive(c) \/ Lose(c)
  PROVE  UNCHANGED Promise!vars
<1>. USE DEF CallerOf, CalleeOf, AnswerOf, callVars, clientVars, netVars, serverVars
<1>1. CASE UNCHANGED <<status, reply, body, outcome>>
  BY <1>1, PromiseStutter
<1>2. CASE OnAbort
  <2>1. \A k \in Calls : /\ body'[k] = "none" <=> body[k] = "none"
                         /\ outcome'[k] = outcome[k] /\ status'[k] = status[k]
                         /\ reply'[k] = reply[k]
    BY <1>2 DEF OnAbort
  <2>. QED
    BY <2>1, PromiseStutter
<1>3. ASSUME NEW k \in Calls, BodyWake(k) PROVE UNCHANGED Promise!vars
  <2>1. \A j \in Calls : /\ body'[j] = "none" <=> body[j] = "none"
                         /\ outcome'[j] = outcome[j] /\ status'[j] = status[j]
                         /\ reply'[j] = reply[j]
    BY <1>3 DEF BodyWake, Inv, TypeOK
  <2>. QED
    BY <2>1, PromiseStutter
<1>4. ASSUME NEW k \in Calls, Interrupt(k) PROVE UNCHANGED Promise!vars
  <2>1. /\ status' = [status EXCEPT ![k] = "stopping"] /\ status[k] \in {"waiting", "resolved"}
        /\ UNCHANGED <<reply, body, outcome>>
    BY <1>4 DEF Interrupt
  <2>2. \A j \in Calls : /\ j # k => status'[j] = status[j]
                         /\ status'[k] = "stopping"
    BY <2>1 DEF Inv, TypeOK
  <2>. QED
    BY <2>1, <2>2, PromiseStutter
<1>5. ASSUME NEW c \in Clients, DispatchReply(c) PROVE UNCHANGED Promise!vars
  <2>1. UNCHANGED <<body, outcome>>
    BY <1>5 DEF DispatchReply
  <2>2. \A j \in Calls : \/ status'[j] = status[j] /\ reply'[j] = reply[j]
                         \/ status[j] = "waiting" /\ status'[j] = "resolved"
    BY <1>5 DEF DispatchReply, Listeners
  <2>. QED
    BY <2>1, <2>2, PromiseStutter
<1>. QED
  BY <1>1, <1>2, <1>3, <1>4, <1>5
  DEF vars, ServerListen, Finish, ClientListen, ClientArrive, ServerArrive, Lose

LEMMA PromiseIssue ==
  ASSUME Inv, NEW c \in Clients, NEW kd \in Kinds, Issue(c, kd)
  PROVE  Promise!Next
<1>1. PICK k \in Calls : k = issued + 1
  BY CallsAssumption DEF Issue, Inv, TypeOK, Calls
<1>2. k > issued /\ issued \in Nat
  BY <1>1, CallsAssumption DEF Inv, TypeOK
<1>3. status[k] = "new" /\ body[k] = "none" /\ outcome[k] = None
  BY <1>2 DEF Inv, CallInv
<1>4. PICK s \in {"sent", "waiting"} : status' = [status EXCEPT ![k] = s]
  BY <1>1 DEF Issue
<1>5. UNCHANGED <<reply, body, outcome>>
  BY DEF Issue, serverVars
<1>6. status'[k] = s /\ \A j \in Calls : j # k => status'[j] = status[j]
  BY <1>4 DEF Inv, TypeOK
<1>7. /\ CallerOf(k)' = s /\ AnswerOf(k)' = None /\ AnswerOf(k) = None /\ CallerOf(k) = "new"
      /\ \A j \in Calls : /\ CalleeOf(j)' = CalleeOf(j)
                          /\ j # k => CallerOf(j)' = CallerOf(j) /\ AnswerOf(j)' = AnswerOf(j)
  BY <1>3, <1>5, <1>6 DEF CallerOf, CalleeOf, AnswerOf
<1>8. Promise!Issue(k)
  <2>1. /\ [j \in Calls |-> CallerOf(j)]' = [[j \in Calls |-> CallerOf(j)] EXCEPT ![k] = s]
        /\ [j \in Calls |-> AnswerOf(j)]' = [j \in Calls |-> AnswerOf(j)]
        /\ [j \in Calls |-> CalleeOf(j)]' = [j \in Calls |-> CalleeOf(j)]
    BY <1>7
  <2>2. [j \in Calls |-> CallerOf(j)][k] = "new"
    BY <1>7
  <2>. QED
    BY <2>1, <2>2 DEF Promise!Issue
<1>. QED
  BY <1>8 DEF Promise!Next

LEMMA PromiseWake ==
  ASSUME Inv, NEW c \in Clients, WakeCaller(c)
  PROVE  Promise!Next
<1>1. /\ queue[c] # <<>> /\ Head(queue[c]).kind = "wake"
      /\ UNCHANGED <<reply, body, outcome>>
  BY DEF WakeCaller, Running, serverVars
<1>2. /\ Head(queue[c]) \in ToSet(queue[c]) /\ Head(queue[c]) \in ClientTask
  BY <1>1, EntriesStep, EmptySeq DEF Inv, TypeOK
<1>3. PICK k \in Calls : k = Head(queue[c]).msg.call
  BY <1>1, <1>2, TaskShapes, MessageShapes
<1>4. status[k] \in {"resolved", "stopping"}
  BY <1>1, <1>2, <1>3 DEF Inv, WakeInv, Waking
<1>5. /\ status' = [status EXCEPT ![k] =
                      IF @ = "stopping" THEN "interrupted"
                      ELSE IF reply[k].how = "result" THEN "returned" ELSE "failed"]
      /\ status \in [Calls -> Statuses]
  BY <1>3 DEF WakeCaller, Inv, TypeOK
<1>6. \A j \in Calls : j # k => status'[j] = status[j]
  BY <1>5
<1>7. /\ \A j \in Calls : /\ CalleeOf(j)' = CalleeOf(j)
                          /\ j # k => CallerOf(j)' = CallerOf(j) /\ AnswerOf(j)' = AnswerOf(j)
      /\ CallerOf(k) = "waiting" /\ AnswerOf(k) = None
  BY <1>1, <1>4, <1>6 DEF CallerOf, CalleeOf, AnswerOf
<1>8. CASE status[k] = "stopping"
  <2>1. CallerOf(k)' = "interrupted" /\ AnswerOf(k)' = None
    BY <1>5, <1>8 DEF CallerOf, AnswerOf
  <2>2. /\ [j \in Calls |-> CallerOf(j)]' =
             [[j \in Calls |-> CallerOf(j)] EXCEPT ![k] = "interrupted"]
        /\ [j \in Calls |-> AnswerOf(j)]' = [j \in Calls |-> AnswerOf(j)]
        /\ [j \in Calls |-> CalleeOf(j)]' = [j \in Calls |-> CalleeOf(j)]
    BY <1>7, <2>1
  <2>3. Promise!Interrupt(k)
    BY <1>7, <2>2 DEF Promise!Interrupt
  <2>. QED
    BY <2>3 DEF Promise!Next
<1>9. CASE status[k] = "resolved"
  <2>1. reply[k].call = k /\ reply[k].how = outcome[k] /\ reply[k] \in Answers \cup {NoAnswer}
    BY <1>9 DEF Inv, CallInv, TypeOK
  <2>2. k # 0
    BY DEF Calls
  <2>3. outcome[k] \in {"result", "raised", "aborted"} /\ outcome[k] # None
    BY <2>1, <2>2, MessageShapes, CallsAssumption DEF NoAnswer
  <2>4. CalleeOf(k) = outcome[k]
    BY <2>3 DEF CalleeOf
  <2>5. CASE outcome[k] = "result"
    <3>1. CallerOf(k)' = "returned" /\ AnswerOf(k)' = k
      BY <1>1, <1>5, <1>9, <2>1, <2>5 DEF CallerOf, AnswerOf
    <3>2. /\ [j \in Calls |-> CallerOf(j)]' =
               [[j \in Calls |-> CallerOf(j)] EXCEPT ![k] = "returned"]
          /\ [j \in Calls |-> AnswerOf(j)]' = [[j \in Calls |-> AnswerOf(j)] EXCEPT ![k] = k]
          /\ [j \in Calls |-> CalleeOf(j)]' = [j \in Calls |-> CalleeOf(j)]
      BY <1>7, <3>1
    <3>3. Promise!Return(k)
      BY <1>7, <2>4, <2>5, <3>2 DEF Promise!Return
    <3>. QED
      BY <3>3 DEF Promise!Next
  <2>6. CASE outcome[k] \in {"raised", "aborted"}
    <3>1. CallerOf(k)' = "failed" /\ AnswerOf(k)' = None
      BY <1>5, <1>9, <2>1, <2>6 DEF CallerOf, AnswerOf
    <3>2. /\ [j \in Calls |-> CallerOf(j)]' =
               [[j \in Calls |-> CallerOf(j)] EXCEPT ![k] = "failed"]
          /\ [j \in Calls |-> AnswerOf(j)]' = [j \in Calls |-> AnswerOf(j)]
          /\ [j \in Calls |-> CalleeOf(j)]' = [j \in Calls |-> CalleeOf(j)]
      BY <1>7, <3>1
    <3>3. Promise!Fail(k)
      BY <1>7, <2>4, <2>6, <3>2 DEF Promise!Fail
    <3>. QED
      BY <3>3 DEF Promise!Next
  <2>. QED
    BY <2>3, <2>5, <2>6
<1>. QED
  BY <1>4, <1>8, <1>9

LEMMA PromiseExecute ==
  ASSUME Inv, OnCall \/ RunBody
  PROVE  [Promise!Next]_(Promise!vars)
<1> DEFINE h == Head(ready)
<1>1. ready # <<>> /\ h \in ToSet(ready) /\ h \in ServerTask /\ Due(h) /\ h \in Executions
  <2>1. ready # <<>>
    BY DEF OnCall, RunBody, Handling, Serving
  <2>2. h \in ToSet(ready) /\ h \in ServerTask /\ Due(h)
    BY <2>1, ServerHead
  <2>3. h.kind = "run" \/ (h.kind = "handle" /\ h.msg.command = "CALL")
    <3>1. CASE OnCall
      BY <3>1 DEF OnCall, Handling, Serving
    <3>2. CASE RunBody
      BY <3>2 DEF RunBody, Serving
    <3>. QED
      BY <3>1, <3>2
  <2>4. h \in Executions
    BY <2>2, <2>3, TaskShapes, MessageShapes DEF Requests
  <2>. QED
    BY <2>1, <2>2, <2>4
<1>2. PICK k \in Calls : k = h.msg.call
  BY <1>1, ExecutionOf
<1>3. k <= issued /\ status[k] # "new" /\ CallerOf(k) # "new"
  BY <1>1, <1>2, ExecutionOf DEF Inv, CallInv, CallerOf
<1>4. UNCHANGED <<status, reply>>
  BY DEF OnCall, RunBody, clientVars
<1>5. \A j \in Calls : CallerOf(j)' = CallerOf(j) /\ AnswerOf(j)' = AnswerOf(j)
  BY <1>4 DEF CallerOf, AnswerOf
<1>6. /\ body \in [Calls -> {"none", "ready", "asleep", "ended"}]
      /\ outcome \in [Calls -> {None, "result", "raised", "aborted"}]
  BY DEF Inv, TypeOK
<1>7. \A s : /\ CalleeOf(k)' = s
             /\ \A j \in Calls : j # k => CalleeOf(j)' = CalleeOf(j)
             => /\ [j \in Calls |-> CalleeOf(j)]' =
                     [[j \in Calls |-> CalleeOf(j)] EXCEPT ![k] = s]
                /\ [j \in Calls |-> CallerOf(j)]' = [j \in Calls |-> CallerOf(j)]
                /\ [j \in Calls |-> AnswerOf(j)]' = [j \in Calls |-> AnswerOf(j)]
  BY <1>5
<1>8. CASE OnCall
  <2>1. h.kind = "handle" /\ h.msg \in CallRequest
    BY <1>1, <1>8, TaskShapes DEF OnCall, Handling, Serving
  <2>2. CalleeOf(k) = "idle"
    BY <1>1, <1>2, <2>1 DEF Due, Untouched, CalleeOf
  <2>3. \/ /\ body' = body
           /\ \E how \in {"result", "raised"} : outcome' = [outcome EXCEPT ![k] = how]
        \/ body' = [body EXCEPT ![k] = "ready"] /\ outcome' = outcome
    BY <1>2, <1>8 DEF OnCall
  <2>4. CASE body' = [body EXCEPT ![k] = "ready"] /\ outcome' = outcome
    <3>1. /\ CalleeOf(k)' = "running"
          /\ \A j \in Calls : j # k => CalleeOf(j)' = CalleeOf(j)
      BY <1>1, <1>2, <1>6, <2>1, <2>4 DEF CalleeOf, Due, Untouched
    <3>2. Promise!Start(k)
      BY <1>3, <1>7, <2>2, <3>1 DEF Promise!Start
    <3>. QED
      BY <3>2 DEF Promise!Next
  <2>5. ASSUME NEW how \in {"result", "raised"}, body' = body,
               outcome' = [outcome EXCEPT ![k] = how]
        PROVE  Promise!Next
    <3>1. /\ CalleeOf(k)' = how
          /\ \A j \in Calls : j # k => CalleeOf(j)' = CalleeOf(j)
      BY <1>6, <2>5, CallsAssumption DEF CalleeOf
    <3>2. Promise!End(k)
      BY <1>3, <1>7, <2>2, <3>1 DEF Promise!End
    <3>. QED
      BY <3>2 DEF Promise!Next
  <2>. QED
    BY <2>3, <2>4, <2>5
<1>9. CASE RunBody
  <2>1. h.kind = "run"
    BY <1>9 DEF RunBody, Serving
  <2>2. body[k] = "ready" /\ outcome[k] = None /\ CalleeOf(k) = "running"
    BY <1>1, <1>2, <2>1 DEF Due, Inv, CallInv, CalleeOf
  <2>3. \/ body' = [body EXCEPT ![k] = "asleep"] /\ outcome' = outcome
        \/ \E how \in {"result", "raised", "aborted"} :
             /\ how = "aborted" => k \in cancelled
             /\ outcome' = [outcome EXCEPT ![k] = how]
             /\ body' = [body EXCEPT ![k] = "ended"]
    BY <1>2, <1>9 DEF RunBody
  <2>4. CASE body' = [body EXCEPT ![k] = "asleep"] /\ outcome' = outcome
    <3>1. \A j \in Calls : CalleeOf(j)' = CalleeOf(j)
      BY <1>6, <2>2, <2>4 DEF CalleeOf
    <3>. QED
      BY <1>5, <3>1, PromiseStutter
  <2>5. ASSUME NEW how \in {"result", "raised", "aborted"}, how = "aborted" => k \in cancelled,
               outcome' = [outcome EXCEPT ![k] = how], body' = [body EXCEPT ![k] = "ended"]
        PROVE  Promise!Next
    <3>1. /\ CalleeOf(k)' = how
          /\ \A j \in Calls : j # k => CalleeOf(j)' = CalleeOf(j)
      BY <1>6, <2>5, CallsAssumption DEF CalleeOf
    <3>2. CASE how = "aborted"
      <4>1. PICK j \in Calls : status[j] = "interrupted"
        BY <2>5, <3>2 DEF Inv, CancelInv, SomeInterrupted
      <4>2. CallerOf(j) = "interrupted"
        BY <4>1 DEF CallerOf
      <4>3. Promise!Abort(k)
        BY <1>7, <2>2, <3>1, <3>2, <4>2 DEF Promise!Abort
      <4>. QED
        BY <4>3 DEF Promise!Next
    <3>3. CASE how # "aborted"
      <4>1. Promise!End(k)
        BY <1>3, <1>7, <2>2, <2>5, <3>1, <3>3 DEF Promise!End
      <4>. QED
        BY <4>1 DEF Promise!Next
    <3>. QED
      BY <3>2, <3>3
  <2>. QED
    BY <2>3, <2>4, <2>5
<1>. QED
  BY <1>8, <1>9

\* Calls keep the promise of RemoteCall: whatever the interleaving of callers,
\* replies, interruptions, aborts and broken connections, an execution starts
\* once and after the call was sent, a caller of _send_with_reply is given the
\* outcome of its own call and only after the execution ended, and on_abort
\* ends no execution unless some caller was interrupted.
THEOREM PromiseKept == Spec => KeepsPromise
<1>1. Init => Promise!Init
  BY DEF Init, Promise!Init, CallerOf, CalleeOf, AnswerOf
<1>2. Inv /\ [Next]_vars => [Promise!Next]_(Promise!vars)
  <2>. SUFFICES ASSUME Inv, [Next]_vars PROVE [Promise!Next]_(Promise!vars)
    OBVIOUS
  <2>1. CASE UNCHANGED vars
    BY <2>1, HiddenSteps
  <2>2. CASE ServerStep
    BY <2>2, HiddenSteps, PromiseExecute DEF ServerStep
  <2>3. ASSUME NEW k \in Calls, Interrupt(k) \/ BodyWake(k)
        PROVE  UNCHANGED Promise!vars
    BY <2>3, HiddenSteps
  <2>4. ASSUME NEW c \in Clients,
               ClientStep(c) \/ ClientArrive(c) \/ ServerArrive(c) \/ Lose(c)
        PROVE  [Promise!Next]_(Promise!vars)
    BY <2>4, HiddenSteps, PromiseWake DEF ClientStep
  <2>5. ASSUME NEW c \in Clients, NEW kd \in Kinds, Issue(c, kd)
        PROVE  Promise!Next
    BY <2>5, PromiseIssue
  <2>. QED
    BY <2>1, <2>2, <2>3, <2>4, <2>5 DEF Next
<1>. QED
  BY <1>1, <1>2, Invariance, PTL DEF Spec, KeepsPromise, Promise!Spec

(***************************************************************************)
(* Aborts.  A client's requests are handled in the order in which they     *)
(* were sent, although those that have been taken from the channel wait    *)
(* among the tasks of others: an ABORT comes after the calls its sender    *)
(* had made, and before those it makes later.                              *)
(***************************************************************************)
\* Message m of a client may be ahead of its message n.
Fits(m, n) ==
    /\ m \in AbortRequest /\ n \in CallRequest => n.call \notin m.before
    /\ m \in CallRequest /\ n \in AbortRequest => m.call \in n.before
TaskFits(t, u) == t.kind = "handle" /\ u.kind = "handle" /\ t.conn = u.conn => Fits(t.msg, u.msg)
MsgFit  == {p \in Requests \X Requests : Fits(p[1], p[2])}
TaskFit == {p \in ServerTask \X ServerTask : TaskFits(p[1], p[2])}

InOrder ==
    /\ Ordered(ready, TaskFit)
    /\ \A c \in Clients :
         /\ Ordered(c2s[c], MsgFit)
         /\ \A t \in ToSet(ready), m \in ToSet(c2s[c]) :
              t.kind = "handle" /\ t.conn = c => Fits(t.msg, m)

\* Message m of client c has been sent and not handled.
OnItsWay(c, m) == m \in ToSet(c2s[c]) \/ Task("handle", c, m) \in ToSet(ready)

\* What holds while the ABORT m of client c is on its way: the calls made since
\* have not been looked at; those it asks for have been sent.
Asked(c, m) == \A k \in Calls :
    /\ k \in m.before => owner[k] = c
    /\ owner[k] = c /\ k \notin m.before => body[k] = "none"
    /\ k \in m.before /\ kind[k] # "plain" /\ body[k] = "none" => OnItsWay(c, CallMsg(k))
AskedInv == \A c \in Clients : \A m \in AbortRequest : OnItsWay(c, m) => Asked(c, m)

SentInv == \A c \in Clients \ lost : \A k \in Calls :
    owner[k] = c /\ kind[k] # "plain" /\ body[k] = "none" => OnItsWay(c, CallMsg(k))

\* No task that still runs escapes an abort; none is there to be cancelled
\* before its call was looked at.
CoverInv == \A k \in Calls :
    /\ body[k] \in {"ready", "asleep"} => k \in abortable \cup cancelled
    /\ k \in abortable => body[k] # "none"

AbortInv == InOrder /\ AskedInv /\ SentInv /\ CoverInv

LEMMA AbortInit == Init => AbortInv
<1>. SUFFICES ASSUME Init PROVE AbortInv
  OBVIOUS
<1>1. ready = <<>> /\ \A c \in Clients : c2s[c] = <<>>
  BY DEF Init
<1>2. ToSet(<<>>) = {} /\ \A R : Ordered(<<>>, R)
  BY DEF ToSet, Ordered
<1>3. InOrder
  BY <1>1, <1>2 DEF InOrder
<1>4. AskedInv
  BY <1>1, <1>2 DEF AskedInv, OnItsWay
<1>5. SentInv /\ CoverInv
  BY CallsAssumption DEF SentInv, CoverInv, Init
<1>. QED
  BY <1>3, <1>4, <1>5 DEF AbortInv

\* Steps that handle nothing, or only an ABORT, and start no execution.
LEMMA AbortQuiet ==
  ASSUME AskedInv, SentInv, UNCHANGED <<owner, kind, lost>>,
         \A k \in Calls : body'[k] = "none" <=> body[k] = "none",
         \A c \in Clients : \A m \in Requests : OnItsWay(c, m)' => OnItsWay(c, m),
         \A c \in Clients : \A m \in CallRequest : OnItsWay(c, m) => OnItsWay(c, m)'
  PROVE  AskedInv' /\ SentInv'
<1>1. \A k \in Calls : CallMsg(k) \in CallRequest
  BY MessageShapes
<1>2. AskedInv'
  <2>1. SUFFICES ASSUME NEW c \in Clients, NEW m \in AbortRequest, OnItsWay(c, m)'
                 PROVE  Asked(c, m)'
    BY DEF AskedInv
  <2>2. Asked(c, m)
    BY <2>1 DEF AskedInv, Requests
  <2>. QED
    BY <1>1, <2>2 DEF Asked
<1>3. SentInv'
  BY <1>1 DEF SentInv
<1>. QED
  BY <1>2, <1>3

LEMMA AbortSame ==
  ASSUME AbortInv, UNCHANGED <<owner, kind, lost, c2s, ready, body, abortable, cancelled>>
  PROVE  AbortInv'
<1>1. InOrder' /\ CoverInv'
  BY DEF AbortInv, InOrder, CoverInv
<1>2. \A c, m : OnItsWay(c, m)' <=> OnItsWay(c, m)
  BY DEF OnItsWay
<1>. QED
  BY <1>1, <1>2, AbortQuiet DEF AbortInv

\* What a step does to the order that takes no message from a channel: it runs
\* the head of the ready queue, or an event puts tasks at its tail.
LEMMA AbortQueue ==
  ASSUME Inv, InOrder, UNCHANGED c2s, NEW q,
         q = ready \/ (q = Tail(ready) /\ ready # <<>>),
         NEW xs \in Seq(ServerTask), \A x \in ToSet(xs) : x.kind # "handle", ready' = q \o xs
  PROVE  /\ InOrder'
         /\ \A c \in Clients : \A m \in Requests :
              /\ OnItsWay(c, m)' => OnItsWay(c, m)
              /\ q = ready => (OnItsWay(c, m) => OnItsWay(c, m)')
              /\ OnItsWay(c, m) /\ Task("handle", c, m) # Head(ready) => OnItsWay(c, m)'
<1>1. /\ ready \in Seq(ServerTask) /\ q \in Seq(ServerTask) /\ Ordered(q, TaskFit)
      /\ ToSet(q) \subseteq ToSet(ready)
      /\ \A t \in ToSet(ready) : t \in ToSet(q) \/ (q # ready /\ t = Head(ready))
  <2>1. ready \in Seq(ServerTask) /\ Ordered(ready, TaskFit)
    BY DEF Inv, TypeOK, InOrder
  <2>2. CASE q = ready
    BY <2>1, <2>2
  <2>3. CASE q # ready /\ q = Tail(ready) /\ ready # <<>>
    <3>1. /\ Tail(ready) \in Seq(ServerTask) /\ ToSet(Tail(ready)) \subseteq ToSet(ready)
          /\ Ordered(Tail(ready), TaskFit)
      BY <2>1, <2>3, EntriesStep, EmptySeq, OrderedHead
    <3>2. \A t \in ToSet(ready) : t = Head(ready) \/ t \in ToSet(Tail(ready))
      <4>1. /\ Len(ready) \in Nat /\ DOMAIN ready = 1..Len(ready) /\ Head(ready) = ready[1]
            /\ DOMAIN Tail(ready) = 1..(Len(ready) - 1)
            /\ \A i \in 1..(Len(ready) - 1) : Tail(ready)[i] = ready[i + 1]
        BY <2>1, <2>3, HeadTailProperties, LenProperties
      <4>2. ASSUME NEW i \in 1..Len(ready), i # 1
            PROVE  ready[i] \in ToSet(Tail(ready))
        <5>1. i - 1 \in 1..(Len(ready) - 1) /\ i = (i - 1) + 1
          BY <4>1, <4>2
        <5>. QED
          BY <4>1, <5>1 DEF ToSet
      <4>. QED
        BY <4>1, <4>2 DEF ToSet
    <3>. QED
      BY <2>1, <2>3, <3>1, <3>2
  <2>. QED
    BY <2>2, <2>3
<1>2. ToSet(q \o xs) = ToSet(q) \cup ToSet(xs)
  <2>1. \A s : ToSet(s) = Range(s)
    BY DEF ToSet, Range
  <2>. QED
    BY <1>1, <2>1, RangeConcatenation
<1>3. ToSet(xs) \subseteq ServerTask
  BY EntriesType
<1>4. Ordered(ready', TaskFit)
  <2>1. \A x \in ToSet(xs), t \in ServerTask : <<t, x>> \in TaskFit
    BY <1>3 DEF TaskFit, TaskFits
  <2>2. Ordered(xs, TaskFit)
    BY <1>3, <2>1, OrderedAny
  <2>3. ToSet(q) \subseteq ServerTask
    BY <1>1, EntriesType
  <2>. QED
    BY <1>1, <2>1, <2>2, <2>3, OrderedConcat
<1>5. \A t \in ToSet(ready') : t.kind = "handle" => t \in ToSet(ready)
  BY <1>1, <1>2
<1>6. InOrder'
  BY <1>4, <1>5 DEF InOrder
<1>7. \A c, m : Task("handle", c, m).kind = "handle"
  BY TaskShapes
<1>. QED
  BY <1>1, <1>2, <1>5, <1>6, <1>7 DEF OnItsWay

(***************************************************************************)
(* What a client sends.                                                    *)
(***************************************************************************)
LEMMA AbortIssue ==
  ASSUME Inv, AbortInv, NEW c \in Clients, NEW kd \in Kinds, Issue(c, kd)
  PROVE  AbortInv'
<1>1. PICK k \in Calls : k = issued + 1
  BY CallsAssumption DEF Issue, Inv, TypeOK, Calls
<1>2. /\ k > issued /\ owner[k] = None /\ body[k] = "none" /\ None \notin Clients
  BY <1>1, CallsAssumption DEF Inv, TypeOK, CallInv
<1>3. /\ owner' = [owner EXCEPT ![k] = c] /\ kind' = [kind EXCEPT ![k] = kd]
      /\ c2s' = [c2s EXCEPT ![c] = Append(@, CallMsg(k))]
      /\ UNCHANGED <<ready, body, abortable, cancelled, lost>>
  BY <1>1 DEF Issue, Send, serverVars
<1>4. /\ owner'[k] = c /\ kind'[k] = kd
      /\ \A j \in Calls : j # k => owner'[j] = owner[j] /\ kind'[j] = kind[j]
  BY <1>3 DEF Inv, TypeOK
<1>5. /\ CallMsg(k) \in CallRequest /\ CallMsg(k).call = k /\ CallMsg(k) \in Requests
      /\ CallMsg(k) \notin AbortRequest
  BY MessageShapes DEF Requests
<1>6. /\ c2s[c] \in Seq(Requests) /\ c2s'[c] = Append(c2s[c], CallMsg(k))
      /\ ToSet(c2s'[c]) = ToSet(c2s[c]) \cup {CallMsg(k)}
      /\ \A d \in Clients : d # c => c2s'[d] = c2s[d]
  BY <1>3, <1>5, EntriesAppend DEF Inv, TypeOK
<1>7. \A m \in AbortRequest : OnItsWay(c, m) => k \notin m.before
  BY <1>2 DEF AbortInv, AskedInv, Asked
<1>8. \A m \in Requests : OnItsWay(c, m) => Fits(m, CallMsg(k))
  BY <1>5, <1>7 DEF Fits
<1>9. InOrder'
  <2>1. \A m \in ToSet(c2s[c]) : <<m, CallMsg(k)>> \in MsgFit
    <3>1. ToSet(c2s[c]) \subseteq Requests
      BY Entries DEF Inv
    <3>. QED
      BY <1>5, <1>8, <3>1 DEF MsgFit, OnItsWay
  <2>2. Ordered(c2s'[c], MsgFit)
    BY <1>5, <1>6, <2>1, OrderedAppend DEF AbortInv, InOrder
  <2>3. ASSUME NEW t \in ToSet(ready), t.kind = "handle", t.conn = c
        PROVE  Fits(t.msg, CallMsg(k))
    <3>1. t = Task("handle", c, t.msg) /\ t.msg \in Requests
      BY <2>3, Entries, TaskShapes DEF Inv
    <3>. QED
      BY <1>8, <3>1 DEF OnItsWay
  <2>. QED
    BY <1>3, <1>6, <2>2, <2>3 DEF AbortInv, InOrder
<1>10. /\ \A d \in Clients : \A m : OnItsWay(d, m) => OnItsWay(d, m)'
       /\ \A d \in Clients : \A m \in AbortRequest : OnItsWay(d, m)' => OnItsWay(d, m)
       /\ OnItsWay(c, CallMsg(k))'
  BY <1>3, <1>5, <1>6 DEF OnItsWay
<1>11. AskedInv'
  <2>1. SUFFICES ASSUME NEW d \in Clients, NEW m \in AbortRequest, OnItsWay(d, m),
                        NEW j \in Calls
                 PROVE  /\ j \in m.before => owner'[j] = d
                        /\ owner'[j] = d /\ j \notin m.before => body[j] = "none"
                        /\ j \in m.before /\ kind'[j] # "plain" /\ body[j] = "none"
                              => OnItsWay(d, CallMsg(j))'
    BY <1>3, <1>10 DEF AskedInv, Asked
  <2>2. Asked(d, m) /\ k \notin m.before
    BY <1>2, <2>1 DEF AbortInv, AskedInv, Asked
  <2>. QED
    BY <1>2, <1>4, <1>10, <2>2 DEF Asked
<1>12. SentInv'
  BY <1>3, <1>4, <1>10 DEF AbortInv, SentInv
<1>. QED
  BY <1>3, <1>9, <1>11, <1>12 DEF AbortInv, CoverInv

LEMMA AbortWake ==
  ASSUME Inv, AbortInv, NEW c \in Clients, WakeCaller(c)
  PROVE  AbortInv'
<1> DEFINE a == Request("ABORT", 0, {j \in Calls : owner[j] = c})
<1>1. UNCHANGED <<owner, kind, lost, ready, body, abortable, cancelled>>
  BY DEF WakeCaller, callVars, serverVars
<1>2. c2s' = c2s \/ (c \notin lost /\ c2s' = [c2s EXCEPT ![c] = Append(@, a)])
  BY DEF WakeCaller, Send
<1>3. CASE c2s' = c2s
  BY <1>1, <1>3, AbortSame
<1>4. CASE c \notin lost /\ c2s' = [c2s EXCEPT ![c] = Append(@, a)]
  <2>1. /\ a \in AbortRequest /\ a.before = {j \in Calls : owner[j] = c} /\ a \in Requests
        /\ a \notin CallRequest
    BY MessageShapes DEF Request, Requests
  <2>. HIDE DEF a
  <2>2. /\ c2s[c] \in Seq(Requests) /\ c2s'[c] = Append(c2s[c], a)
        /\ ToSet(c2s'[c]) = ToSet(c2s[c]) \cup {a}
        /\ \A d \in Clients : d # c => c2s'[d] = c2s[d]
    BY <1>4, <2>1, EntriesAppend DEF Inv, TypeOK
  <2>3. ASSUME NEW m \in Requests, OnItsWay(c, m)
        PROVE  Fits(m, a)
    <3>1. SUFFICES ASSUME m \in CallRequest
                   PROVE  m.call \in a.before
      BY <2>1 DEF Fits
    <3>2. m.call \in Calls
      BY <3>1, MessageShapes
    <3>3. CASE m \in ToSet(c2s[c])
      BY <2>1, <3>1, <3>2, <3>3 DEF Inv, RequestInv, Pending
    <3>4. CASE Task("handle", c, m) \in ToSet(ready)
      <4>1. PICK t : t = Task("handle", c, m)
        OBVIOUS
      <4>2. t \in ToSet(ready) /\ t \in Executions /\ t.conn = c /\ t.msg = m
        BY <3>1, <3>4, <4>1 DEF Executions, Tasks, Task
      <4>. QED
        BY <2>1, <3>2, <4>2 DEF Inv, ReadyInv, Due
    <3>. QED
      BY <2>3, <3>3, <3>4 DEF OnItsWay
  <2>4. InOrder'
    <3>1. \A m \in ToSet(c2s[c]) : <<m, a>> \in MsgFit
      <4>1. ToSet(c2s[c]) \subseteq Requests
        BY Entries DEF Inv
      <4>. QED
        BY <2>1, <2>3, <4>1 DEF MsgFit, OnItsWay
    <3>2. Ordered(c2s'[c], MsgFit)
      BY <2>1, <2>2, <3>1, OrderedAppend DEF AbortInv, InOrder
    <3>3. ASSUME NEW t \in ToSet(ready), t.kind = "handle", t.conn = c
          PROVE  Fits(t.msg, a)
      <4>1. t = Task("handle", c, t.msg) /\ t.msg \in Requests
        BY <3>3, Entries, TaskShapes DEF Inv
      <4>. QED
        BY <2>3, <3>3, <4>1 DEF OnItsWay
    <3>. QED
      BY <1>1, <2>2, <3>2, <3>3 DEF AbortInv, InOrder
  <2>5. /\ \A d \in Clients : \A m : OnItsWay(d, m) => OnItsWay(d, m)'
        /\ \A d \in Clients : \A m : OnItsWay(d, m)' => OnItsWay(d, m) \/ (d = c /\ m = a)
    BY <1>1, <2>2 DEF OnItsWay
  <2>6. ASSUME NEW d \in Clients, NEW m \in AbortRequest, OnItsWay(d, m)'
        PROVE  Asked(d, m)'
    <3>1. Asked(d, m)
      <4>1. CASE OnItsWay(d, m)
        BY <4>1 DEF AbortInv, AskedInv
      <4>2. CASE d = c /\ m = a
        BY <1>4, <2>1, <4>2 DEF AbortInv, SentInv, Asked
      <4>. QED
        BY <2>5, <2>6, <4>1, <4>2
    <3>. QED
      BY <1>1, <2>5, <3>1 DEF Asked
  <2>7. SentInv'
    BY <1>1, <2>5 DEF AbortInv, SentInv
  <2>. QED
    BY <1>1, <2>4, <2>6, <2>7 DEF AbortInv, AskedInv, CoverInv
<1>. QED
  BY <1>2, <1>3, <1>4

\* A connection that breaks loses a suffix: never the call without the ABORT
\* that was sent after it.
LEMMA AbortLose ==
  ASSUME Inv, AbortInv, NEW c \in Clients, Lose(c)
  PROVE  AbortInv'
<1>1. /\ UNCHANGED <<owner, kind, ready, body, abortable, cancelled>>
      /\ lost' = lost \cup {c} /\ c2s \in [Clients -> Seq(Requests)]
  BY DEF Lose, Inv, TypeOK, callVars, serverVars
<1>2. PICK n \in 0..Len(c2s[c]) : c2s' = [c2s EXCEPT ![c] = SubSeq(@, 1, n)]
  BY DEF Lose
<1>3. /\ c2s'[c] = SubSeq(c2s[c], 1, n) /\ \A d \in Clients : d # c => c2s'[d] = c2s[d]
      /\ ToSet(c2s'[c]) \subseteq ToSet(c2s[c]) /\ Ordered(c2s'[c], MsgFit)
  BY <1>1, <1>2, EntriesPart, OrderedPart DEF AbortInv, InOrder
<1>4. InOrder'
  BY <1>1, <1>3 DEF AbortInv, InOrder
<1>5. /\ \A d \in Clients : \A m : OnItsWay(d, m)' => OnItsWay(d, m)
      /\ \A d \in Clients : \A m : d # c /\ OnItsWay(d, m) => OnItsWay(d, m)'
  BY <1>1, <1>3 DEF OnItsWay
<1>6. ASSUME NEW m \in AbortRequest, OnItsWay(c, m)', NEW x \in CallRequest, OnItsWay(c, x),
             x.call \in m.before
      PROVE  OnItsWay(c, x)'
  <2>1. CASE Task("handle", c, x) \in ToSet(ready)
    BY <1>1, <2>1 DEF OnItsWay
  <2>2. CASE x \in ToSet(c2s[c]) /\ Task("handle", c, m) \in ToSet(ready)
    <3>1. Fits(m, x)
      <4>1. PICK t : t = Task("handle", c, m)
        OBVIOUS
      <4>2. t \in ToSet(ready) /\ t.kind = "handle" /\ t.conn = c /\ t.msg = m
        BY <2>2, <4>1, TaskShapes
      <4>. QED
        BY <2>2, <4>2 DEF AbortInv, InOrder
    <3>. QED
      BY <1>6, <3>1 DEF Fits
  <2>3. CASE x \in ToSet(c2s[c]) /\ m \in ToSet(c2s'[c])
    <3>1. Len(c2s[c]) \in Nat /\ DOMAIN c2s[c] = 1..Len(c2s[c])
      BY <1>1, LenProperties
    <3>2. DOMAIN c2s'[c] = 1..n /\ \A i \in 1..n : c2s'[c][i] = c2s[c][i]
      BY <1>1, <1>3, <3>1
    <3>3. PICK i \in 1..n : m = c2s[c][i]
      BY <2>3, <3>2 DEF ToSet
    <3>4. PICK j \in 1..Len(c2s[c]) : x = c2s[c][j]
      BY <2>3, <3>1 DEF ToSet
    <3>5. ~(i < j)
      <4>1. SUFFICES ASSUME i < j PROVE FALSE
        OBVIOUS
      <4>2. <<m, x>> \in MsgFit
        BY <3>1, <3>3, <3>4, <4>1 DEF AbortInv, InOrder, Ordered
      <4>. QED
        BY <1>6, <4>2 DEF MsgFit, Fits
    <3>6. j \in 1..n
      BY <3>1, <3>5
    <3>. QED
      BY <3>2, <3>4, <3>6 DEF OnItsWay, ToSet
  <2>. QED
    BY <1>1, <1>6, <2>1, <2>2, <2>3 DEF OnItsWay
<1>7. AskedInv'
  <2>1. SUFFICES ASSUME NEW d \in Clients, NEW m \in AbortRequest, OnItsWay(d, m)'
                 PROVE  Asked(d, m)'
    BY DEF AskedInv
  <2>2. Asked(d, m)
    BY <1>5, <2>1 DEF AbortInv, AskedInv
  <2>3. \A k \in Calls : CallMsg(k) \in CallRequest /\ CallMsg(k).call = k
    BY MessageShapes
  <2>4. \A k \in Calls : k \in m.before /\ OnItsWay(d, CallMsg(k)) => OnItsWay(d, CallMsg(k))'
    BY <1>5, <1>6, <2>1, <2>3
  <2>. QED
    BY <1>1, <2>2, <2>4 DEF Asked
<1>8. SentInv'
  BY <1>1, <1>5 DEF AbortInv, SentInv
<1>. QED
  BY <1>1, <1>4, <1>7, <1>8 DEF AbortInv, CoverInv

(***************************************************************************)
(* What the server does with it.                                           *)
(***************************************************************************)
\* A listener moves what it takes from its channel behind all that waits.
LEMMA AbortListen ==
  ASSUME Inv, AbortInv, ServerListen
  PROVE  AbortInv'
<1>1. PICK c \in Clients : c = Head(ready).conn
  BY ServerHead, TaskShapes DEF ServerListen, Serving
<1>2. /\ ready # <<>> /\ Head(ready).kind = "listen"
      /\ UNCHANGED <<owner, kind, lost, body, abortable, cancelled>>
      /\ c2s \in [Clients -> Seq(Requests)] /\ ready \in Seq(ServerTask)
  BY DEF ServerListen, Serving, Inv, TypeOK, callVars, serverVars
<1>3. PICK n \in 0..Len(c2s[c]) :
        /\ ready' = Tail(ready) \o HandleAll("handle", c, c2s[c], n)
        /\ c2s' = [c2s EXCEPT ![c] = Drop(@, n)]
  <2>1. Len(c2s[c]) \in Nat
    BY <1>2, LenProperties
  <2>2. PICK n \in IF c2s[c] = <<>> THEN {0} ELSE 1..Len(c2s[c]) :
          /\ ready' = Tail(ready) \o HandleAll("handle", c, c2s[c], n)
          /\ c2s' = [c2s EXCEPT ![c] = Drop(@, n)]
    BY <1>1 DEF ServerListen
  <2>3. n \in 0..Len(c2s[c])
    BY <2>1, <2>2
  <2>. QED
    BY <2>2, <2>3
<1>4. PICK s \in Seq(Requests) : s = c2s[c]
  BY <1>2
<1>5. PICK xs : xs = HandleAll("handle", c, s, n)
  OBVIOUS
<1>6. /\ c2s'[c] = Drop(s, n) /\ \A d \in Clients : d # c => c2s'[d] = c2s[d]
      /\ ready' = Tail(ready) \o xs
  BY <1>2, <1>3, <1>4, <1>5
<1>7. n \in 0..Len(s) /\ \A m \in Requests : Task("handle", c, m) \in ServerTask
  BY <1>4, TaskTypes
<1>8. /\ Len(s) \in Nat /\ DOMAIN s = 1..Len(s) /\ \A i \in 1..n : s[i] \in Requests
      /\ xs \in Seq(ServerTask) /\ DOMAIN xs = 1..n
      /\ \A i \in 1..n : xs[i] = Task("handle", c, s[i])
  <2>1. Len(s) \in Nat /\ DOMAIN s = 1..Len(s)
    BY LenProperties
  <2>2. \A i \in 1..n : s[i] \in Requests
    BY <1>7, <2>1, ElementOfSeq
  <2>3. xs \in Seq(ServerTask)
    BY <1>5, <1>7, HandleAllType
  <2>. QED
    BY <1>5, <2>1, <2>2, <2>3 DEF HandleAll
<1>9. /\ DOMAIN Drop(s, n) = 1..(Len(s) - n)
      /\ \A i \in 1..(Len(s) - n) : Drop(s, n)[i] = s[n + i] /\ n + i \in DOMAIN s
  <2>1. /\ Drop(s, n) \in Seq(Requests) /\ Len(Drop(s, n)) = Len(s) - n
        /\ \A i \in 1..(Len(s) - n) : Drop(s, n)[i] = s[n + i]
    BY <1>7, DropProperties
  <2>2. \A i \in 1..(Len(s) - n) : n + i \in DOMAIN s
    BY <1>7, <1>8
  <2>. QED
    BY <2>1, <2>2, LenProperties
<1>10. \A m : m \in ToSet(s) <=> m \in ToSet(Drop(s, n)) \/ \E i \in 1..n : m = s[i]
  <2>1. ASSUME NEW i \in DOMAIN s, i \notin 1..n PROVE s[i] \in ToSet(Drop(s, n))
    <3>1. i - n \in 1..(Len(s) - n) /\ i = n + (i - n)
      BY <1>8, <2>1
    <3>. QED
      BY <1>9, <3>1 DEF ToSet
  <2>2. \A i \in 1..n : i \in DOMAIN s
    BY <1>7, <1>8
  <2>. QED
    BY <1>9, <2>1, <2>2 DEF ToSet
<1>11. /\ Tail(ready) \in Seq(ServerTask) /\ ToSet(Tail(ready)) \subseteq ToSet(ready)
       /\ ToSet(ready') = ToSet(Tail(ready)) \cup ToSet(xs)
       /\ Ordered(Tail(ready), TaskFit)
  BY <1>2, <1>6, <1>8, EntriesStep, OrderedHead DEF AbortInv, InOrder
<1>12. \A t \in ToSet(ready) : t.kind = "handle" => t \in ToSet(Tail(ready))
  <2>1. /\ Len(ready) \in Nat /\ DOMAIN ready = 1..Len(ready) /\ Head(ready) = ready[1]
        /\ DOMAIN Tail(ready) = 1..(Len(ready) - 1)
        /\ \A i \in 1..(Len(ready) - 1) : Tail(ready)[i] = ready[i + 1]
    BY <1>2, <1>11, HeadTailProperties, LenProperties
  <2>2. ASSUME NEW i \in 1..Len(ready), i # 1
        PROVE  ready[i] \in ToSet(Tail(ready))
    <3>1. i - 1 \in 1..(Len(ready) - 1) /\ i = (i - 1) + 1
      BY <2>1, <2>2
    <3>. QED
      BY <2>1, <3>1 DEF ToSet
  <2>. QED
    BY <1>2, <2>1, <2>2 DEF ToSet
<1>13. /\ \A t \in ToSet(xs) : \E i \in 1..n : t = Task("handle", c, s[i])
       /\ \A i \in 1..n : Task("handle", c, s[i]) \in ToSet(xs)
  BY <1>8 DEF ToSet
<1>14. \A d \in Clients : \A m : OnItsWay(d, m)' <=> OnItsWay(d, m)
  <2>1. SUFFICES ASSUME NEW d \in Clients, NEW m
                 PROVE  OnItsWay(d, m)' <=> OnItsWay(d, m)
    OBVIOUS
  <2>2. PICK t : t = Task("handle", d, m)
    OBVIOUS
  <2>3. t.kind = "handle" /\ t.conn = d /\ t.msg = m
    BY <2>2, TaskShapes
  <2>4. t \in ToSet(ready) <=> t \in ToSet(Tail(ready))
    BY <1>11, <1>12, <2>3
  <2>5. t \in ToSet(xs) <=> d = c /\ \E i \in 1..n : m = s[i]
    BY <1>13, <2>2, <2>3, TaskShapes
  <2>6. t \in ToSet(ready') <=> t \in ToSet(ready) \/ t \in ToSet(xs)
    BY <1>11, <2>4
  <2>7. m \in ToSet(c2s[d]) <=> m \in ToSet(c2s'[d]) \/ (d = c /\ \E i \in 1..n : m = s[i])
    BY <1>4, <1>6, <1>10
  <2>. QED
    BY <2>2, <2>5, <2>6, <2>7 DEF OnItsWay
<1>15. Ordered(s, MsgFit)
  BY <1>4 DEF AbortInv, InOrder
<1>16. Ordered(ready', TaskFit)
  <2>1. \A m, l \in Requests : <<m, l>> \in MsgFit
            => <<Task("handle", c, m), Task("handle", c, l)>> \in TaskFit
    BY <1>7, TaskShapes DEF MsgFit, TaskFit, TaskFits
  <2>2. Ordered(xs, TaskFit)
    BY <1>5, <1>7, <1>15, <2>1, OrderedHandleAll
  <2>3. ASSUME NEW t \in ToSet(Tail(ready)), NEW i \in 1..n
        PROVE  <<t, Task("handle", c, s[i])>> \in TaskFit
    <3>1. t \in ServerTask /\ t \in ToSet(ready) /\ Task("handle", c, s[i]) \in ServerTask
      BY <1>7, <1>8, <1>11, EntriesType
    <3>2. s[i] \in ToSet(c2s[c])
      BY <1>4, <1>7, <1>8 DEF ToSet
    <3>3. t.kind = "handle" /\ t.conn = c => Fits(t.msg, s[i])
      BY <3>1, <3>2 DEF AbortInv, InOrder
    <3>. QED
      BY <3>1, <3>3, TaskShapes DEF TaskFit, TaskFits
  <2>4. \A t \in ToSet(Tail(ready)), x \in ToSet(xs) : <<t, x>> \in TaskFit
    BY <1>13, <2>3
  <2>. QED
    BY <1>6, <1>8, <1>11, <2>2, <2>4, OrderedConcat
<1>17. ASSUME NEW d \in Clients
       PROVE  /\ Ordered(c2s'[d], MsgFit)
              /\ \A t \in ToSet(ready'), m \in ToSet(c2s'[d]) :
                   t.kind = "handle" /\ t.conn = d => Fits(t.msg, m)
  <2>1. Ordered(c2s'[d], MsgFit)
    BY <1>6, <1>7, <1>15, OrderedPart DEF AbortInv, InOrder
  <2>2. ASSUME NEW t \in ToSet(ready'), NEW m \in ToSet(c2s'[d]), t.kind = "handle", t.conn = d
        PROVE  Fits(t.msg, m)
    <3>1. m \in ToSet(c2s[d])
      BY <1>4, <1>6, <1>10, <2>2
    <3>2. CASE t \in ToSet(ready)
      BY <2>2, <3>1, <3>2 DEF AbortInv, InOrder
    <3>3. CASE t \in ToSet(xs)
      <4>1. PICK i \in 1..n : t = Task("handle", c, s[i])
        BY <1>13, <3>3
      <4>2. t.msg = s[i] /\ d = c
        BY <2>2, <4>1, TaskShapes
      <4>3. <<s[i], m>> \in MsgFit
        BY <1>6, <1>7, <1>15, <2>2, <4>2, OrderedPart
      <4>. QED
        BY <4>2, <4>3 DEF MsgFit
    <3>. QED
      BY <1>11, <2>2, <3>2, <3>3
  <2>. QED
    BY <2>1, <2>2
<1>18. InOrder'
  BY <1>16, <1>17 DEF InOrder
<1>. QED
  BY <1>2, <1>14, <1>18, AbortQuiet DEF AbortInv, CoverInv

\* Steps of tasks that handle no request.
LEMMA AbortServe ==
  ASSUME Inv, AbortInv, RunBody \/ Finish \/ (\E c \in Clients : ServerArrive(c))
                          \/ \E k \in Calls : BodyWake(k)
  PROVE  InOrder' /\ AskedInv' /\ SentInv'
<1>1. UNCHANGED <<owner, kind, lost, c2s>> /\ ready \in Seq(ServerTask)
  BY DEF RunBody, Finish, ServerArrive, BodyWake, callVars, netVars, Inv, TypeOK
<1>2. \A k \in Calls : body'[k] = "none" <=> body[k] = "none"
  <2>1. CASE RunBody
    <3>1. ready # <<>> /\ Head(ready).kind = "run"
      BY <2>1 DEF RunBody, Serving
    <3>2. body[Head(ready).msg.call] = "ready"
      BY <3>1, ServerHead DEF Due
    <3>. QED
      BY <2>1, <3>2 DEF RunBody, Inv, TypeOK
  <2>2. CASE Finish
    BY <2>2 DEF Finish
  <2>3. ASSUME NEW c \in Clients, ServerArrive(c)
        PROVE  \A k \in Calls : body'[k] = "none" <=> body[k] = "none"
    BY <2>3 DEF ServerArrive, serverVars
  <2>4. ASSUME NEW j \in Calls, BodyWake(j)
        PROVE  \A k \in Calls : body'[k] = "none" <=> body[k] = "none"
    BY <2>4 DEF BodyWake, Inv, TypeOK
  <2>. QED
    BY <2>1, <2>2, <2>3, <2>4
<1>3. \E q : \E xs \in Seq(ServerTask) :
        /\ \/ q = ready
           \/ q = Tail(ready) /\ ready # <<>> /\ Head(ready).kind # "handle"
        /\ \A x \in ToSet(xs) : x.kind # "handle"
        /\ ready' = q \o xs
  <2>1. /\ <<>> \in Seq(ServerTask) /\ ToSet(<<>>) = {}
        /\ \A x : ToSet(<<x>>) = {x}
        /\ \A x \in ServerTask : <<x>> \in Seq(ServerTask)
        /\ \A q \in Seq(ServerTask), x \in ServerTask : Append(q, x) = q \o <<x>>
        /\ \A q \in Seq(ServerTask) : q = q \o <<>>
    <3>1. <<>> \in Seq(ServerTask) /\ \A x \in ServerTask : <<x>> \in Seq(ServerTask)
      OBVIOUS
    <3>2. ToSet(<<>>) = {} /\ \A x : ToSet(<<x>>) = {x}
      BY DEF ToSet
    <3>3. \A q \in Seq(ServerTask), x \in ServerTask : Append(q, x) = q \o <<x>>
      BY <3>1, AppendIsConcat
    <3>4. \A q \in Seq(ServerTask) : q = q \o <<>>
      BY ConcatEmptySeq
    <3>. QED
      BY <3>1, <3>2, <3>3, <3>4
  <2>2. CASE RunBody \/ Finish
    <3>1. ready # <<>> /\ Head(ready).kind # "handle" /\ Tail(ready) \in Seq(ServerTask)
      BY <1>1, <2>2, HeadTailProperties DEF RunBody, Finish, Serving
    <3>2. CASE ready' = Tail(ready)
      BY <2>1, <3>1, <3>2
    <3>3. CASE RunBody /\ ready' # Tail(ready)
      <4>1. PICK k \in Calls, c \in Clients : k = Head(ready).msg.call /\ c = Head(ready).conn
        BY <3>1, <3>3, ServerHead, TaskShapes, MessageShapes DEF RunBody, Serving
      <4>2. PICK x : x = Task("finish", c, CallMsg(k))
        OBVIOUS
      <4>3. x \in ServerTask /\ x.kind # "handle"
        BY <4>2, TaskTypes, TaskShapes, MessageShapes
      <4>4. ready' = Append(Tail(ready), x)
        BY <3>3, <4>1, <4>2 DEF RunBody
      <4>5. PICK xs \in Seq(ServerTask) : xs = <<x>>
        BY <2>1, <4>3
      <4>6. ready' = Tail(ready) \o xs /\ \A y \in ToSet(xs) : y.kind # "handle"
        BY <2>1, <3>1, <4>3, <4>4, <4>5
      <4>. QED
        BY <3>1, <4>6
    <3>4. Finish => ready' = Tail(ready)
      BY DEF Finish
    <3>. QED
      BY <2>2, <3>2, <3>3, <3>4
  <2>3. ASSUME NEW c \in Clients, ServerArrive(c)
        PROVE  \E x \in ServerTask : x.kind # "handle" /\ ready' = Append(ready, x)
    BY <2>3, TaskTypes, TaskShapes DEF ServerArrive
  <2>4. ASSUME NEW k \in Calls, BodyWake(k)
        PROVE  \E x \in ServerTask : x.kind # "handle" /\ ready' = Append(ready, x)
    <3>1. body[k] = "asleep" /\ ready' = Append(ready, Task("run", owner[k], CallMsg(k)))
      BY <2>4 DEF BodyWake
    <3>2. k <= issued
      BY <3>1, CallsAssumption DEF Inv, CallInv, TypeOK, Calls
    <3>3. owner[k] \in Clients
      BY <3>2 DEF Inv, CallInv
    <3>. QED
      BY <3>1, <3>3, TaskTypes, TaskShapes, MessageShapes
  <2>5. CASE ~(RunBody \/ Finish)
    <3>1. PICK x \in ServerTask : x.kind # "handle" /\ ready' = Append(ready, x)
      BY <2>3, <2>4, <2>5
    <3>2. PICK xs \in Seq(ServerTask) : xs = <<x>>
      BY <2>1
    <3>3. ready' = ready \o xs /\ \A y \in ToSet(xs) : y.kind # "handle"
      BY <1>1, <2>1, <3>1, <3>2
    <3>. QED
      BY <3>3
  <2>. QED
    BY <2>2, <2>5
<1>4. /\ InOrder'
      /\ \A c \in Clients : \A m \in Requests : OnItsWay(c, m)' <=> OnItsWay(c, m)
  <2>1. \A c, m : Task("handle", c, m).kind = "handle"
    BY TaskShapes
  <2>2. PICK q, xs :
          /\ \/ q = ready
             \/ q = Tail(ready) /\ ready # <<>> /\ Head(ready).kind # "handle"
          /\ xs \in Seq(ServerTask) /\ \A x \in ToSet(xs) : x.kind # "handle"
          /\ ready' = q \o xs
    BY <1>3
  <2>. QED
    BY <1>1, <2>1, <2>2, AbortQueue DEF AbortInv
<1>. QED
  BY <1>1, <1>2, <1>4, AbortQuiet DEF AbortInv, Requests

LEMMA AbortCall ==
  ASSUME Inv, AbortInv, OnCall
  PROVE  AbortInv'
<1> DEFINE h == Head(ready)
<1>1. /\ UNCHANGED <<owner, kind, lost, c2s, cancelled>> /\ ready \in Seq(ServerTask)
      /\ ready # <<>> /\ h.kind = "handle" /\ h.msg.command = "CALL"
  BY DEF OnCall, Handling, Serving, callVars, Inv, TypeOK
<1>2. h \in ServerTask /\ Due(h) /\ h \in ToSet(ready)
  BY <1>1, ServerHead
<1>3. h.msg \in CallRequest /\ h.msg \notin AbortRequest
  BY <1>1, <1>2, TaskShapes, MessageShapes DEF Requests
<1>4. PICK k \in Calls, c \in Clients : k = h.msg.call /\ c = h.conn
  BY <1>2, <1>3, TaskShapes, MessageShapes
<1>5. h.msg = CallMsg(k) /\ owner[k] = c /\ h \in Executions /\ h = Task("handle", c, CallMsg(k))
  BY <1>1, <1>2, <1>3, <1>4, TaskShapes, MessageShapes DEF Due
<1>6. \/ kind[k] = "plain" /\ body' = body /\ abortable' = abortable /\ ready' = Tail(ready)
      \/ /\ kind[k] # "plain"
         /\ body' = [body EXCEPT ![k] = "ready"] /\ abortable' = abortable \cup {k}
         /\ ready' = Append(Tail(ready), Task("run", c, CallMsg(k)))
  BY <1>4 DEF OnCall
<1>7. /\ \A j \in Calls : j # k => body'[j] = body[j]
      /\ kind[k] # "plain" => body'[k] = "ready"
      /\ body'[k] = "none" \/ body'[k] = "ready"
  BY <1>2, <1>3, <1>4, <1>6, <1>1 DEF Inv, TypeOK, Due, Untouched
<1>8. \E xs \in Seq(ServerTask) : ready' = Tail(ready) \o xs
                                  /\ \A x \in ToSet(xs) : x.kind # "handle"
  <2>1. Tail(ready) \in Seq(ServerTask)
    BY <1>1, HeadTailProperties
  <2>2. CASE ready' = Tail(ready)
    <3>1. ready' = Tail(ready) \o <<>> /\ <<>> \in Seq(ServerTask) /\ ToSet(<<>>) = {}
      BY <2>1, <2>2, ConcatEmptySeq DEF ToSet
    <3>. QED
      BY <3>1
  <2>3. CASE ready' # Tail(ready)
    <3>1. PICK x : x = Task("run", c, CallMsg(k))
      OBVIOUS
    <3>2. x \in ServerTask /\ x.kind # "handle"
      BY <3>1, TaskTypes, TaskShapes, MessageShapes
    <3>3. <<x>> \in Seq(ServerTask) /\ \A y \in ToSet(<<x>>) : y.kind # "handle"
      BY <3>2 DEF ToSet
    <3>4. ready' = Tail(ready) \o <<x>>
      BY <1>6, <2>1, <2>3, <3>1, <3>2, AppendIsConcat
    <3>. QED
      BY <3>3, <3>4
  <2>. QED
    BY <2>2, <2>3
<1>. HIDE DEF h
<1>9. /\ InOrder'
      /\ \A d \in Clients : \A m \in Requests :
           /\ OnItsWay(d, m)' => OnItsWay(d, m)
           /\ OnItsWay(d, m) /\ Task("handle", d, m) # h => OnItsWay(d, m)'
  BY <1>1, <1>8, AbortQueue DEF AbortInv, h
<1>10. \A j \in Calls : j # k => \A d \in Clients :
         OnItsWay(d, CallMsg(j)) => OnItsWay(d, CallMsg(j))'
  <2>1. SUFFICES ASSUME NEW j \in Calls, j # k, NEW d \in Clients
                 PROVE  Task("handle", d, CallMsg(j)) # h /\ CallMsg(j) \in Requests
    BY <1>9
  <2>2. CallMsg(j) # CallMsg(k)
    BY <2>1, MessageShapes
  <2>. QED
    BY <1>5, <2>2, TaskShapes, MessageShapes DEF Requests
\* An ABORT that is still on its way was sent after the call.
<1>11. ASSUME NEW m \in AbortRequest, OnItsWay(c, m)'
       PROVE  k \in m.before
  <2>1. Fits(h.msg, m)
    <3>1. CASE m \in ToSet(c2s[c])
      BY <1>1, <1>2, <1>4, <3>1 DEF AbortInv, InOrder
    <3>2. CASE Task("handle", c, m) \in ToSet(ready')
      <4>1. PICK t : t = Task("handle", c, m)
        OBVIOUS
      <4>2. t.kind = "handle" /\ t.conn = c /\ t.msg = m
        BY <4>1, TaskShapes
      <4>3. PICK xs \in Seq(ServerTask) : /\ ready' = Tail(ready) \o xs
                                          /\ \A x \in ToSet(xs) : x.kind # "handle"
        BY <1>8
      <4>4. t \in ToSet(Tail(ready))
        BY <1>1, <3>2, <4>1, <4>2, <4>3, EntriesStep
      <4>5. <<h, t>> \in TaskFit
        BY <1>1, <4>4, OrderedHead DEF AbortInv, InOrder, h
      <4>. QED
        BY <1>1, <1>4, <4>2, <4>5 DEF TaskFit, TaskFits
    <3>. QED
      BY <1>1, <1>11, <3>1, <3>2 DEF OnItsWay
  <2>. QED
    BY <1>3, <1>4, <2>1 DEF Fits
<1>12. AskedInv'
  <2>1. SUFFICES ASSUME NEW d \in Clients, NEW m \in AbortRequest, OnItsWay(d, m)',
                        NEW j \in Calls
                 PROVE  /\ j \in m.before => owner[j] = d
                        /\ owner[j] = d /\ j \notin m.before => body'[j] = "none"
                        /\ j \in m.before /\ kind[j] # "plain" /\ body'[j] = "none"
                              => OnItsWay(d, CallMsg(j))'
    BY <1>1 DEF AskedInv, Asked
  <2>2. Asked(d, m)
    BY <1>9, <2>1 DEF AbortInv, AskedInv, Requests
  <2>3. owner[k] = d => k \in m.before
    BY <1>5, <1>11, <2>1
  <2>. QED
    BY <1>7, <1>10, <2>2, <2>3 DEF Asked
<1>13. SentInv'
  BY <1>1, <1>7, <1>10 DEF AbortInv, SentInv
<1>14. CoverInv'
  BY <1>1, <1>6, <1>7 DEF AbortInv, CoverInv
<1>. QED
  BY <1>9, <1>12, <1>13, <1>14 DEF AbortInv

LEMMA AbortHandled ==
  ASSUME Inv, AbortInv, OnAbort
  PROVE  AbortInv'
<1> DEFINE h == Head(ready)
<1>1. /\ UNCHANGED <<owner, kind, lost, c2s>> /\ ready \in Seq(ServerTask)
      /\ ready # <<>> /\ h.kind = "handle" /\ h.msg.command = "ABORT"
      /\ cancelled' = cancelled \cup {k \in abortable : body[k] # "ended"}
      /\ abortable \subseteq Calls /\ abortable' = {}
  BY DEF OnAbort, Handling, Serving, callVars, netVars, Inv, TypeOK
<1>2. h \in ServerTask /\ h.msg \notin CallRequest
  BY <1>1, ServerHead, MessageShapes
<1>. HIDE DEF h
<1>3. PICK asleep \in SUBSET Calls : asleep = {k \in abortable : body[k] = "asleep"}
  BY <1>1
<1>4. /\ \A k \in Calls : body'[k] = IF k \in asleep THEN "ready" ELSE body[k]
      /\ \A k \in asleep : body[k] = "asleep" /\ owner[k] \in Clients
  <2>1. \A k \in asleep : body[k] = "asleep"
    BY <1>3
  <2>2. \A k \in Calls : k \in Nat
    BY CallsAssumption DEF Calls
  <2>3. \A k \in Calls : body'[k] = IF k \in asleep THEN "ready" ELSE body[k]
    BY <1>3 DEF OnAbort
  <2>4. ASSUME NEW k \in asleep PROVE owner[k] \in Clients
    <3>1. k \in Calls /\ k \in Nat /\ issued \in Nat /\ body[k] = "asleep"
      BY <2>1, <2>2, CallsAssumption DEF Inv, TypeOK
    <3>. QED
      BY <3>1 DEF Inv, CallInv
  <2>. QED
    BY <2>1, <2>3, <2>4
<1> DEFINE F == [k \in asleep |-> Task("run", owner[k], CallMsg(k))]
<1>5. PICK order \in SetToSeqs(asleep) :
        ready' = Tail(ready) \o [i \in DOMAIN order |-> F[order[i]]]
  <2>1. PICK order \in SetToSeqs(asleep) :
          ready' = Tail(ready) \o
            [i \in DOMAIN order |-> Task("run", owner[order[i]], CallMsg(order[i]))]
    BY <1>3 DEF OnAbort
  <2>2. \A i \in DOMAIN order : order[i] \in asleep
    BY <2>1 DEF SetToSeqs
  <2>. QED
    BY <2>1, <2>2
<1>6. PICK xs : xs = [i \in DOMAIN order |-> F[order[i]]]
  OBVIOUS
<1>7. xs \in Seq(ServerTask) /\ \A x \in ToSet(xs) : x.kind # "handle"
  <2>1. F \in [asleep -> ServerTask] /\ \A k \in asleep : F[k].kind # "handle"
    BY <1>4, TaskTypes, TaskShapes, MessageShapes
  <2>2. \A a, b \in asleep : F[a] = F[b] => a = b
    BY TaskShapes, MessageShapes
  <2>3. IsFiniteSet(Calls)
    BY FS_Interval, CallsAssumption DEF Calls
  <2>. HIDE DEF F
  <2>4. /\ [i \in DOMAIN order |-> F[order[i]]] \in Seq(ServerTask)
        /\ \A x \in ToSet([i \in DOMAIN order |-> F[order[i]]]) : \E k \in asleep : x = F[k]
    BY <2>1, <2>2, <2>3, OnceOrder
  <2>. QED
    BY <1>6, <2>1, <2>4
<1>8. /\ InOrder'
      /\ \A d \in Clients : \A m \in Requests :
           /\ OnItsWay(d, m)' => OnItsWay(d, m)
           /\ OnItsWay(d, m) /\ Task("handle", d, m) # h => OnItsWay(d, m)'
  BY <1>1, <1>5, <1>6, <1>7, AbortQueue DEF AbortInv, h
<1>9. \A d \in Clients : \A m \in CallRequest : OnItsWay(d, m) => OnItsWay(d, m)'
  BY <1>2, <1>8, TaskShapes DEF Requests
<1>10. CoverInv'
  BY <1>1, <1>3, <1>4 DEF AbortInv, CoverInv
<1>11. \A k \in Calls : body'[k] = "none" <=> body[k] = "none"
  BY <1>4
<1>. QED
  BY <1>1, <1>8, <1>9, <1>10, <1>11, AbortQuiet DEF AbortInv

LEMMA CoverServe ==
  ASSUME Inv, CoverInv, RunBody \/ Finish \/ (\E c \in Clients : ServerArrive(c))
                          \/ \E k \in Calls : BodyWake(k)
  PROVE  CoverInv'
<1>1. CASE RunBody
  <2>1. ready # <<>> /\ Head(ready).kind = "run"
    BY <1>1 DEF RunBody, Serving
  <2>2. PICK k \in Calls : k = Head(ready).msg.call
    BY <2>1, ServerHead, TaskShapes, MessageShapes
  <2>3. body[k] = "ready" /\ body \in [Calls -> {"none", "ready", "asleep", "ended"}]
    BY <2>1, <2>2, ServerHead DEF Due, Inv, TypeOK
  <2>4. /\ abortable' = abortable
        /\ \/ k \notin cancelled /\ body' = [body EXCEPT ![k] = "asleep"] /\ cancelled' = cancelled
           \/ body' = [body EXCEPT ![k] = "ended"] /\ cancelled' = cancelled \ {k}
    BY <1>1, <2>2 DEF RunBody
  <2>. QED
    BY <2>3, <2>4 DEF CoverInv
<1>2. CASE Finish
  <2>1. ready # <<>> /\ Head(ready).kind = "finish"
    BY <1>2 DEF Finish, Serving
  <2>2. outcome[Head(ready).msg.call] # None
    BY <2>1, ServerHead DEF Due
  <2>3. /\ abortable' = abortable \ {Head(ready).msg.call}
        /\ UNCHANGED <<body, cancelled>>
    BY <1>2 DEF Finish
  <2>. QED
    BY <2>2, <2>3 DEF CoverInv, Inv, CallInv
<1>3. ASSUME NEW c \in Clients, ServerArrive(c) PROVE CoverInv'
  BY <1>3 DEF ServerArrive, serverVars, CoverInv
<1>4. ASSUME NEW k \in Calls, BodyWake(k) PROVE CoverInv'
  BY <1>4 DEF BodyWake, CoverInv, Inv, TypeOK
<1>. QED
  BY <1>1, <1>2, <1>3, <1>4

LEMMA AbortNext == Inv /\ AbortInv /\ [Next]_vars => AbortInv'
<1>. SUFFICES ASSUME Inv, AbortInv, [Next]_vars PROVE AbortInv'
  OBVIOUS
<1>1. CASE UNCHANGED vars
  BY <1>1, AbortSame DEF vars, callVars, netVars, serverVars
<1>2. CASE RunBody \/ Finish \/ (\E c \in Clients : ServerArrive(c)) \/ \E k \in Calls : BodyWake(k)
  BY <1>2, AbortServe, CoverServe DEF AbortInv
<1>3. CASE ServerListen \/ OnCall \/ OnAbort
  BY <1>3, AbortListen, AbortCall, AbortHandled
<1>4. ASSUME NEW k \in Calls, Interrupt(k) PROVE AbortInv'
  BY <1>4, AbortSame DEF Interrupt, callVars, netVars, serverVars
<1>5. ASSUME NEW c \in Clients,
             ClientListen(c) \/ DispatchReply(c) \/ ClientArrive(c)
      PROVE  AbortInv'
  BY <1>5, AbortSame DEF ClientListen, DispatchReply, ClientArrive, callVars, netVars, serverVars
<1>6. ASSUME NEW c \in Clients, WakeCaller(c) \/ Lose(c) PROVE AbortInv'
  BY <1>6, AbortWake, AbortLose
<1>7. ASSUME NEW c \in Clients, NEW kd \in Kinds, Issue(c, kd) PROVE AbortInv'
  BY <1>7, AbortIssue
<1>. QED
  BY <1>1, <1>2, <1>3, <1>4, <1>5, <1>6, <1>7 DEF Next, ServerStep, ClientStep

\* Whatever the interleaving of clients, and although on_abort cancels the
\* tasks of all of them and its message waits behind others in two queues, an
\* ABORT leaves none of the calls its sender had made before to run on, and
\* cancels none that its sender makes later.
THEOREM AbortsExactly == Spec => AbortIsExact
<1> DEFINE Exact ==
      OnAbort =>
         LET sent == Head(ready).msg.before IN
         \A k \in Calls : owner[k] = Head(ready).conn =>
             /\ k \in sent /\ body'[k] \in {"ready", "asleep"} => k \in cancelled'
             /\ k \in sent /\ kind[k] # "plain" => body'[k] # "none"
             /\ k \in cancelled' \ cancelled => k \in sent
<1>1. Inv /\ AbortInv /\ [Next]_vars => [Exact]_vars
  <2>1. SUFFICES ASSUME Inv, AbortInv, OnAbort, NEW k \in Calls, owner[k] = Head(ready).conn
                 PROVE  LET sent == Head(ready).msg.before IN
                        /\ k \in sent /\ body'[k] \in {"ready", "asleep"} => k \in cancelled'
                        /\ k \in sent /\ kind[k] # "plain" => body'[k] # "none"
                        /\ k \in cancelled' \ cancelled => k \in sent
    BY DEF Exact
  <2>2. /\ ready # <<>> /\ Head(ready).kind = "handle" /\ Head(ready).msg.command = "ABORT"
        /\ cancelled' = cancelled \cup {j \in abortable : body[j] # "ended"}
        /\ body'[k] = "none" <=> body[k] = "none"
        /\ body'[k] \in {"ready", "asleep"} <=> body[k] \in {"ready", "asleep"}
    BY <2>1 DEF OnAbort, Handling, Serving
  <2>3. PICK m \in AbortRequest, c \in Clients :
          m = Head(ready).msg /\ c = Head(ready).conn /\ Head(ready) = Task("handle", c, m)
    <3>1. Head(ready) \in ServerTask
      BY <2>1, <2>2, ServerHead
    <3>2. Head(ready).msg \in AbortRequest
      BY <2>2, <3>1, TaskShapes, MessageShapes DEF Requests
    <3>. QED
      BY <2>2, <3>1, <3>2, TaskShapes
  <2>4. Asked(c, m)
    <3>1. Task("handle", c, m) \in ToSet(ready)
      BY <2>1, <2>2, <2>3, ServerHead
    <3>. QED
      BY <2>1, <3>1 DEF AbortInv, AskedInv, OnItsWay
  <2>5. k \in m.before /\ body'[k] \in {"ready", "asleep"} => k \in cancelled'
    BY <2>1, <2>2 DEF AbortInv, CoverInv
  \* The call came before the ABORT: it is no longer on its way.
  <2>6. k \in m.before /\ kind[k] # "plain" => body'[k] # "none"
    <3>1. SUFFICES ASSUME k \in m.before, OnItsWay(c, CallMsg(k))
                   PROVE  FALSE
      BY <2>2, <2>4 DEF Asked
    <3>2. CallMsg(k) \in CallRequest /\ CallMsg(k).call = k
      BY MessageShapes
    <3>3. Fits(m, CallMsg(k))
      <4>1. CASE CallMsg(k) \in ToSet(c2s[c])
        BY <2>1, <2>2, <2>3, <4>1, ServerHead DEF AbortInv, InOrder
      <4>2. CASE Task("handle", c, CallMsg(k)) \in ToSet(ready)
        <5>1. PICK t : t = Task("handle", c, CallMsg(k))
          OBVIOUS
        <5>2. t.kind = "handle" /\ t.conn = c /\ t.msg = CallMsg(k) /\ t # Head(ready)
          BY <2>3, <3>2, <5>1, TaskShapes, MessageShapes
        <5>3. t \in ToSet(Tail(ready))
          <6>1. ready \in Seq(ServerTask)
            BY <2>1 DEF Inv, TypeOK
          <6>2. /\ Len(ready) \in Nat /\ DOMAIN ready = 1..Len(ready) /\ Head(ready) = ready[1]
                /\ DOMAIN Tail(ready) = 1..(Len(ready) - 1)
                /\ \A i \in 1..(Len(ready) - 1) : Tail(ready)[i] = ready[i + 1]
            BY <2>2, <6>1, HeadTailProperties, LenProperties
          <6>3. PICK i \in 1..Len(ready) : t = ready[i]
            BY <4>2, <5>1, <6>2 DEF ToSet
          <6>4. i - 1 \in 1..(Len(ready) - 1) /\ i = (i - 1) + 1
            BY <5>2, <6>2, <6>3
          <6>. QED
            BY <6>2, <6>3, <6>4 DEF ToSet
        <5>4. <<Head(ready), t>> \in TaskFit
          <6>1. ready \in Seq(ServerTask) /\ Ordered(ready, TaskFit)
            BY <2>1 DEF Inv, TypeOK, AbortInv, InOrder
          <6>. QED
            BY <2>2, <5>3, <6>1, OrderedHead
        <5>. QED
          BY <2>2, <2>3, <5>2, <5>4 DEF TaskFit, TaskFits
      <4>. QED
        BY <3>1, <4>1, <4>2 DEF OnItsWay
    <3>. QED
      BY <3>1, <3>2, <3>3 DEF Fits
  \* What is cancelled has been started: it was not sent later.
  <2>7. k \in cancelled' \ cancelled => k \in m.before
    <3>1. SUFFICES ASSUME k \in abortable, body[k] # "ended", k \notin m.before
                   PROVE  FALSE
      BY <2>2
    <3>2. body[k] = "none"
      BY <2>1, <2>3, <2>4, <3>1 DEF Asked
    <3>. QED
      BY <2>1, <3>1, <3>2 DEF AbortInv, CoverInv
  <2>. QED
    BY <2>3, <2>5, <2>6, <2>7
<1>2. Spec => []AbortInv
  BY AbortInit, AbortNext, Invariance, PTL DEF Spec
<1>. QED
  BY <1>1, <1>2, Invariance, PTL DEF Spec, AbortIsExact
================================================================================
