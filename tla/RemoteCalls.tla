------------------------------ MODULE RemoteCalls ------------------------------
(***************************************************************************)
(* Remote calls: a client sends the text of a function call under a        *)
(* sequence number, the server executes it in a task of its own and sends  *)
(* the result, or the error, back under the same number.  A caller that is *)
(* interrupted (cancelled, timed out) sends ABORT, on which the server     *)
(* cancels every task it executes for any client.                          *)
(*                                                                         *)
(* Server and clients are the single-threaded asyncio programs EventLoop   *)
(* describes.  A call is known by its number, which its text and its       *)
(* result stand for; functions do not catch the CancelledError of an abort.*)
(***************************************************************************)
EXTENDS EventLoop, FiniteSets

CONSTANTS
    Clients,    \* the client connections, each of a process of its own
    Losers,     \* those of them whose connection may break
    Interrupters, \* those of them whose callers may be interrupted
    Kinds,      \* the kinds of calls the clients make
    MaxCalls,   \* bound on the calls
    Modulus,    \* what sequence numbers wrap around at: 2^32 - 1 in the code
    Starts,     \* the last sequence numbers of earlier calls
    None        \* no client, no outcome

Calls == 1..MaxCalls

\* "coroutine": a coroutine function, called for its result.  "plain": a
\* function that is not a coroutine, an expression, an unknown name.
\* "oneway": a coroutine function, called without asking for a reply (a plain
\* function called so leaves no trace).
AllKinds == {"coroutine", "plain", "oneway"}

\* More calls than sequence numbers could have two pending calls share one.
ASSUME CallsAssumption ==
    /\ IsFiniteSet(Clients) /\ Losers \subseteq Clients /\ Interrupters \subseteq Clients
    /\ Kinds \subseteq AllKinds
    /\ MaxCalls \in Nat /\ Modulus \in Nat /\ Modulus > MaxCalls
    /\ Starts \subseteq 0..Modulus - 1
    /\ None \notin Nat \cup Clients \cup {"result", "raised", "aborted"}

VARIABLES
    issued,     \* number of calls made so far
    owner,      \* owner[k]: the client that made call k
    kind,       \* kind[k]: its kind
    seq,        \* seq[k]: its sequence number
    lastSeq,    \* lastSeq[c]: the client's LAST_SEQUENCE_NUMBER
    status,     \* status[k]: where the coroutine that made call k stands
    reply,      \* reply[k]: what its future was resolved with
    queue,      \* queue[c]: the client's ready queue
    c2s, s2c,   \* messages on their way
    lost,       \* connections that broke
    ready,      \* the server's ready queue
    body,       \* body[k]: the task that executes call k
    outcome,    \* outcome[k]: how the execution ended
    cancelled,  \* tasks that will find a CancelledError when they next run
    abortable   \* the calls whose tasks are in _abortable_tasks

callVars   == <<issued, owner, kind, seq, lastSeq>>
clientVars == <<status, reply, queue>>
netVars    == <<c2s, s2c, lost>>
serverVars == <<body, outcome, cancelled, abortable>>
vars == <<callVars, clientVars, netVars, ready, serverVars>>

(***************************************************************************)
(* Messages and tasks.                                                     *)
(***************************************************************************)
\* A request names its call; an ABORT carries (history) the calls its sender
\* had made when it sent it.
Request(command, k, before) == [command |-> command, call |-> k, before |-> before]
CallMsg(k)   == Request("CALL", k, {})
CallRequest  == [command : {"CALL"}, call : Calls, before : {{}}]
AbortRequest == [command : {"ABORT"}, call : {0}, before : SUBSET Calls]
Requests     == CallRequest \cup AbortRequest

Answer(s, k, how) == [seq |-> s, call |-> k, how |-> how]
Answers == [seq : 1..Modulus - 1, call : Calls, how : {"result", "raised", "aborted"}]

NoMsg == Request("NONE", 0, {})

\* The server's tasks: its listeners, request handlers, the tasks that execute
\* calls ("run") and handlers whose execution has ended ("finish").  A
\* client's "wake" is a caller whose future is done.
ServerTask == UNION {Tasks("listen", Clients, {NoMsg}), Tasks("handle", Clients, Requests),
                     Tasks("run", Clients, CallRequest),
                     Tasks("finish", Clients, CallRequest)}
ClientTask == UNION {Tasks("listen", Clients, {NoMsg}), Tasks("dispatch", Clients, Answers),
                     Tasks("wake", Clients, CallRequest)}

\* "resolved": the reply has set the future; "stopping": the coroutine has been
\* cancelled; in both it is on the ready queue.
Statuses == {"new", "sent", "waiting", "resolved", "stopping",
             "returned", "failed", "interrupted"}
NoAnswer == [seq |-> 0, call |-> 0, how |-> None]

TypeOK ==
    /\ issued \in 0..MaxCalls
    /\ owner \in [Calls -> Clients \cup {None}]
    /\ kind \in [Calls -> AllKinds \cup {None}]
    /\ seq \in [Calls -> 0..Modulus - 1]
    /\ lastSeq \in [Clients -> 0..Modulus - 1]
    /\ status \in [Calls -> Statuses]
    /\ reply \in [Calls -> Answers \cup {NoAnswer}]
    /\ queue \in [Clients -> Seq(ClientTask)]
    /\ c2s \in [Clients -> Seq(Requests)]
    /\ s2c \in [Clients -> Seq(Answers)]
    /\ lost \subseteq Clients
    /\ ready \in Seq(ServerTask)
    /\ body \in [Calls -> {"none", "ready", "asleep", "ended"}]
    /\ outcome \in [Calls -> {None, "result", "raised", "aborted"}]
    /\ cancelled \subseteq Calls
    /\ abortable \subseteq Calls

\* The clients may have made any number of calls before.
Init ==
    /\ issued = 0
    /\ owner = [k \in Calls |-> None] /\ kind = [k \in Calls |-> None]
    /\ seq = [k \in Calls |-> 0]
    /\ lastSeq \in [Clients -> Starts]
    /\ status = [k \in Calls |-> "new"]
    /\ reply = [k \in Calls |-> NoAnswer]
    /\ queue = [c \in Clients |-> <<>>]
    /\ c2s = [c \in Clients |-> <<>>] /\ s2c = [c \in Clients |-> <<>>]
    /\ lost = {}
    /\ ready = <<>>
    /\ body = [k \in Calls |-> "none"]
    /\ outcome = [k \in Calls |-> None]
    /\ cancelled = {} /\ abortable = {}

\* What is written to a connection that broke reaches nobody.
Send(c, m)    == c2s' = IF c \in lost THEN c2s ELSE [c2s EXCEPT ![c] = Append(@, m)]
Deliver(c, m) == s2c' = IF c \in lost THEN s2c ELSE [s2c EXCEPT ![c] = Append(@, m)]

(***************************************************************************)
(* The client.                                                             *)
(***************************************************************************)
\* The mutant neither wraps around nor skips 0.
NextSequenceNumberUnbounded(last) == last + 1

\* get_next_sequence_number: 0 is skipped.
NextSequenceNumber(last) ==
    IF (last + 1) % Modulus = 0 THEN 1 ELSE (last + 1) % Modulus

\* _send_with_reply up to its await, or _send of a call that wants no reply.
Issue(c, kd) ==
    LET k == issued + 1 IN
    /\ c \notin lost
    /\ issued < MaxCalls
    /\ issued' = k
    /\ owner' = [owner EXCEPT ![k] = c]
    /\ kind' = [kind EXCEPT ![k] = kd]
    /\ IF kd = "oneway"
         THEN UNCHANGED <<lastSeq, seq>>
         ELSE /\ lastSeq' = [lastSeq EXCEPT ![c] = NextSequenceNumber(@)]
              /\ seq' = [seq EXCEPT ![k] = NextSequenceNumber(lastSeq[c])]
    /\ status' = [status EXCEPT ![k] = IF kd = "oneway" THEN "sent" ELSE "waiting"]
    /\ Send(c, CallMsg(k))
    /\ UNCHANGED <<reply, queue, s2c, lost, ready, serverVars>>

\* The caller is cancelled or its timeout expires.  The future may just have
\* been resolved: the coroutine is on the ready queue already, and finds the
\* cancellation there.
Interrupt(k) ==
    /\ status[k] \in {"waiting", "resolved"}
    /\ owner[k] \in Interrupters
    /\ status' = [status EXCEPT ![k] = "stopping"]
    /\ queue' = IF status[k] = "resolved" THEN queue
                  ELSE [queue EXCEPT ![owner[k]] =
                          Append(@, Task("wake", owner[k], CallMsg(k)))]
    /\ UNCHANGED <<callVars, reply, netVars, ready, serverVars>>

ClientArrive(c) ==
    /\ s2c[c] # <<>>
    /\ ~Listening(queue[c], c)
    /\ queue' = [queue EXCEPT ![c] = Append(@, Task("listen", c, NoMsg))]
    /\ UNCHANGED <<callVars, status, reply, netVars, ready, serverVars>>

Running(c, what) == queue[c] # <<>> /\ Head(queue[c]).kind = what

ClientListen(c) ==
    /\ Running(c, "listen")
    /\ \E n \in IF s2c[c] = <<>> THEN {0} ELSE 1..Len(s2c[c]) :
         /\ queue' = [queue EXCEPT ![c] =
                        Tail(@) \o HandleAll("dispatch", c, s2c[c], n)]
         /\ s2c' = [s2c EXCEPT ![c] = Drop(@, n)]
    /\ UNCHANGED <<callVars, status, reply, c2s, lost, ready, serverVars>>

\* The mutant takes a reply for the answer to the oldest call.
ListenersInOrder(c, s) ==
    LET pending == {k \in Calls : owner[k] = c /\ status[k] = "waiting"}
    IN {k \in pending : \A j \in pending : k <= j}

\* The futures that listen for reply-<s> on connection c and are not done.
Listeners(c, s) == {k \in Calls : owner[k] = c /\ seq[k] = s /\ status[k] = "waiting"}

\* set_response, once for each listener of the reply's number; a reply that
\* comes too late finds none.
DispatchReply(c) ==
    LET m  == Head(queue[c]).msg
        ks == Listeners(c, m.seq) IN
    /\ Running(c, "dispatch")
    /\ status' = [k \in Calls |-> IF k \in ks THEN "resolved" ELSE status[k]]
    /\ reply' = [k \in Calls |-> IF k \in ks THEN m ELSE reply[k]]
    /\ \E order \in SetToSeqs(ks) :
         queue' = [queue EXCEPT ![c] =
                     Tail(@) \o [i \in DOMAIN order |-> Task("wake", c, CallMsg(order[i]))]]
    /\ UNCHANGED <<callVars, netVars, ready, serverVars>>

\* The mutant leaves the server alone when a caller is interrupted.
WakeCallerQuietly(c) ==
    LET k == Head(queue[c]).msg.call IN
    /\ Running(c, "wake")
    /\ status' = [status EXCEPT ![k] =
                    IF @ = "stopping" THEN "interrupted"
                    ELSE IF reply[k].how = "result" THEN "returned" ELSE "failed"]
    /\ queue' = [queue EXCEPT ![c] = Tail(@)]
    /\ UNCHANGED <<callVars, reply, netVars, ready, serverVars>>

\* The mutant returns an error like any other reply.
WakeCallerUnchecked(c) ==
    LET k == Head(queue[c]).msg.call IN
    /\ Running(c, "wake")
    /\ status' = [status EXCEPT ![k] = IF @ = "stopping" THEN "interrupted" ELSE "returned"]
    /\ IF status[k] = "stopping"
         THEN Send(c, Request("ABORT", 0, {j \in Calls : owner[j] = c}))
         ELSE UNCHANGED c2s
    /\ queue' = [queue EXCEPT ![c] = Tail(@)]
    /\ UNCHANGED <<callVars, reply, s2c, lost, ready, serverVars>>

\* The coroutine that made call k goes on: with the result, with the
\* RemoteException of an error, or with the CancelledError on which
\* _abort_on_interrupt sends ABORT.
WakeCaller(c) ==
    LET k == Head(queue[c]).msg.call IN
    /\ Running(c, "wake")
    /\ status' = [status EXCEPT ![k] =
                    IF @ = "stopping" THEN "interrupted"
                    ELSE IF reply[k].how = "result" THEN "returned" ELSE "failed"]
    /\ IF status[k] = "stopping"
         THEN Send(c, Request("ABORT", 0, {j \in Calls : owner[j] = c}))
         ELSE UNCHANGED c2s
    /\ queue' = [queue EXCEPT ![c] = Tail(@)]
    /\ UNCHANGED <<callVars, reply, s2c, lost, ready, serverVars>>

\* The connection breaks: of what is on its way, only a prefix arrives.
Lose(c) ==
    /\ c \in Losers \ lost
    /\ lost' = lost \cup {c}
    /\ \E n \in 0..Len(c2s[c]) : c2s' = [c2s EXCEPT ![c] = SubSeq(@, 1, n)]
    /\ \E n \in 0..Len(s2c[c]) : s2c' = [s2c EXCEPT ![c] = SubSeq(@, 1, n)]
    /\ UNCHANGED <<callVars, clientVars, ready, serverVars>>

(***************************************************************************)
(* The server.                                                             *)
(***************************************************************************)
ServerArrive(c) ==
    /\ c2s[c] # <<>>
    /\ ~Listening(ready, c)
    /\ ready' = Append(ready, Task("listen", c, NoMsg))
    /\ UNCHANGED <<callVars, clientVars, netVars, serverVars>>

Serving(what) == ready # <<>> /\ Head(ready).kind = what
Handling(command) == Serving("handle") /\ Head(ready).msg.command = command

\* Every handler is a coroutine, on_abort too: it takes its turn.
ServerListen ==
    LET c == Head(ready).conn IN
    /\ Serving("listen")
    /\ \E n \in IF c2s[c] = <<>> THEN {0} ELSE 1..Len(c2s[c]) :
         /\ ready' = Tail(ready) \o HandleAll("handle", c, c2s[c], n)
         /\ c2s' = [c2s EXCEPT ![c] = Drop(@, n)]
    /\ UNCHANGED <<callVars, clientVars, s2c, lost, serverVars>>

\* on_func and on_cmd: a function that is no coroutine (or an error) is
\* answered at once; a coroutine gets a task, and the handler awaits it.
OnCall ==
    LET c == Head(ready).conn
        k == Head(ready).msg.call IN
    /\ Handling("CALL")
    /\ \/ /\ kind[k] = "plain"
          /\ \E how \in {"result", "raised"} :
               /\ outcome' = [outcome EXCEPT ![k] = how]
               /\ Deliver(c, Answer(seq[k], k, how))
          /\ ready' = Tail(ready)
          /\ UNCHANGED <<body, abortable>>
       \/ /\ kind[k] # "plain"
          /\ body' = [body EXCEPT ![k] = "ready"]
          /\ abortable' = abortable \cup {k}
          /\ ready' = Append(Tail(ready), Task("run", c, CallMsg(k)))
          /\ UNCHANGED <<outcome, s2c>>
    /\ UNCHANGED <<callVars, clientVars, c2s, lost, cancelled>>

\* The task of call k runs to its end or to an await that suspends it; a
\* cancelled one ends with CancelledError, before its first line if it had
\* not started.
RunBody ==
    LET c == Head(ready).conn
        k == Head(ready).msg.call IN
    /\ Serving("run")
    /\ \/ /\ k \notin cancelled
          /\ body' = [body EXCEPT ![k] = "asleep"]
          /\ ready' = Tail(ready)
          /\ UNCHANGED <<outcome, cancelled>>
       \/ /\ \E how \in IF k \in cancelled THEN {"aborted"} ELSE {"result", "raised"} :
               outcome' = [outcome EXCEPT ![k] = how]
          /\ body' = [body EXCEPT ![k] = "ended"]
          /\ cancelled' = cancelled \ {k}
          /\ ready' = Append(Tail(ready), Task("finish", c, CallMsg(k)))
    /\ UNCHANGED <<callVars, clientVars, netVars, abortable>>

\* What the function awaits has come.
BodyWake(k) ==
    /\ body[k] = "asleep"
    /\ body' = [body EXCEPT ![k] = "ready"]
    /\ ready' = Append(ready, Task("run", owner[k], CallMsg(k)))
    /\ UNCHANGED <<callVars, clientVars, netVars, outcome, cancelled, abortable>>

\* The mutant lets the CancelledError of an abort pass: it is no Exception, and
\* catch_reply_exceptions does not see it.
FinishCancelled ==
    LET c == Head(ready).conn
        k == Head(ready).msg.call IN
    /\ Serving("finish")
    /\ abortable' = abortable \ {k}
    /\ IF kind[k] = "oneway" \/ outcome[k] = "aborted" THEN UNCHANGED s2c
         ELSE Deliver(c, Answer(seq[k], k, outcome[k]))
    /\ ready' = Tail(ready)
    /\ UNCHANGED <<callVars, clientVars, c2s, lost, body, outcome, cancelled>>

\* The handler resumes: reply, or the "Function execution aborted." or other
\* error catch_reply_exceptions sends.
Finish ==
    LET c == Head(ready).conn
        k == Head(ready).msg.call IN
    /\ Serving("finish")
    /\ abortable' = abortable \ {k}
    /\ IF kind[k] = "oneway" THEN UNCHANGED s2c
         ELSE Deliver(c, Answer(seq[k], k, outcome[k]))
    /\ ready' = Tail(ready)
    /\ UNCHANGED <<callVars, clientVars, c2s, lost, body, outcome, cancelled>>

\* The mutant wakes the sleeping tasks only, so that a task not yet started
\* escapes.
OnAbortAsleep ==
    LET asleep == {k \in abortable : body[k] = "asleep"} IN
    /\ Handling("ABORT")
    /\ cancelled' = cancelled \cup asleep
    /\ body' = [k \in Calls |-> IF k \in asleep THEN "ready" ELSE body[k]]
    /\ abortable' = {}
    /\ \E order \in SetToSeqs(asleep) :
         ready' = Tail(ready)
                    \o [i \in DOMAIN order |-> Task("run", owner[order[i]], CallMsg(order[i]))]
    /\ UNCHANGED <<callVars, clientVars, netVars, outcome>>

\* Server.abort: task.cancel() of every abortable task of every client, in the
\* order the set happens to have.  It wakes a task that sleeps.
OnAbort ==
    LET asleep == {k \in abortable : body[k] = "asleep"} IN
    /\ Handling("ABORT")
    /\ cancelled' = cancelled \cup {k \in abortable : body[k] # "ended"}
    /\ body' = [k \in Calls |-> IF k \in asleep THEN "ready" ELSE body[k]]
    /\ abortable' = {}
    /\ \E order \in SetToSeqs(asleep) :
         ready' = Tail(ready)
                    \o [i \in DOMAIN order |-> Task("run", owner[order[i]], CallMsg(order[i]))]
    /\ UNCHANGED <<callVars, clientVars, netVars, outcome>>

ServerStep == ServerListen \/ OnCall \/ RunBody \/ Finish \/ OnAbort
ClientStep(c) == ClientListen(c) \/ DispatchReply(c) \/ WakeCaller(c)

Next ==
    \/ ServerStep
    \/ \E k \in Calls : Interrupt(k) \/ BodyWake(k)
    \/ \E c \in Clients :
         \/ ClientStep(c) \/ ClientArrive(c) \/ ServerArrive(c) \/ Lose(c)
         \/ \E kd \in Kinds : Issue(c, kd)

Spec == Init /\ [][Next]_vars

\* The event loops run and the network delivers.  What a function awaits need
\* not come (no fairness of BodyWake), and nobody need be interrupted.
Fairness ==
    /\ WF_vars(ServerStep)
    /\ \A c \in Clients : WF_vars(ClientStep(c)) /\ WF_vars(ServerArrive(c))
                                                 /\ WF_vars(ClientArrive(c))
FairSpec == Spec /\ Fairness

(***************************************************************************)
(* Properties.                                                             *)
(***************************************************************************)
\* The states of the abstract call: a future that is resolved or cancelled has
\* not been seen by its caller yet, and a plain function never has a task.
CallerOf(k) == IF status[k] \in {"resolved", "stopping"} THEN "waiting" ELSE status[k]
CalleeOf(k) == IF outcome[k] # None THEN outcome[k]
               ELSE IF body[k] = "none" THEN "idle" ELSE "running"
AnswerOf(k) == IF status[k] = "returned" THEN reply[k].call ELSE None

Promise == INSTANCE RemoteCall WITH
    caller <- [k \in Calls |-> CallerOf(k)],
    callee <- [k \in Calls |-> CalleeOf(k)],
    answer <- [k \in Calls |-> AnswerOf(k)]

\* Calls keep the promise of RemoteCall, although replies are matched by a
\* number that wraps around, late replies meet newer calls, futures are
\* resolved by one step and seen by another, and an abort for one call ends
\* the executions of others.
KeepsPromise == Promise!Spec

\* An ABORT stops exactly what its sender had asked for: after on_abort, no
\* call its sender made before the ABORT runs on uncancelled, and none made
\* after it is cancelled.
AbortIsExact ==
    [][OnAbort =>
         LET sent == Head(ready).msg.before IN
         \A k \in Calls : owner[k] = Head(ready).conn =>
             /\ k \in sent /\ body'[k] \in {"ready", "asleep"} => k \in cancelled'
             /\ k \in sent /\ kind[k] # "plain" => body'[k] # "none"
             /\ k \in cancelled' \ cancelled => k \in sent]_vars

\* Once the execution of a call has ended its caller is told, unless its
\* connection breaks.
AnswersArrive ==
    \A k \in Calls : outcome[k] # None /\ status[k] = "waiting"
                       ~> (status[k] # "waiting" \/ owner[k] \in lost)

\* The execution of a call whose caller was interrupted does not run on,
\* unless the connection breaks before the ABORT has arrived.
InterruptsStop ==
    \A k \in Calls : status[k] = "interrupted"
                       ~> (CalleeOf(k) \in {"result", "raised", "aborted"} \/ owner[k] \in lost)
================================================================================
