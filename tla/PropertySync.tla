------------------------------ MODULE PropertySync ------------------------------
(***************************************************************************)
(* Remote properties of a SPEC server: the server holds one value per      *)
(* property and pushes every change to the clients that registered, each   *)
(* client keeps a cache of what it was told.                               *)
(*                                                                         *)
(* Server and clients are the single-threaded asyncio programs EventLoop   *)
(* describes.                                                              *)
(*                                                                         *)
(* Values are the numbers of the writes that produced them (0 is the value *)
(* a property starts with), so two values are equal only when they come    *)
(* from the same write.  Associative arrays, which merge in the cache, are *)
(* not in this module.                                                     *)
(***************************************************************************)
EXTENDS EventLoop, FiniteSets

CONSTANTS
    Clients,    \* the client connections
    Names,      \* property names the clients use
    Served,     \* those of them the server defines
    Readers,    \* sequence numbers of reads: one read in flight for each
    Closers,    \* the clients that may close their connection
    Refused,    \* writes whose value the property's dtype refuses
    MaxWrites,  \* bound on writes, by clients and by the server program
    MaxOps,     \* bound on the other calls the clients make
    None,       \* no value: Python's None, an absent table entry, no peer
    Error       \* the ErrorStr a reply carries for an unknown property

ASSUME SyncAssumption ==
    /\ IsFiniteSet(Clients) /\ Closers \subseteq Clients
    /\ Served \subseteq Names
    /\ Readers \subseteq Nat \ {0}
    /\ MaxWrites \in Nat /\ MaxOps \in Nat /\ Refused \subseteq 1..MaxWrites
    /\ None \notin Nat /\ Error \notin Nat /\ None \notin Names

VARIABLES
    value,      \* value[n]: Property._value of each served property
    listeners,  \* listeners[n]: the connections in _property_listeners[n]
    ready,      \* the server's ready queue
    gone,       \* connections whose writer the server has closed
    c2s,        \* c2s[c]: messages on their way to the server
    s2c,        \* s2c[c]: messages on their way to the client
    watchers,   \* watchers[c][n]: the client's _property_watchers
    table,      \* table[c][n]: the client's cache, None when there is no entry
    queue,      \* queue[c]: the client's ready queue
    calls,      \* calls[c][r]: what a suspended read still has to do
    closed,     \* clients that have closed their connection
    hist,       \* history: the values property n has had, in order
    seen,       \* history: the last value emitted as property-<n>
    result,     \* history: the last read that returned, and what it had to reflect
    wrote,      \* history: each client's last acceptable write
    writes, ops \* the bounded counters

serverVars == <<value, listeners, ready, gone>>
clientVars == <<watchers, table, queue, calls, closed>>
history    == <<seen, result, wrote>>
vars == <<serverVars, c2s, s2c, clientVars, hist, history, writes, ops>>

(***************************************************************************)
(* Messages and tasks.                                                     *)
(***************************************************************************)
Writes == 0..MaxWrites
WatchCommands == {"REGISTER", "UNREGISTER"}

Msg(command, n, d, r) == [command |-> command, name |-> n, data |-> d, seq |-> r]
Shape(commands, names, data, seqs) ==
    [command : commands, name : names, data : data, seq : seqs]

NoMsg        == Msg("NONE", None, None, 0)
EventMessage == Shape({"EVENT"}, Served, Writes, {0})
ReplyMessage == Shape({"REPLY"}, {None}, Writes \cup {Error}, Readers)
FromServer   == EventMessage \cup ReplyMessage
FromClient   == UNION {Shape(WatchCommands, Names, {None}, {0}),
                       Shape({"CHAN_SEND"}, Names, Writes, {0}),
                       Shape({"CHAN_READ"}, Names, {None}, Readers),
                       Shape({"CLOSE"}, {None}, {None}, {0})}

\* "listen" steps a connection's listener, "handle" runs a request handler,
\* "broadcast" is broadcast_all(value) and "send" one of its prop_send tasks;
\* a client's "dispatch" is the task of a received message, and "wake" the
\* coroutine whose reply has come.
ServerTask == UNION {Tasks("listen", Clients, {NoMsg}), Tasks("handle", Clients, FromClient),
                     Tasks("broadcast", {None}, EventMessage),
                     Tasks("send", Clients, EventMessage)}
ClientTask == UNION {Tasks("listen", Clients, {NoMsg}), Tasks("dispatch", Clients, FromServer),
                     Tasks("wake", Clients, ReplyMessage)}

\* Without a read in flight, and with one: the name, whether the result goes
\* to the cache, and (history) the length of hist[n] and the last write of the
\* same client when the read was called.
Idle == [name |-> None, cached |-> FALSE, since |-> 0, after |-> 0]
Call == [name : Names \cup {None}, cached : BOOLEAN, since : Nat, after : Writes]
NoResult == [call |-> Idle, val |-> None]

TypeOK ==
    /\ value \in [Served -> Writes]
    /\ listeners \in [Names -> SUBSET Clients]
    /\ ready \in Seq(ServerTask)
    /\ gone \subseteq Clients
    /\ c2s \in [Clients -> Seq(FromClient)]
    /\ s2c \in [Clients -> Seq(FromServer)]
    /\ watchers \in [Clients -> [Names -> Nat]]
    /\ table \in [Clients -> [Names -> Writes \cup {None}]]
    /\ queue \in [Clients -> Seq(ClientTask)]
    /\ calls \in [Clients -> [Readers -> Call]]
    /\ closed \subseteq Clients
    /\ hist \in [Served -> Seq(Writes)]
    /\ seen \in [Clients -> [Names -> Writes \cup {None}]]
    /\ result \in [Clients -> [Readers -> [call : Call, val : Writes \cup {None, Error}]]]
    /\ wrote \in [Clients -> [Names -> Writes]]
    /\ writes \in 0..MaxWrites
    /\ ops \in 0..MaxOps

Init ==
    /\ value = [n \in Served |-> 0]
    /\ listeners = [n \in Names |-> {}]
    /\ ready = <<>> /\ gone = {}
    /\ c2s = [c \in Clients |-> <<>>] /\ s2c = [c \in Clients |-> <<>>]
    /\ watchers = [c \in Clients |-> [n \in Names |-> 0]]
    /\ table = [c \in Clients |-> [n \in Names |-> None]]
    /\ queue = [c \in Clients |-> <<>>]
    /\ calls = [c \in Clients |-> [r \in Readers |-> Idle]]
    /\ closed = {}
    /\ hist = [n \in Served |-> <<0>>]
    /\ seen = [c \in Clients |-> [n \in Names |-> None]]
    /\ result = [c \in Clients |-> [r \in Readers |-> NoResult]]
    /\ wrote = [c \in Clients |-> [n \in Names |-> 0]]
    /\ writes = 0 /\ ops = 0

Request(c, m) == c2s' = [c2s EXCEPT ![c] = Append(@, m)]

\* What the server writes to a connection whose peer is gone reaches nobody.
Deliver(c, m) == s2c' = IF c \in closed THEN s2c ELSE [s2c EXCEPT ![c] = Append(@, m)]

(***************************************************************************)
(* The client: calls of the user's coroutines.  A coroutine runs from one  *)
(* await to the next between two entries of its ready queue, and none of   *)
(* these calls awaits anything but the reply of a read.                    *)
(***************************************************************************)
Subscribed(c, n) == watchers[c][n] > 0

UserCall(c) ==
    /\ c \notin closed
    /\ ops < MaxOps
    /\ ops' = ops + 1

Subscribe(c, n) ==
    /\ UserCall(c)
    /\ watchers' = [watchers EXCEPT ![c][n] = @ + 1]
    /\ IF watchers[c][n] = 0
         THEN Request(c, Msg("REGISTER", n, None, 0))
         ELSE UNCHANGED c2s
    /\ UNCHANGED <<serverVars, s2c, table, queue, calls, closed, hist, history, writes>>

\* The mutant forgets that other subscriptions of the client may remain.
UnsubscribeAlways(c, n) ==
    /\ UserCall(c)
    /\ Subscribed(c, n)
    /\ watchers' = [watchers EXCEPT ![c][n] = @ - 1]
    /\ Request(c, Msg("UNREGISTER", n, None, 0))
    /\ UNCHANGED <<serverVars, s2c, table, queue, calls, closed, hist, history, writes>>

\* The mutant lacks the membership test of _decrement_watcher.
UnsubscribeUnchecked(c, n) ==
    /\ UserCall(c)
    /\ watchers' = [watchers EXCEPT ![c][n] = @ - 1]
    /\ UNCHANGED <<serverVars, c2s, s2c, table, queue, calls, closed, hist, history, writes>>

\* The cache keeps its entry.  Without a subscription the call does nothing.
Unsubscribe(c, n) ==
    /\ UserCall(c)
    /\ Subscribed(c, n)
    /\ watchers' = [watchers EXCEPT ![c][n] = @ - 1]
    /\ IF watchers[c][n] = 1
         THEN Request(c, Msg("UNREGISTER", n, None, 0))
         ELSE UNCHANGED c2s
    /\ UNCHANGED <<serverVars, s2c, table, queue, calls, closed, hist, history, writes>>

\* write() updates the cache, subscribed or not, before it sends the value.
Write(c, n) ==
    /\ c \notin closed
    /\ writes < MaxWrites
    /\ writes' = writes + 1
    /\ table' = [table EXCEPT ![c][n] = writes + 1]
    /\ wrote' = IF writes + 1 \in Refused \/ n \notin Served
                  THEN wrote ELSE [wrote EXCEPT ![c][n] = writes + 1]
    /\ Request(c, Msg("CHAN_SEND", n, writes + 1, 0))
    /\ UNCHANGED <<serverVars, s2c, watchers, queue, calls, closed, hist, seen, result, ops>>

\* What get() returns without asking the server, None if it has to ask.
Cached(c, n) == IF Subscribed(c, n) THEN table[c][n] ELSE None

\* read() that finds nothing in the cache: it sends CHAN_READ and suspends.
\* A read the cache answers changes no state.
Read(c, n, r) ==
    /\ UserCall(c)
    /\ calls[c][r] = Idle
    /\ Cached(c, n) = None
    /\ calls' = [calls EXCEPT ![c][r] =
                   [name |-> n, cached |-> Subscribed(c, n),
                    since |-> IF n \in Served THEN Len(hist[n]) ELSE 0,
                    after |-> wrote[c][n]]]
    /\ Request(c, Msg("CHAN_READ", n, None, r))
    /\ UNCHANGED <<serverVars, s2c, watchers, table, queue, closed, hist, history, writes>>

\* ClientConnection.__aexit__: the listener is cancelled, CLOSE is sent and
\* the socket closed; bytes still on their way to the client are lost.
Close(c) ==
    /\ UserCall(c)
    /\ c \in Closers
    /\ closed' = closed \cup {c}
    /\ Request(c, Msg("CLOSE", None, None, 0))
    /\ s2c' = [s2c EXCEPT ![c] = <<>>]
    /\ UNCHANGED <<serverVars, watchers, table, queue, calls, hist, history, writes>>

(***************************************************************************)
(* The client's event loop.                                                *)
(***************************************************************************)
ClientArrive(c) ==
    /\ s2c[c] # <<>>
    /\ ~Listening(queue[c], c)
    /\ queue' = [queue EXCEPT ![c] = Append(@, Task("listen", c, NoMsg))]
    /\ UNCHANGED <<serverVars, c2s, s2c, watchers, table, calls, closed, hist, history,
                   writes, ops>>

Running(c, kind) == queue[c] # <<>> /\ Head(queue[c]).kind = kind

\* The listener consumes what has arrived: any number of the messages in
\* the channel, none when it was cancelled in the meantime.
ClientListen(c) ==
    /\ Running(c, "listen")
    /\ \E k \in IF s2c[c] = <<>> THEN {0} ELSE 1..Len(s2c[c]) :
         /\ queue' = [queue EXCEPT ![c] =
                        Tail(@) \o HandleAll("dispatch", c, s2c[c], k)]
         /\ s2c' = [s2c EXCEPT ![c] = Drop(@, k)]
    /\ UNCHANGED <<serverVars, c2s, watchers, table, calls, closed, hist, history,
                   writes, ops>>

\* The mutant keeps a value the cache already has.
DispatchEventOnce(c) ==
    LET m == Head(queue[c]).msg IN
    /\ Running(c, "dispatch") /\ m.command = "EVENT"
    /\ table' = IF table[c][m.name] = None
                  THEN [table EXCEPT ![c][m.name] = m.data] ELSE table
    /\ seen' = [seen EXCEPT ![c][m.name] = m.data]
    /\ queue' = [queue EXCEPT ![c] = Tail(@)]
    /\ UNCHANGED <<serverVars, c2s, s2c, watchers, calls, closed, hist, result, wrote,
                   writes, ops>>

\* _dispatch_typed_message_events of an EVENT: the cache, then the listeners.
DispatchEvent(c) ==
    LET m == Head(queue[c]).msg IN
    /\ Running(c, "dispatch") /\ m.command = "EVENT"
    /\ table' = [table EXCEPT ![c][m.name] = m.data]
    /\ seen' = [seen EXCEPT ![c][m.name] = m.data]
    /\ queue' = [queue EXCEPT ![c] = Tail(@)]
    /\ UNCHANGED <<serverVars, c2s, s2c, watchers, calls, closed, hist, result, wrote,
                   writes, ops>>

\* Of a REPLY: set_response resolves the future, and the coroutine that
\* awaits it becomes ready at the tail of the queue.
DispatchReply(c) ==
    LET m == Head(queue[c]).msg IN
    /\ Running(c, "dispatch") /\ m.command = "REPLY"
    /\ queue' = [queue EXCEPT ![c] = Append(Tail(@), Task("wake", c, m))]
    /\ UNCHANGED <<serverVars, c2s, s2c, watchers, table, calls, closed, hist, history,
                   writes, ops>>

\* The mutant returns the table's entry, whoever put it there and when.
WakeReadFromTable(c) ==
    LET m    == Head(queue[c]).msg
        call == calls[c][m.seq] IN
    /\ Running(c, "wake")
    /\ table' = IF table[c][call.name] = None /\ m.data # Error
                  THEN [table EXCEPT ![c][call.name] = m.data] ELSE table
    /\ result' = [result EXCEPT ![c][m.seq] = [call |-> call, val |-> table'[c][call.name]]]
    /\ calls' = [calls EXCEPT ![c][m.seq] = Idle]
    /\ queue' = [queue EXCEPT ![c] = Tail(@)]
    /\ UNCHANGED <<serverVars, c2s, s2c, watchers, closed, hist, seen, wrote, writes, ops>>

\* The suspended read goes on: a value (an error is raised instead) goes to
\* the cache if the client was subscribed when read() was called.
WakeRead(c) ==
    LET m    == Head(queue[c]).msg
        call == calls[c][m.seq] IN
    /\ Running(c, "wake")
    /\ table' = IF call.cached /\ m.data # Error
                  THEN [table EXCEPT ![c][call.name] = m.data] ELSE table
    /\ result' = [result EXCEPT ![c][m.seq] = [call |-> call, val |-> m.data]]
    /\ calls' = [calls EXCEPT ![c][m.seq] = Idle]
    /\ queue' = [queue EXCEPT ![c] = Tail(@)]
    /\ UNCHANGED <<serverVars, c2s, s2c, watchers, closed, hist, seen, wrote, writes, ops>>

(***************************************************************************)
(* The server's event loop.                                                *)
(***************************************************************************)
ServerArrive(c) ==
    /\ c2s[c] # <<>>
    /\ ~Listening(ready, c)
    /\ ready' = Append(ready, Task("listen", c, NoMsg))
    /\ UNCHANGED <<value, listeners, gone, c2s, s2c, clientVars, hist, history, writes, ops>>

Serving(kind) == ready # <<>> /\ Head(ready).kind = kind
Handling(command) == Serving("handle") /\ Head(ready).msg.command = command

\* The listener's dispatch puts one handler per message at the tail, except
\* that on_close is not a coroutine and closes the writer at once.
ServerListen ==
    LET c == Head(ready).conn IN
    /\ Serving("listen")
    /\ \E k \in 1..Len(c2s[c]) :
         LET close == c2s[c][k].command = "CLOSE" IN
         /\ ready' = Tail(ready)
                       \o HandleAll("handle", c, c2s[c], IF close THEN k - 1 ELSE k)
         /\ gone' = IF close THEN gone \cup {c} ELSE gone
         /\ c2s' = [c2s EXCEPT ![c] = Drop(@, k)]
    /\ UNCHANGED <<value, listeners, s2c, clientVars, hist, history, writes, ops>>

\* The mutant assigns and emits nothing.
AssignSilently(n, v, rest) ==
    /\ ready' = rest
    /\ IF v \in Refused
         THEN UNCHANGED <<value, hist>>
         ELSE /\ value' = [value EXCEPT ![n] = v]
              /\ hist' = [hist EXCEPT ![n] = Append(@, v)]

\* Property.set on behalf of the task at the head of the queue (rest is what
\* follows it) or of the server's own program (rest is the whole queue): a
\* refused value raises TypeError, an accepted one creates a broadcast task.
Assign(n, v, rest) ==
    IF v \in Refused
      THEN ready' = rest /\ UNCHANGED <<value, hist>>
      ELSE /\ value' = [value EXCEPT ![n] = v]
           /\ hist' = [hist EXCEPT ![n] = Append(@, v)]
           /\ ready' = Append(rest, Task("broadcast", None, Msg("EVENT", n, v, 0)))

ServerSet(n) ==
    /\ writes < MaxWrites
    /\ writes' = writes + 1
    /\ Assign(n, writes + 1, ready)
    /\ UNCHANGED <<listeners, gone, c2s, s2c, clientVars, history, ops>>

OnPropertySet ==
    LET m == Head(ready).msg IN
    /\ Handling("CHAN_SEND")
    /\ IF m.name \in Served
         THEN Assign(m.name, m.data, Tail(ready))
         ELSE ready' = Tail(ready) /\ UNCHANGED <<value, hist>>
    /\ UNCHANGED <<listeners, gone, c2s, s2c, clientVars, history, writes, ops>>

\* The mutant lets the exception of an unknown name end the handler.
OnPropertyGetUncaught ==
    LET c == Head(ready).conn
        m == Head(ready).msg IN
    /\ Handling("CHAN_READ")
    /\ IF m.name \in Served
         THEN Deliver(c, Msg("REPLY", None, value[m.name], m.seq)) ELSE UNCHANGED s2c
    /\ ready' = Tail(ready)
    /\ UNCHANGED <<value, listeners, gone, c2s, clientVars, hist, history, writes, ops>>

OnPropertyGet ==
    LET c == Head(ready).conn
        m == Head(ready).msg IN
    /\ Handling("CHAN_READ")
    /\ Deliver(c, Msg("REPLY", None, IF m.name \in Served THEN value[m.name] ELSE Error,
                      m.seq))
    /\ ready' = Tail(ready)
    /\ UNCHANGED <<value, listeners, gone, c2s, clientVars, hist, history, writes, ops>>

\* The mutant sends what the property started with.
OnPropertyWatchInitial ==
    LET c == Head(ready).conn
        n == Head(ready).msg.name IN
    /\ Handling("REGISTER")
    /\ listeners' = [listeners EXCEPT ![n] = @ \cup {c}]
    /\ IF n \in Served THEN Deliver(c, Msg("EVENT", n, 0, 0)) ELSE UNCHANGED s2c
    /\ ready' = Tail(ready)
    /\ UNCHANGED <<value, gone, c2s, clientVars, hist, history, writes, ops>>

\* The connection is registered whether the property exists or not, and the
\* current value is sent at once, ahead of the broadcasts still queued.
OnPropertyWatch ==
    LET c == Head(ready).conn
        n == Head(ready).msg.name IN
    /\ Handling("REGISTER")
    /\ listeners' = [listeners EXCEPT ![n] = @ \cup {c}]
    /\ IF n \in Served THEN Deliver(c, Msg("EVENT", n, value[n], 0)) ELSE UNCHANGED s2c
    /\ ready' = Tail(ready)
    /\ UNCHANGED <<value, gone, c2s, clientVars, hist, history, writes, ops>>

OnPropertyUnwatch ==
    LET c == Head(ready).conn
        n == Head(ready).msg.name IN
    /\ Handling("UNREGISTER")
    /\ listeners' = [listeners EXCEPT ![n] = @ \ {c}]
    /\ ready' = Tail(ready)
    /\ UNCHANGED <<value, gone, c2s, s2c, clientVars, hist, history, writes, ops>>

\* broadcast_property reads the listeners when its task runs; gather makes a
\* task of each prop_send, in the order the set happens to have.
Broadcast ==
    LET m == Head(ready).msg IN
    /\ Serving("broadcast")
    /\ \E order \in SetToSeqs(listeners[m.name]) :
         ready' = Tail(ready) \o [i \in DOMAIN order |-> Task("send", order[i], m)]
    /\ UNCHANGED <<value, listeners, gone, c2s, s2c, clientVars, hist, history, writes, ops>>

\* On a closed writer prop_send raises ConnectionResetError: that fails the
\* broadcast task, and none of its other sends.
PropSend ==
    /\ Serving("send")
    /\ Deliver(Head(ready).conn, Head(ready).msg)
    /\ ready' = Tail(ready)
    /\ UNCHANGED <<value, listeners, gone, c2s, clientVars, hist, history, writes, ops>>

ServerStep == ServerListen \/ OnPropertySet \/ OnPropertyGet \/ OnPropertyWatch
                \/ OnPropertyUnwatch \/ Broadcast \/ PropSend
ClientStep(c) == ClientListen(c) \/ DispatchEvent(c) \/ DispatchReply(c) \/ WakeRead(c)
Arrive(c) == ServerArrive(c) \/ ClientArrive(c)

Next ==
    \/ ServerStep
    \/ \E n \in Served : ServerSet(n)
    \/ \E c \in Clients :
         \/ ClientStep(c) \/ Arrive(c) \/ Close(c)
         \/ \E n \in Names : Subscribe(c, n) \/ Unsubscribe(c, n) \/ Write(c, n)
         \/ \E n \in Names, r \in Readers : Read(c, n, r)

Spec == Init /\ [][Next]_vars

\* Both programs keep running their event loops and the network delivers what
\* was written; what users do is not promised.
Fairness ==
    /\ WF_vars(ServerStep)
    /\ \A c \in Clients : WF_vars(ClientStep(c)) /\ WF_vars(ServerArrive(c))
                                                 /\ WF_vars(ClientArrive(c))
FairSpec == Spec /\ Fairness

(***************************************************************************)
(* Properties.                                                             *)
(***************************************************************************)
WatchMsg(m, n) == m.command \in WatchCommands /\ m.name = n
WatchTask(t, c, n) == t.kind = "handle" /\ t.conn = c /\ WatchMsg(t.msg, n)

NoWatchMsg(chan, n)  == \A i \in 1..Len(chan) : ~WatchMsg(chan[i], n)
NoWatchTask(q, c, n) == \A i \in 1..Len(q) : ~WatchTask(q[i], c, n)

\* The registration the server ends up with once it has handled all that
\* client c sent about n is sub: the last command in the channel says so, or
\* else the last one in the ready queue, or else the listener table (reg).
ChannelAgrees(chan, sub, n) ==
    \A i \in 1..Len(chan) :
        /\ WatchMsg(chan[i], n)
        /\ \A j \in 1..Len(chan) : j > i => ~WatchMsg(chan[j], n)
        => (chan[i].command = "REGISTER" <=> sub)
ReadyAgrees(q, sub, c, n) ==
    \A i \in 1..Len(q) :
        /\ WatchTask(q[i], c, n)
        /\ \A j \in 1..Len(q) : j > i => ~WatchTask(q[j], c, n)
        => (q[i].msg.command = "REGISTER" <=> sub)
Agree(chan, q, reg, sub, c, n) ==
    /\ ChannelAgrees(chan, sub, n)
    /\ NoWatchMsg(chan, n) => ReadyAgrees(q, sub, c, n)
    /\ NoWatchMsg(chan, n) /\ NoWatchTask(q, c, n) => (reg <=> sub)

\* The client's subscription count and the server's listener table never
\* drift apart, whatever is still in flight between them: _increment_watcher
\* and _decrement_watcher send REGISTER and UNREGISTER in the order of the
\* counts, and nothing between them and the table reorders the two.
WatchAgreement ==
    \A c \in Clients, n \in Names :
        Agree(c2s[c], ready, c \in listeners[n], Subscribed(c, n), c, n)

\* The last event of n that client c has been sent or will be sent, from the
\* broadcasts not yet run back to the last event the client emitted.
LastOf(s, P(_)) == s[CHOOSE i \in DOMAIN s : P(s[i]) /\ \A j \in DOMAIN s : j > i => ~P(s[j])]
Occurs(s, P(_)) == \E i \in DOMAIN s : P(s[i])
LastEvent(c, n) ==
    LET IsBroadcast(t) == t.kind = "broadcast" /\ t.msg.name = n
        IsSend(t)      == t.kind = "send" /\ t.conn = c /\ t.msg.name = n
        IsEvent(m)     == m.command = "EVENT" /\ m.name = n
        IsDispatch(t)  == t.kind = "dispatch" /\ IsEvent(t.msg)
    IN CASE Occurs(ready, IsBroadcast)    -> LastOf(ready, IsBroadcast).msg.data
         [] ~Occurs(ready, IsBroadcast) /\ Occurs(ready, IsSend)
                                          -> LastOf(ready, IsSend).msg.data
         [] OTHER -> IF Occurs(s2c[c], IsEvent) THEN LastOf(s2c[c], IsEvent).data
                     ELSE IF Occurs(queue[c], IsDispatch)
                            THEN LastOf(queue[c], IsDispatch).msg.data
                            ELSE seen[c][n]

\* A registered client is never left behind: although the current value sent
\* by on_property_watch overtakes queued broadcasts and although prop_send
\* tasks outlive an unregistration, the last event on its way to a registered
\* client always carries the value the property has.
EventsConverge ==
    \A n \in Served : \A c \in listeners[n] \ closed : LastEvent(c, n) = value[n]

\* Nothing is in flight and no task is ready.
Quiescent ==
    /\ ready = <<>>
    /\ \A c \in Clients : /\ c2s[c] = <<>> /\ s2c[c] = <<>> /\ queue[c] = <<>>

\* When everything has settled, the value get() takes from the cache of a
\* subscribed client is the value the server has.
GetReturnsServerValue ==
    Quiescent => \A c \in Clients \ closed, n \in Served :
                     Cached(c, n) # None => Cached(c, n) = value[n]

\* A read that goes to the server returns a value no older than the one the
\* property had when get() was called, and no older than any write the same
\* client made before it: CHAN_SEND and CHAN_READ are handled in order.
ReadsAreFresh ==
    \A c \in Clients, r \in Readers :
        LET done == result[c][r]
            n    == done.call.name IN
        done.val \in Writes =>
            /\ n \in Served
            /\ \E i, j \in DOMAIN hist[n] :
                 /\ hist[n][i] = done.call.after
                 /\ hist[n][j] = done.val
                 /\ i <= j /\ done.call.since <= j

\* No broadcast addresses a connection the server has closed.
BroadcastsReachConnected ==
    [][\A c \in gone : \A i \in DOMAIN ready' :
          ready'[i].kind = "send" /\ ready'[i].conn = c =>
              \E j \in DOMAIN ready : ready[j] = ready'[i]]_vars

\* A client that stays connected has every read answered.
ReadsReturn ==
    \A c \in Clients, r \in Readers : calls[c][r] # Idle ~> (calls[c][r] = Idle \/ c \in closed)

\* After the last write every client that stays subscribed has been told of it.
SubscribersCatchUp ==
    \A c \in Clients, n \in Served :
        []<>(Subscribed(c, n) /\ c \notin closed => seen[c][n] = value[n])
================================================================================
