----------------------------- MODULE Subscription -----------------------------
(***************************************************************************)
(* The event streams of one client: subscribed() contexts of EventStream   *)
(* objects, the watcher counts of their property table, and the waiters    *)
(* that wait_for_update hangs on them.                                     *)
(*                                                                         *)
(* Two EventStream objects may name one property.  A context (an owner and *)
(* its stream) brings a closure, skip_first_emit_change, but only the      *)
(* context that finds its stream without a subscriber registers it.        *)
(* A coroutine that does not have to wait for an answer runs on, as in     *)
(* EventLoop, so one step of a module that uses this one may open several  *)
(* contexts and send several messages: Enter and Exit take the messages    *)
(* that follow their own.                                                  *)
(***************************************************************************)
EXTENDS Naturals, Sequences, FiniteSets, SequencesExt

CONSTANTS
    Properties,     \* the remote properties
    Streams,        \* EventStream objects
    PropertyOf(_),  \* the property a stream is about
    Owners,         \* who opens contexts, each one at a time on a stream
    None            \* no value, no owner

VARIABLES
    watchers,     \* watchers[p]: RemotePropertyTable._property_watchers
    cache,        \* cache[p]: RemotePropertyTable._table, None without an entry
    depth,        \* depth[s]: EventStream._subscriber_depth
    listening,    \* listening[s]: owners whose closure the table calls
    initialized,  \* the <<owner, stream>> whose closure has seen an event
    waiting,      \* wait_for_update futures not yet resolved
    answers,      \* replies to CHAN_READ whose reader has not resumed
    requests,     \* messages on their way to the server
    events        \* messages on their way to the client

Waiter(o, s, v) == [owner |-> o, stream |-> s, value |-> v]
Msg(command, p, o) == [command |-> command, property |-> p, by |-> o]
Event(command, p, v, o) == [command |-> command, property |-> p, value |-> v, by |-> o]

StreamTypeOK ==
    /\ watchers \in [Properties -> Nat]
    /\ cache \in [Properties -> BOOLEAN \cup {None}]
    /\ depth \in [Streams -> Nat]
    /\ listening \in [Streams -> SUBSET Owners]
    /\ initialized \subseteq Owners \X Streams
    /\ waiting \subseteq [owner : Owners, stream : Streams, value : BOOLEAN]
    /\ answers \subseteq [owner : Owners, value : BOOLEAN]

StreamInit ==
    /\ watchers = [p \in Properties |-> 0]
    /\ cache = [p \in Properties |-> None]
    /\ depth = [s \in Streams |-> 0]
    /\ listening = [s \in Streams |-> {}]
    /\ initialized = {} /\ waiting = {} /\ answers = {}
    /\ requests = <<>> /\ events = <<>>

\* The mutant counts each closure and not each context.
EnterUncounted(o, ss, more) ==
    LET opened == Range(ss)
        First(s) == depth[s] = 0
    IN /\ depth' = [s \in Streams |-> IF s \in opened THEN depth[s] + 1 ELSE depth[s]]
       /\ listening' = [s \in Streams |->
                          IF s \in opened /\ First(s) THEN listening[s] \cup {o} ELSE listening[s]]
       /\ initialized' = initialized \ ({o} \X opened)
       /\ watchers' = [p \in Properties |->
            watchers[p] + Cardinality({s \in opened : PropertyOf(s) = p /\ First(s)})]
       /\ requests' = requests \o more

\* Entering subscribed() on each of the streams ss, of different properties,
\* and going on with the messages more: the closure is new, the first
\* subscriber of the stream registers it, the first of the property sends
\* REGISTER.
Enter(o, ss, more) ==
    LET opened == Range(ss)
        registers == [i \in DOMAIN ss |-> LET p == PropertyOf(ss[i]) IN
                        IF watchers[p] = 0 THEN <<Msg("REGISTER", p, None)>> ELSE <<>>]
    IN /\ depth' = [s \in Streams |-> IF s \in opened THEN depth[s] + 1 ELSE depth[s]]
       /\ listening' = [s \in Streams |->
                          IF s \in opened /\ depth[s] = 0
                            THEN listening[s] \cup {o} ELSE listening[s]]
       /\ initialized' = initialized \ ({o} \X opened)
       /\ watchers' = [p \in Properties |->
                         watchers[p] + Cardinality({s \in opened : PropertyOf(s) = p})]
       /\ requests' = requests \o FlattenSeq(registers) \o more

\* Leaving it as the last subscriber with a closure that was never registered:
\* remove_listener raises KeyError before unsubscribe is reached.
ExitRaises(o, s) == depth[s] = 1 /\ o \notin listening[s]

\* The mutant forgets the closure but not the subscription.
ExitKeepsWatcher(o, s, more) ==
    /\ depth' = [depth EXCEPT ![s] = @ - 1]
    /\ listening' = [listening EXCEPT ![s] = IF depth[s] = 1 THEN @ \ {o} ELSE @]
    /\ requests' = requests \o more
    /\ UNCHANGED <<initialized, watchers>>

Exit(o, s, more) ==
    LET p == PropertyOf(s)
        last == IF watchers[p] = 1 THEN <<Msg("UNREGISTER", p, None)>> ELSE <<>>
    IN /\ depth' = [depth EXCEPT ![s] = @ - 1]
       /\ IF ExitRaises(o, s)
            THEN /\ requests' = requests \o more
                 /\ UNCHANGED <<listening, watchers>>
            ELSE /\ listening' = [listening EXCEPT
                                    ![s] = IF depth[s] = 1 THEN @ \ {o} ELSE @]
                 /\ watchers' = [watchers EXCEPT ![p] = @ - 1]
                 /\ requests' = requests \o last \o more
       /\ UNCHANGED initialized

\* wait_for_update: a listener of the stream's own "update" events.
Expect(o, ss, v) == waiting' = waiting \cup {Waiter(o, s, v) : s \in Range(ss)}
Expects(o, s) == \E w \in waiting : w.owner = o /\ w.stream = s
GiveUp(o, s)  == waiting' = {w \in waiting : ~(w.owner = o /\ w.stream = s)}

\* The mutant does not skip the first event.
UpdatingAtOnce(p) == {s \in Streams : PropertyOf(s) = p /\ listening[s] # {}}

\* Which streams turn an event of p into an "update": those with a registered
\* closure that has seen an event before.
Updating(p) == {s \in Streams : /\ PropertyOf(s) = p
                                /\ \E o \in listening[s] : <<o, s>> \in initialized}

\* _on_property_update: the cache, then the listeners.
OnPropertyUpdate ==
    LET p == Head(events).property
        v == Head(events).value
    IN /\ events # <<>> /\ Head(events).command = "EVENT"
       /\ cache' = [cache EXCEPT ![p] = v]
       /\ initialized' = initialized \cup
            UNION {{<<o, s>> : o \in listening[s]} : s \in {s \in Streams : PropertyOf(s) = p}}
       /\ waiting' = {w \in waiting : ~(w.stream \in Updating(p) /\ w.value = v)}
       /\ events' = Tail(events)
       /\ UNCHANGED <<watchers, depth, listening, answers, requests>>

\* A REPLY resolves the future of the coroutine that reads.
OnReply ==
    /\ events # <<>> /\ Head(events).command = "REPLY"
    /\ answers' = answers \cup {[owner |-> Head(events).by, value |-> Head(events).value]}
    /\ events' = Tail(events)
    /\ UNCHANGED <<watchers, cache, depth, listening, initialized, waiting, requests>>
===============================================================================
