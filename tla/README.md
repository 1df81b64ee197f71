# TLA+ models of pyspec

`pyspec` lets Python programs talk to SPEC, the instrument control program: a
client and a server of SPEC's socket protocol (asyncio), readers and writers of
its data files, and bindings to its shared memory. This directory holds
specifications of its behaviour in TLA+, the configurations that check them
with TLC, and proofs checked with TLAPS. Paths below are relative to
`src/pyspec/`.

## The system

| Component | State | Operations | Hard behaviour |
|---|---|---|---|
| Server properties: `server/_remote_property.py`, `server/server.py` | `Property._value`, `_property_listeners`, the event loop's queue of tasks | `Property.set`, `on_property_get/set/watch/unwatch`, `broadcast_property` | a change, its broadcast, each send and a registration are separate tasks |
| Client property table: `client/_remote_property_table.py` | `_table` (cache), `_property_watchers` | `read`, `write`, `subscribe`, `unsubscribe`, event dispatch | the cache is written by three parties, one of them after an await |
| Client connection: `_connection/client_connection.py` | sequence number, pending futures, listener task | `_send_with_reply`, remote calls, `abort`, `hello`, enter and exit | timeouts and cancellation race replies; numbers wrap around |
| Server calls: `server/server.py`, `server/_remote_function.py` | `_abortable_tasks`, tasks of running functions | `execute_command`, `execute_function`, `abort` | calls run concurrently; an abort kills the tasks of every client |
| Framing: `_connection/connection.py`, `protocol.py` | stream reader and writer, peer endianness | `_send`, `_listen`, `message_stream`, `serialize` | a message is two writes; versions and byte order are guessed |
| Data: `_connection/data.py`, `associative_array.py`, `_spec_syntax.py` | none | conversions, merge of updates, evaluation of expressions | round trips that lose something |
| Event streams: `client/_remote_property_table.py` | listeners of `EventStream`, `_subscriber_depth` | `subscribed`, `capture`, `wait_for_update`, `wait_until` | the first event is taken for an echo; nested and overlapping contexts |
| Motors: `client/_motor.py` | `_SYNCHRONIZING_MOTORS`, `_PENDING_MOTIONS` | `move`, `start_move`, `search`, `synchronized_motors` | several messages make one move; failure in between |
| Client facade: `client/client.py`, `_status.py` | none of its own | factories | none |
| Life cycle: `IndexedSingleton`, `Singleton`, `__aenter__/__aexit__` | one live instance per key | connect, close, dispose | re-initialised instances, failed enter |
| Files: `file/spec.py`, `file/hdf5.py`, `file/h5datasets.py`, `file/hamamatsu.py` | index of scans and last position; image counts over several files | `update`, `save_img`, `get_image` | a file that grows, a process that stops half-way |
| Shared memory: `shared_memory/sps.c`, `datashm_py.c` | handles, table of SPEC processes and arrays, segments of other processes | attach, copy, `SPS_IsUpdated`, create, clean up | segments come and go while they are used |

Client and server are each one event loop, so there are no threads; what
interleaves are tasks, and the two processes. They interact by messages only:
REGISTER, UNREGISTER, CHAN_READ, CHAN_SEND, CMD, FUNC, ABORT, HELLO and CLOSE
one way, EVENT, REPLY and HELLO_REPLY the other. Inside a process components
call each other, or emit events: a handler that is a coroutine becomes a task of
its own, a plain one runs at once. Nothing is persisted by client and server;
the file writers persist and recover nothing.

What makes each component correct:

* properties: every client that stays subscribed ends up with the server's
  value; what `get()` returns is never older than it may be; a subscription lives
  exactly as long as somebody holds it;
* calls: the caller gets the outcome of its own call, once, and a call that is
  interrupted does not run on;
* framing: a message arrives whole, and a connection ends only for what was sent on it;
* event streams: an update is reported once to those who subscribed before it;
* motors: an error leaves neither the server collecting moves nor the client
  believing it does;
* files: an index of a growing file equals the index of the whole file; image
  counts agree with the images;
* shared memory: an update is noticed, a segment that is gone is let go.

`PROJECT.json` lists the components, the hazards at their lines, the runs, and
for each definition the code it stands for.

## Modules

| Module | Models | Runs |
|---|---|---|
| `EventLoop` | the ready queue of an asyncio program and the listener of a connection; operators only | |
| `PropertySync` | server properties, the client table and the messages between them | `PropertyEvents`, `PropertyReads`, `StaleRead`, `ClosedBroadcast` |
| `EventLoopProofs` | lemmas about queues and channels | |
| `SequenceLemmas` | lemmas about folds, concatenations and paths, by induction | |
| `PropertySyncProofs`, `PropertyReadProofs` | theorems about `PropertySync` | |
| `RemoteCall` | abstract: what a remote call promises | |
| `RemoteCalls` | remote calls, their sequence numbers, interruption and ABORT; implements `RemoteCall` | `CallsAbort`, `CallsEnd` |
| `RemoteCallsProofs` | theorems about `RemoteCalls` | |
| `Subscription` | event streams, their contexts and waiters in one client; operators and steps for `Motors` | |
| `Motors` | moves, started moves, waits and synchronized contexts, and the server that moves the motors; an instance of `Subscription` | `MotorMoves`, `StartMove`, `WaitUntil` |
| `MotorsProofs` | theorems about `Motors` | |
| `Codec` | how a value becomes bytes and bytes a value; operators only | |
| `MessageChannel` | abstract: whole messages, in order, each once | |
| `Framing` | the two ends of a connection over `Codec`: sends under backpressure, listeners, byte order, the client's cache of arrays; implements `MessageChannel` | `Framing`, `Backpressure` |
| `FramingProofs` | theorems about `Framing` | |
| `SpecFile` | the index and the parser of a data file that SPEC is still writing | `SpecFile` |
| `SpecFileProofs` | theorems about `SpecFile` | |
| `MCPropertySync`, `MCRemoteCalls`, `MCMotors`, `MCFraming`, `MCSpecFile` | values of constants for TLC | |

### The event loop (`EventLoop`)

A program runs the head of its FIFO ready queue up to the next `await` of
something that is not there yet; everything up to that point is one action. Bytes
that arrive put the connection's listener on the queue (`ClientArrive`,
`ServerArrive`), once, because a `StreamReader` has one waiter. The listener
consumes the messages that have arrived, any number of them, and appends one task
per message: `pyee` makes a task of every handler that is a coroutine, so
handlers run later than the listener and in the order of the messages. A handler
that is not a coroutine (`on_close`) runs inside the listener's step. Channels
are FIFO (TCP). Assumed: a write never meets a full transport buffer, so `drain()`
does not suspend and a message's header and data are not separated. `Framing` is the
module without that assumption.

### Properties (`PropertySync`)

A value is the number of the write that produced it, so two values are equal
only if they come from the same write. `table`, `watchers` are `_table`,
`_property_watchers`; `listeners` is `_property_listeners`; `ready` and `queue` are the ready
queues. `ServerSet` is the server's program assigning a property, `OnPropertySet` a
client's CHAN_SEND; both go through `Assign`, which is `Property.set`: the dtype may refuse
the value (`Refused`), else it is stored and a broadcast task created.
`OnPropertyWatch` registers and sends the current value at once, ahead of
broadcasts still queued. `Broadcast` reads the listeners when its task runs and
makes a `send` task for each, in any order (a Python set). A read that finds
nothing in the cache sends CHAN_READ and suspends; `WakeRead` is the rest of
`read()` after its await. `hist`, `seen`, `result`, `wrote` are history variables the
properties need and the code does not have. Associative arrays, which merge in the cache,
are in `Framing`; `read_next` is not modelled.

### Calls (`RemoteCall`, `RemoteCalls`)

`RemoteCall` says what a caller may rely on: a call is executed at most once and
after it was made; it returns its own result, and only after the execution
ended; it fails only if its execution raised or was aborted; nothing is aborted
unless somebody was interrupted.

`RemoteCalls` is the code. `Issue` is `_send_with_reply` up to its await (or `_send` for
the `_no_return` forms), `DispatchReply` resolves the futures listening for the
number in the reply, `WakeCaller` is the coroutine that goes on, with the result,
the error, or the cancellation on which `_abort_on_interrupt` sends ABORT.
`Interrupt` is a timeout or a cancellation; it may come when the future is already
resolved and its caller not yet resumed. On the server `OnCall` is the handler up to
its await, `RunBody` and `BodyWake` the task of the function, `Finish` the handler after it,
`OnAbort` is `Server.abort`: it cancels every abortable task, of every client, wakes the
sleeping ones, and a task that has not started ends before its first line. `Lose` breaks a
connection; of what was on the way a prefix arrives. "plain" calls are functions
that are no coroutines, expressions, unknown names, and everything else that is
answered inside the handler.
The refinement maps a resolved or cancelled future its caller has not yet seen to
"waiting", and a task that waits or runs to "running".

### Event streams and motors (`Subscription`, `Motors`)

`Subscription` is one client: `watchers` and `cache` as in `PropertySync`, and for each
`EventStream` object its `_subscriber_depth` and its listeners. A context of
`subscribed()` is named by its owner and its stream, because each brings a closure of its
own (`skip_first_emit_change`) and only that of the context that finds depth 0 is
registered (`Enter`), while the context that leaves depth 0 removes its own (`Exit`,
`ExitRaises`). `initialized` holds the closures that have seen an event, `waiting` the
futures of `wait_for_update`. Two objects may name one property: `Motor.moving` and the
object `synchronized_motors` makes for itself (`Moving`, `Synced`).

`Motors` puts the calls on top. A coroutine runs up to the first `await` that has to
wait, so `Move` opens the context, hangs up its waiter and sends `start_one` in one step,
and `SyncStart` subscribes to all motors of its context before it sends `prestart_all`,
the targets and `start_all`; a target may be refused by the serialisation, and the
messages then stop before it. `SyncUnwind` leaves one context after the other, last
entered first; each waits for its motor, also when an exception is on its way out, and
its timeout starts to run only then, so N motors may take N timeouts. After the last one
`abort_all` is sent if anything went wrong, and the flags are cleared. A cancellation
(`CancelledError`) is no `Exception`: the code sends no `abort_all` for it, and it is not
modelled. `WaitUntil` and `WaitRead` are `wait_until(False)` in a context of its own, with
the read it makes when the cache is empty.

The server is SPEC, which is not in the repository. It is modelled from the message log
in the tests and the documentation strings of the commands in `client/_motor.py`: it
answers REGISTER with the current value, collects `start_one` after `prestart_all`,
queues commands and starts one when its motors stand; a motor that starts reports True,
one that stops False; `abort_all` acts like ^C. `grouped` is chosen at the start: the
motors the program uses inside `async with motor`.

`mixed` is a history variable: the moves for which what the motor reports cannot be told
from the report of another motion, because the motor was still moving, or its last
report or an echo was still on its way, when `start_one` was sent. Nothing in the
protocol says to which motion an update belongs, so `MovesComplete` is about the others.

### Messages (`Codec`, `MessageChannel`, `Framing`)

`Codec` is `serialize` and `_deserialize_data` as functions on values and bytes. A byte
remembers its character and which part of it it is, so that a cut inside a wide
character, a swapped number and a missing terminator are visible, and no text is put
together from codes. A header is a number of words (2, 3 or 4, by version), which all
carry what the header says: what matters is how many of them the reader takes for one.

`Framing` composes it: `Send` is `_send` up to the first `drain()` that suspends,
`SendData` the rest of it, `Transmit` the network taking the buffer and the transport
resuming its writers, `Cancel` a caller that gives up. `Incoming` is what
`message_stream` makes of the bytes it has, `GoDeaf` the listener that ends at data it
cannot decode, `Receive` the listener that emits a message, which ends it as well when the
server's dispatcher raises (`Raises`: the data of a command are no string). `Refuse` is a
send whose value `serialize` rejects. `Commands` are properties that stand for what CMD and
FUNC messages carry; what is done with them is in `RemoteCalls`, whose calls are those that
arrive as strings. `table` is the client's cache with `_update_cache`, `array` (history) the
associative array as the server knows it. One of the ends may be a foreign program with
other header versions; the rest of its behaviour is the same. The server speaks only
after it was spoken to, as a SPEC server does, and it alone flags deletions.

### Data files (`SpecFile`)

The file is a sequence of words; `#` and the end of a line are words of their own,
because `_indexscans` splits what it reads at newline-hash. `Write` is SPEC adding to the
file up to the next of the places `Stops` names, `Open` the constructor, `Update` and
`UpdateReads` the two halves of `update()` (`os.stat`, then reading: SPEC may write in
between), `ParseScan` a getter that needs the scan's data. A remark is a line that begins
with `#F` or `#E` and is no header (`#Finished`); `_indexscans` skips its chunk (`Dropped`),
and `ignored` is a history field with the chunks it has skipped. `IndexScans` is the loop of
`_indexscans` as a fold over the chunks, `Parse` that of `parse()` as a fold over the
lines. `clean` is a history variable: every read so far ended where the next can go on.

## What the runs show

| Run | Instance | Properties |
|---|---|---|
| `PropertyEvents.cfg` | 2 clients (symmetric), 1 property, 2 writes, 3 other calls, no reads | `TypeOK`, `WatchAgreement`, `EventsConverge`, `GetReturnsServerValue` |
| `PropertyReads.cfg` | 1 client that may close, a served and an unknown name, 1 read in flight, 2 writes (the second refused), fair | `ReadsAreFresh`, `ReadsReturn`, `SubscribersCatchUp` |
| `StaleRead.cfg` | 1 client, 1 read | violates `GetReturnsServerValue` |
| `ClosedBroadcast.cfg` | 1 client that may close | violates `BroadcastsReachConnected` |
| `CallsAbort.cfg` | 2 clients, 3 coroutine calls, one client is interrupted, numbers modulo 4 from 2 | `TypeOK`, `KeepsPromise`, `AbortIsExact` |
| `CallsEnd.cfg` | 2 clients, 2 calls of every kind, one connection may break, fair | `KeepsPromise`, `AnswersArrive`, `InterruptsStop` |
| `MotorMoves.cfg` | 2 motors, a move, a started move, 2 synchronized contexts (one with a timeout and a target that may be refused), a wait; any 2 of them called; fair | `TypeOK`, `MovesComplete`, `NoHalfStart`, `StartTogether`, `NoLeak`, `GroupWaitsEnd`, `MotionsEnd` |
| `StartMove.cfg` | one started move, outside a group | violates `StartedMovesComplete` |
| `WaitUntil.cfg` | a synchronized context that may time out, and a wait | violates `WaitsEnd` |
| `Framing.cfg` | 2 messages of a client that sends one after the other, 2 of the server; values of every type, an array that is refused, a command that reads as a number, deletions of an element and of one that is not there; versions 4, 2 and an unknown one; fair | `TypeOK`, `ClientsOrder`, `ViewConverges`, `DeafByValue`, `Delivers`, `Arrives` |
| `Backpressure.cfg` | the same calls, overlapping, on a small buffer | violates `NobodyDeaf` |
| `SpecFile.cfg` | a file of 2 headers, 3 scans and a remark, read in up to 3 pieces | `TypeOK`, `ScansRead`, `SpectraRead`, `ParsedIsCurrent`, `EveryWordKept`, `IndexStable` |

* `WatchAgreement`: counts, messages in flight and the server's table always agree
  on whether a client is registered. `EventsConverge`: the last event on its way to a
  registered client carries the property's value, although the value sent on
  registration overtakes broadcasts. `SubscribersCatchUp` is its liveness side.
* `GetReturnsServerValue`: once everything is delivered, a cached `get()` equals the
  server's value. It holds without reads (`PropertyEvents`) and fails with them
  (`StaleRead`): `read()` stores its reply after an await and overwrites a newer event
  that came in the same batch.
* `BroadcastsReachConnected` fails: a closed connection is never removed from the
  listener sets.
* `ReadsAreFresh`, `ReadsReturn`: an uncached read is no older than its call and than
  the client's own writes, and it is answered, with an error for an unknown name.
* `KeepsPromise` is the refinement. Sequence numbers wrap around within the run.
* `AbortIsExact`: when an ABORT is handled, the sender's earlier calls have ended or
  are cancelled, its later calls are not touched. Calls of other clients are
  cancelled too; the docstring of `Server.abort` says so ("all abortable tasks").
* `AnswersArrive`, `InterruptsStop`: an ended execution is reported to a caller that still
  waits; the execution of an interrupted call ends.

* `MovesComplete`: `move()` and a synchronized context return only when their motions are
  over. The update they wait for is a False after the first event the registered closure
  sees. Outside a group that first event is the echo; in a group a synchronized context
  skips the motor's True, for its object is new and there is no echo, and a move skips
  nothing, for the group's closure goes on. In each case the False that is left is the end.
* `NoHalfStart`, `StartTogether`: a context that fails between its messages leaves no
  motor collected; the client's flags are set exactly while a context is open, also when a
  second one is refused; and the motors that start do so with one command. `NoLeak`: counts,
  listeners and registrations are gone when all contexts have been left.
* `MotionsEnd`: moves and contexts end. A target that is refused in a context without a
  timeout makes that context wait for updates nobody causes, before `abort_all` is
  reached; the run allows refusals only in the context with a timeout. A `move` whose target
  is refused waits in the same way (`ContextWaiter.__aexit__`) and is not modelled. The `abort_all` of
  another context may remove a `start_one` whose caller then waits on.
* `StartedMovesComplete` fails: `start_move` returns out of its own context while the task
  it returns is in another one of the same stream; outside a group that task waits for its
  False, then ends with KeyError and never unsubscribes. `start_move`'s own wait never ends when `move` is
  refused because a synchronized context is open; `MotionsEnd` is not about starts.
* `WaitsEnd` fails: a fresh context finds an old value in the cache, because
  `is_subscribed` is true before the registration is answered, and skips the answer.
  `GroupWaitsEnd`: inside a group, where the cache is current, the one wait of a motor
  loses no wake-up. With a second wait of that motor it may: what the first has read gets
  into the cache after the update that followed it, as in `StaleRead`.
* `Delivers` is the refinement of `MessageChannel`: what the listeners emit is what was
  handed to `_send`, with its meaning. The meaning is the code's, not always the value: a
  text that reads as a number arrives as a number, nothing as an empty text, a matrix of
  one row as a vector. `Arrives` is its liveness.
* `ClientsOrder`: the server answers in the client's byte order, whatever both machines
  have.
* `DeafByValue`: a listener stops only at a message its own data spoil, or at the server
  after a command whose data are no string. There are both: the text of a command such as
  `"1"` is read as a number, the dispatcher raises TypeError (`server_connection.py:247`) in
  the listener's `emit`, and the server hears nothing more from that client; a plain string is cut to as many bytes as it has characters
  (`protocol.py:473`; line 23 calls UTF-8 "a single byte encoding"), and an array with an
  empty string does not fit its shape any more. (The client's dispatcher is a coroutine: what
  it raises does not reach its listener.) A text cut exactly between two characters
  arrives shortened, unnoticed; the instance has none, because `Delivers` excludes it.
* `ViewConverges`: the array in the client's cache, less the deleted elements, is the
  server's, though it is merged from whole arrays, elements and deletions.
* `NobodyDeaf` fails: two sends of one connection that overlap under backpressure write
  both headers before their data. In `Framing.cfg` the client's sends do not overlap.
* `ScansRead`, `SpectraRead`: while every read ends where the next can go on, the index
  and what is parsed are what SPEC wrote. `EveryWordKept`, `ParsedIsCurrent`, `IndexStable`
  hold wherever a read ends: each word after the first line
  is in the blocks, or in a chunk that was skipped as a remark, as often as in the file;
  nothing parsed is stale, scans keep their place. What "where the next can go on" excludes is real: a read that
  ends with a newline before a `#S` gives that line to the last scan and loses the scan;
  one that ends in a header block gives the rest of the header to the last scan.

Facts about the code that the models keep and no run calls wrong: the file name in a `#F`
on the first line is never read (the split does not see that `#`); `#F` and `#E` open a
header each; a remark among the lines of a scan hides the rows that follow it up to the
next `#`, where the comment says "ignore line" (`spec.py:220`); scan orders count from 0 (`spec.py:657` says the first has order 1); empty
spectra are added for detectors the parser believes in; the first `update()` reads even if
nothing changed; `_determine_header_struct` never raises the RuntimeError it documents;
`Client.synchronized_motors` documents `await motor1.move(position)` inside the context
(`client.py:211`), where `move` raises and `prepare_move` is what is collected.

### Bounds, and why they are enough

Three client calls give subscribe, unsubscribe, subscribe: the shortest history
in which an old registration, its removal and a new one are all in flight. Two
writes are needed for one to overtake another, and two clients for interference
between a subscriber and a writer; a third write or client adds more of the same,
since handlers only compare a value with nothing. One read in flight suffices for the stale
read because the race is with an event. Two calls are
enough for a reply to meet the wrong caller, a third lets a call follow an ABORT
for the first while the second still runs. The modulus is as small as
the assumption `Modulus > MaxCalls` allows and the counter starts where it wraps
during the run; without that assumption, a call that is pending while all other
numbers are used, two pending calls share a number: in the code that takes
4294967294 calls.

Two motors are one more than a context needs to start together, and let a move meet a
context on one of them and not on the other. Two calls (`MaxCalls`) put any two of the
operations next to each other, one after the other or at once; a started move and its
task count as one. The safety properties were also found to hold with three. Per end of a
connection two messages show order, overlap and what one leaves in the stream for the
next; the marks (3 and 5 words against headers of 2 to 5) pause a client before, inside
and after a message. Version 2 has the shortest header, 4 this program's, 6 is unknown
and longer. Texts are of one or two characters, one of them wide, arrays of one or two elements.
The file has what the reader tells apart: two headers, a number used twice, a scan with
two detectors, one with a single detector and a spectrum of three lines (the two ways
`comp_line` is found), a comment, a remark. Stops are the ends of
lines, except of those that are written at once with the next (`#E`, `#N`, `#P`, `#C`),
and places between the numbers of a line; three reads (`Open` and two updates) give one
resumption after another.

### Fairness

Weak fairness of each program's event loop (`ServerStep`, `ClientStep(c)`) and of
arrival: asyncio runs every ready task, and TCP delivers on a connection that
stands. There is none for user calls, writes, interruptions, broken connections, or
for what a remote function awaits (`BodyWake`): a function may sleep for
ever, and the liveness properties hold nevertheless. In `Motors`: the dispatcher, the server (a motor that moves
arrives, a queue is worked off) and each coroutine that waits for nothing more
(`Resume`, with a timeout that runs expiring); none for calls. In `Framing`: the network
(`Transmit`), a writer that was resumed, and the listeners. The fairness of `Listen` is
written out as the disjunction that defines it, with `Ready` for its ENABLED, so that TLC
does not decode each message once more to find out. `SpecFile` claims no liveness: nobody
is obliged to call `update()`.

## What is proved

Each theorem holds for every value of the constants that satisfies the assumptions of
its module, not for the instances of the runs. The modules' assumptions
(`SyncAssumption`, `CallsAssumption`, `MotorsAssumption`, `CodecAssumption`,
`FramingAssumption`, `SpecFileAssumption`) say that sets are finite, that names which stand
for different things differ, and what kind of values the others are; `SpecFileAssumption` also says that a
file begins with a header, as every file SPEC writes does. TLC evaluates them in every run. Theorems that need more say so in their statement (ASSUME).

| Theorem | Property | Further hypothesis |
|---|---|---|
| `PropertySyncProofs!TypeCorrect`, `!Agreement` | `TypeOK`, `WatchAgreement` | |
| `PropertySyncProofs!Converge` | `EventsConverge` | |
| `PropertySyncProofs!CacheSettles` | `GetReturnsServerValue` | `WritesOnly`: no reads, no refused writes |
| `PropertyReadProofs!ReadsFresh` | `ReadsAreFresh` | |
| `RemoteCallsProofs!TypeCorrect`, `!PromiseKept` | `TypeOK`, `KeepsPromise` | |
| `RemoteCallsProofs!AbortsExactly` | `AbortIsExact` | |
| `MotorsProofs!TypeCorrect`, `!NeverHalfStarted`, `!StartedTogether` | `TypeOK`, `NoHalfStart`, `StartTogether` | |
| `MotorsProofs!MovesCompleted`, `!GroupWaitsWoken` | `MovesComplete`, `GroupWaitsEnd` | |
| `MotorsProofs!NothingLeft` | `NoLeak` | `~Overlaps`, as in `MotorMoves` |
| `FramingProofs!TypeCorrect`, `!OneByteOrder` | `TypeOK`, `ClientsOrder` | |
| `FramingProofs!WholeMessages`, `!ViewIsArray` | `Delivers`, `ViewConverges` | `RoundTrip`, `AllUnbroken` throughout |
| `FramingProofs!DeafByItself` | `DeafByValue` | `RejectsOnly`, `AllUnbroken` throughout |
| `FramingProofs!OneAfterTheOther` | these three | `RoundTrip`, `RejectsOnly`, sends one after the other |
| `SpecFileProofs!TypeCorrect`, `!NeverOutOfDate`, `!StaysThatScan` | `TypeOK`, `ParsedIsCurrent`, `IndexStable` | |
| `SpecFileProofs!NothingLost` | `EveryWordKept` | |

Of the safety properties of the runs, `ScansRead` and `SpectraRead` are model-checked only,
and so is all liveness (below).

### Properties

* `Agreement`. The invariant is stated per client and name over three places: the channel,
  the server's queue, the table. Each says what the registration will be once everything
  after it is gone, so that the last watch command anywhere agrees with the count. In this
  form it is inductive relative to `TypeOK`.
* `Converge`. That the last event carries the value is not inductive: it must be
  known why the value sent on registration cannot be followed by an older one. `QueueTells`
  says it about the server's queue: the handlers of one client stand together, because one
  pass of its listener puts them there and the next comes after them, so no send that an
  earlier registration caused is behind a REGISTER still to be handled, and the last
  broadcast, or when there is none the last send, carries the value. `ChannelTells`
  continues it through the channel and the client's queue.
* `CacheSettles`. The cache (`CacheInv`) equals the last event unless something that will
  change it is on its way: the client's own write, or what the server makes of it. The two
  hypotheses are where the code fails: a reply may overwrite a newer event (`StaleRead`),
  and a value that the server refuses stays in the writer's cache.
* `ReadsFresh`. What a read may return depends on its order against the writes of the same
  client: a read keeps its place behind them in the channel, in the queue, and across the
  two (`InLine`), and there is one message or task of it at a time (`Single`); an answer on
  its way names an entry of `hist` that is late enough, which stays so as `hist` grows
  (`Answered`). The induction needs that a refused write is not waited for (`Due`).

`EventLoopProofs` holds what these and `RemoteCallsProofs` rest on: the entries of a queue
after a head is run, tasks are appended, or a channel is drained, and that entries which
occur once, or in a certain order, keep doing so.

### Calls

* `PromiseKept`, the refinement of `RemoteCall`. It needs an invariant (`Inv`) about
  everything on its way, because what a message may do depends on nothing else having done
  it before: a CALL in a channel or a handler finds its execution untouched (`RequestInv`,
  `ReadyInv`), a task of an execution is on the ready queue once, a caller to be woken
  likewise (`WakeInv`), an answer in flight is the outcome of a call that its client made
  under the number it bears (`AnswerInv`), an ABORT or a pending cancellation comes from an
  interrupted caller (`CancelInv`), and no two calls of a client bear the same number
  (`NumberInv`). The last is not inductive as it stands: what is, is that the
  distance from a call's number to the client's last number, counted around
  the wrap, is less than the number of calls made since and falls
  from older calls to newer ones. One lemma per action preserves `Inv`; `HiddenSteps`,
  `PromiseIssue`, `PromiseWake` and `PromiseExecute` then map each step.
* `AbortsExactly`, an action property. The ABORT is compared with what its sender had sent
  before, which is exact only because requests keep their order (`InOrder`) through channel
  and queue, every call sent and not yet looked at is still on its way (`SentInv`), the
  calls an ABORT is meant for have been looked at or are ahead of it (`AskedInv`), and a task
  that runs is in `_abortable_tasks` or already cancelled (`CoverInv`).

### Motors

* `TypeCorrect`. That a count never falls below zero is the content; it takes
  that the counts equal the numbers of open contexts (`Counts`), that at most one
  synchronized context is active (`OneSync`) and that no motor is in a batch twice
  (`Batches`).
* `NeverHalfStarted`, `StartedTogether`. That the flags are set exactly while a context is
  open is part of `OneSync`. The rest is about what the server has done, while the failure would be in what the client has sent. The invariant `StartsOK` runs the messages on
  their way from the server's present state: there is a path through them that handles each at a
  moment when it is right, ends with nothing collected unless a context that will
  still send `abort_all` is on its way out, and starts at each `start_all` the whole batch of
  one context.
* `NothingLeft`. In the same way the registrations on their way lead to the set of watched
  motors (`Told`), and the owner of a stream's closure is the context that is left last
  (`Alone`). This last is what contexts that overlap outside a group break
  (`StartedMovesComplete` in `StartMove`), hence the hypothesis.
* `MovesCompleted`. A waiter returns at the first False its closure passes on, so what must be
  known is that no False on its way, or still to be sent, is that of another motion. The
  invariant (`Calm`) says for a task that waits and each motor whose motion is not over
  (`GoesOn`): the motion is in exactly one place, among the requests, in the buffer, in a
  queued command, or moving (`Placed`); and no event on its way says that the motor stands,
  but the echo, which is the first of its events, and only while the closure has seen nothing and
  skips it (`Unheard`). That this is so when a context is entered rests on what others leave
  behind: a closure that outlives its context is paid for by a watcher (`Spare`); when no
  call runs, nothing of a motor without a group is on its way and no closure of it has seen an
  event, and a group's motor has at most one echo to come, before all its other events (`Groups`).
* `GroupWaitsWoken`. Its invariant (`Wake`) orders what concerns a group's motor (`Informed`):
  until its registration is handled no read is, until the echo is heard no answer is; each
  True on its way is followed by a False unless the motor still moves; and until a wait is
  called, a True in the cache has such a False behind it. A read is under way, as a request,
  an answer or a task it wakes (`Reads`). A wait that listens after it saw a True therefore
  has a False coming (`Roused`), and when all has settled no wait is left listening.

### Messages

* `TypeCorrect`, `OneByteOrder`: all words in streams and buffers bear the client's order,
  there are no more first words of messages than messages on their way, and a transport is
  paused above its low mark. They hold also when sends overlap or are cancelled.
* `WholeMessages`, the refinement of `MessageChannel`. The invariant is an equation
  (`WireOK`): what is in the stream, in the buffer, and in the hands of the send that waits
  between its header and its data are the frames of the messages not yet received, one
  after the other. Every action moves a part of it; `Receive` cuts one frame off, which
  needs that the reader recognises the length of the header from its first words, for
  every version.
* `DeafByItself` follows from the same invariant: what stops a listener begins with a frame,
  or is the command it received last.
* `ViewIsArray`: whoever goes through the messages the client has not received comes from
  its view to the server's array (`ViewOK`); a step adds to one end or takes from the other.
* The hypotheses. `RoundTrip` and `RejectsOnly` say of `Codec` that decoding what was encoded
  gives its meaning or fails, and fails only for the values `Undecodable` names. They speak of
  the constants only; TLC evaluates them for the messages of the run (`CodecRoundTrip`
  in `MCFraming`). `AllUnbroken` says that no send is cut between its header and its data: the sends
  of an end are one after the other and not cancelled, or none waits there. `Backpressure`
  shows that it is needed. `OneAfterTheOther` replaces it by two constants, which say that
  both programs send so.

### Data files

The invariant has the types of the index (`IndexOK`) and that what is parsed is current,
except of the scan lines are being added to (`Current`). Splitting into lines and chunks and
indexing the chunks are folds; their lemmas (`LinesTrace`, `ChunksTrace`, `IndexTrace`)
give each as a sequence of intermediate results, and what a fold preserves follows:
scans are kept with at least their lines (`Keeps`), which with the prefix they have makes
`StaysThatScan`; number and order then find the same scan.

`NothingLost` counts. A word that is no `#` and no newline occurs in the lines as often as in
the words they are split from (`LinesTimes`), in the chunks as often as in what is read
(`ChunksTimes`), and each step of the indexing fold adds to the blocks, or to what is
ignored, what its chunk has (`AddChunkTimes`, `TraceTimes`), provided that there is a block to add to. That proviso is
where the file's beginning comes in: the first chunk is the header's first line, which no
block gets, and the second opens a block, so that from there on there is always one. What is
shorter makes no index at all; a read of blanks does not advance and has no words; and one of
nothing but remarks does not advance either, so that what it ignored is not counted but met
again.

### What stays with TLC

Fairness and ENABLED are out of the prover's reach, and with them `ReadsReturn`,
`SubscribersCatchUp`, `AnswersArrive`, `InterruptsStop`, `MotionsEnd`, `Arrives`. The
library's induction theorems cannot be instantiated by the provers; `SequenceLemmas` therefore
proves induction over the natural numbers with a set in the place of the predicate
(`SetInduction`, from well-founded orderings), and from it what the folds and concatenations of
the community modules return. This reaches invariants of the folds, not what `Codec` or
the parser of a scan compute from all inputs: `RoundTrip`, `ScansRead` and `SpectraRead`, which
compare what is computed with what SPEC meant by its plan, are checked on instances.

## Plan

Done: `PropertySync`, `RemoteCall` and `RemoteCalls`, `Subscription` and `Motors`, `Codec`,
`MessageChannel` and `Framing`, `SpecFile`, with the proofs above.

1. Proofs: an index of a file read in pieces equals the index of the file read at once, as
   long as every read ends where the next can go on; with it `ScansRead` becomes a statement
   about one read.
2. `SpecSyntax`: evaluation of small expression trees.
3. `Lifecycle`: singletons, enter, hello, exit, server shutdown.
4. `ImageFiles`: crashes between the writes of `save_img`.
5. `SharedArrays`: handles of `sps.c` against SPEC processes that delete and recreate
   segments.

## Not modelled

Formatting, logging, the getters of `file/spec.py` that only format and its `save`, the
binary reader `hamamatsu.py`, the facade in `client.py` and `_status.py` (they only name
properties and hand calls on), `datashm_py.c` (conversion), type conversion and benchmark
code in `sps.c`. Python's `asyncio`, `pyee`, TCP, HDF5, System V shared memory and the SPEC
server are external: they are modelled by the guarantees the code relies on.

Of the modelled parts: `read_next`, `get_next` and `capture` (a cancelled `get_next` makes
the next event raise InvalidStateError inside `emit`), cancellation of a synchronized
context, `search` and `set_limits`, foreign programs whose headers or counts contradict
their data, the type DOUBLE, a getter of a scan called again after it raised (it adds the
rows it had stored once more), and files whose end is seen inside a word or inside the
lines of a spectrum.

Not yet, with their place in the plan: the expression syntax, the life cycle of
connections and server, the HDF5 files, the shared memory.
