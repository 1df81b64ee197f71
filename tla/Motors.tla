-------------------------------- MODULE Motors --------------------------------
(***************************************************************************)
(* Motor moves of one client: Motor.move, Motor.start_move, wait_until on  *)
(* a motor's state and the synchronized_motors context, over the event     *)
(* streams of module Subscription.                                         *)
(*                                                                         *)
(* The property is motor/<m>/move_done (Motor.moving).  The SPEC server    *)
(* that drives the motors is not in the repository; it is modelled from    *)
(* the message log the tests keep of it (test_sync_motors): commands are   *)
(* queued, a command waits until its motors stand, and move_done goes to   *)
(* True and then to False for each motor that moves.                       *)
(***************************************************************************)
EXTENDS Naturals, Sequences, FiniteSets, SequencesExt

CONSTANTS
    Motors,     \* the motors
    Moves,      \* calls of Motor.move, by the user or by start_move
    Starts,     \* calls of Motor.start_move
    Syncs,      \* synchronized_motors contexts
    Waits,      \* calls of wait_until(False) in a subscribed() context
    MotorOf,    \* the motor of a move, a start and a wait
    Child,      \* the move a start creates a task for
    Timed,      \* the contexts that have a timeout
    Faulty,     \* those one of whose targets may be refused when it is sent
    Overlaps,   \* contexts of one property may overlap outside a group
    MaxCalls,   \* bound on the calls the program makes
    None        \* no task

Tasks == Moves \cup Starts \cup Syncs \cup Waits
Children == {Child[t] : t \in Starts}

ASSUME MotorsAssumption ==
    /\ IsFiniteSet(Motors) /\ IsFiniteSet(Tasks)
    /\ Motors \cap Tasks = {} /\ Moves \cap Starts = {} /\ Syncs \cap Waits = {}
    /\ (Moves \cup Starts) \cap (Syncs \cup Waits) = {}
    /\ MotorOf \in [Moves \cup Starts \cup Waits -> Motors]
    /\ Child \in [Starts -> Moves]
    /\ \A t, u \in Starts : Child[t] = Child[u] => t = u
    /\ \A t \in Starts : MotorOf[Child[t]] = MotorOf[t]
    /\ Timed \subseteq Syncs /\ Faulty \subseteq Syncs
    /\ Overlaps \in BOOLEAN /\ MaxCalls \in Nat
    /\ None \notin Tasks \cup Motors \cup BOOLEAN

\* Motor.moving of the user's object, and the object synchronized_motors makes.
Moving(m) == <<m, "moving">>
Synced(m) == <<m, "synced">>
MotorStreams == {Moving(m) : m \in Motors} \cup {Synced(m) : m \in Motors}
StreamMotor(s) == s[1]

VARIABLES
    watchers, cache, depth, listening, initialized, waiting, answers,
    requests, events,   \* the client's streams and its two channels
    grouped,    \* motors the program uses inside "async with motor"
    open,       \* groups that are open
    pc,         \* where each task stands
    syncing,    \* _SYNCHRONIZING_MOTORS
    pending,    \* _PENDING_MOTIONS, in the order of prepare_move
    batch,      \* batch[t]: the motions context t started
    left,       \* left[t]: how many of its contexts are still open
    raised,     \* contexts in which an exception is on its way out
    registered, \* server: motors whose move_done the client watches
    moving,     \* server: the task for which each motor moves, None if it stands
    collecting, \* server: after prestart_all
    buffer,     \* server: the motions collected
    commands,   \* server: the command queue
    mixed       \* history: tasks whose motor was not at rest when it was sent off

\* A motor itself is the owner of its group's context.
INSTANCE Subscription WITH Properties <- Motors, Streams <- MotorStreams,
                           PropertyOf <- StreamMotor, Owners <- Tasks \cup Motors

streamVars == <<watchers, cache, depth, listening, initialized, waiting, answers>>
taskVars   == <<grouped, open, pc, syncing, pending, batch, left, raised, mixed>>
serverVars == <<registered, moving, collecting, buffer, commands>>
vars == <<streamVars, requests, events, taskVars, serverVars>>

Motion == Motors \X Tasks
Ended == {"done", "failed", "aborted"}

TypeOK ==
    /\ StreamTypeOK
    /\ grouped \subseteq Motors /\ open \subseteq grouped
    /\ pc \in [Tasks -> {"idle", "called", "reading", "waiting", "preparing", "unwinding"}
                          \cup Ended]
    /\ syncing \in BOOLEAN
    /\ pending \in Seq(Motors)
    /\ batch \in [Syncs -> Seq(Motors)]
    /\ left \in [Syncs -> Nat]
    /\ raised \subseteq Syncs /\ mixed \subseteq Tasks
    /\ registered \subseteq Motors
    /\ moving \in [Motors -> Tasks \cup {None}]
    /\ collecting \in BOOLEAN
    /\ buffer \subseteq Motion
    /\ commands \in Seq(SUBSET Motion)

Init ==
    /\ StreamInit
    /\ grouped \in SUBSET Motors /\ open = {}
    /\ pc = [t \in Tasks |-> "idle"]
    /\ syncing = FALSE /\ pending = <<>>
    /\ batch = [t \in Syncs |-> <<>>] /\ left = [t \in Syncs |-> 0]
    /\ raised = {} /\ mixed = {}
    /\ registered = {} /\ moving = [m \in Motors |-> None]
    /\ collecting = FALSE /\ buffer = {} /\ commands = <<>>

Goto(t, label) == pc' = [pc EXCEPT ![t] = label]

(***************************************************************************)
(* Groups: "async with motor" subscribes to the motor's properties around  *)
(* everything the program does with the motor.                             *)
(***************************************************************************)
EnterGroup(m) ==
    /\ m \in grouped \ open
    /\ \A t \in Tasks : pc[t] = "idle"
    /\ open' = open \cup {m}
    /\ Enter(m, <<Moving(m)>>, <<>>)
    /\ UNCHANGED <<cache, waiting, answers, events, grouped, pc, syncing, pending, batch, left,
                   raised, mixed, serverVars>>

ExitGroup(m) ==
    /\ m \in open
    /\ \A t \in Tasks : pc[t] \in {"idle"} \cup Ended
    /\ \E t \in Tasks : pc[t] # "idle"
    /\ open' = open \ {m}
    /\ Exit(m, Moving(m), <<>>)
    /\ UNCHANGED <<cache, waiting, answers, events, grouped, pc, syncing, pending, batch, left, raised,
                   mixed, serverVars>>

\* Where the program may use motor m: inside its group if it has one, and
\* otherwise, unless Overlaps, when nothing else has subscribed to it.
Usable(m) == IF m \in grouped THEN m \in open ELSE Overlaps \/ watchers[m] = 0

Callable(t) == /\ pc[t] = "idle"
               /\ Cardinality({u \in Tasks \ Children : pc[u] # "idle"}) < MaxCalls

(***************************************************************************)
(* History: a motor is at rest when the server has no motion of it to do   *)
(* and the client has been told of all it did; outside a group, the echo   *)
(* of an earlier registration must have come too.  A task that sends a     *)
(* motor off that is not at rest, and those that wait for the motor at     *)
(* that time, are mixed: what the motor reports may belong to either.      *)
(***************************************************************************)
Motions(m) == {t \in Tasks :
    \/ \E i \in DOMAIN requests : /\ requests[i].property = m /\ requests[i].by = t
                                  /\ requests[i].command = "start_one"
    \/ <<m, t>> \in buffer
    \/ \E i \in DOMAIN commands : <<m, t>> \in commands[i]
    \/ moving[m] = t}
TaskMotors(t) == IF t \in Syncs THEN {batch[t][i] : i \in 1..left[t]} ELSE {MotorOf[t]}
Resting(m) ==
    /\ Motions(m) = {}
    /\ \A i \in DOMAIN events : events[i].property = m => events[i].by = None /\ m \in open
    /\ \A i \in DOMAIN requests :
         /\ requests[i].command = "abort_all" => moving[m] = None
         /\ requests[i] = Msg("REGISTER", m, None) => m \in open
SendOff(t, ms) ==
    LET restless == {m \in ms : ~Resting(m)} IN
    mixed' = IF restless = {} THEN mixed
             ELSE mixed \cup {t} \cup {u \in Moves \cup Syncs :
                       pc[u] \in {"waiting", "unwinding"} /\ TaskMotors(u) \cap restless # {}}

(***************************************************************************)
(* Motor.move and Motor.start_move.                                        *)
(***************************************************************************)
StartOne(m, t) == Msg("start_one", m, t)

MayMove(t) ==
    IF t \in Children THEN pc[t] = "called" ELSE Callable(t) /\ Usable(MotorOf[t])

MoveRefused(t) ==
    /\ MayMove(t)
    /\ syncing
    /\ Goto(t, "failed")
    /\ UNCHANGED <<streamVars, requests, events, grouped, open, syncing, pending, batch, left,
                   raised, mixed, serverVars>>

Move(t) ==
    LET m == MotorOf[t] IN
    /\ MayMove(t)
    /\ ~syncing
    /\ Enter(t, <<Moving(m)>>, <<StartOne(m, t)>>)
    /\ Expect(t, <<Moving(m)>>, FALSE)
    /\ SendOff(t, {m})
    /\ Goto(t, "waiting")
    /\ UNCHANGED <<cache, answers, events, grouped, open, syncing, pending, batch, left, raised,
                   serverVars>>

\* A task whose update has come leaves its subscribed() context.
Return(t) ==
    LET s == Moving(MotorOf[t]) IN
    /\ pc[t] = "waiting"
    /\ ~Expects(t, s)
    /\ Exit(t, s, <<>>)
    /\ Goto(t, IF ExitRaises(t, s) THEN "failed" ELSE "done")
    /\ UNCHANGED <<cache, waiting, answers, events, grouped, open, syncing, pending, batch,
                   left, raised, mixed, serverVars>>

\* Its own context and that of its move overlap.
StartMove(t) ==
    LET s == Moving(MotorOf[t]) IN
    /\ Callable(t) /\ Usable(MotorOf[t])
    /\ MotorOf[t] \in grouped \/ Overlaps
    /\ Enter(t, <<s>>, <<>>)
    /\ Expect(t, <<s>>, TRUE)
    /\ pc' = [pc EXCEPT ![t] = "waiting", ![Child[t]] = "called"]
    /\ UNCHANGED <<cache, answers, events, grouped, open, syncing, pending, batch, left, raised,
                   mixed, serverVars>>

(***************************************************************************)
(* wait_until(False), in a subscribed() context of its own.                *)
(***************************************************************************)
WaitUntil(t) ==
    LET m == MotorOf[t] IN
    /\ Callable(t) /\ Usable(m)
    /\ Enter(t, <<Moving(m)>>,
             IF cache[m] = None THEN <<Msg("CHAN_READ", m, t)>> ELSE <<>>)
    /\ IF cache[m] = FALSE THEN UNCHANGED waiting ELSE Expect(t, <<Moving(m)>>, FALSE)
    /\ Goto(t, IF cache[m] = None THEN "reading" ELSE "waiting")
    /\ UNCHANGED <<cache, answers, events, grouped, open, syncing, pending, batch, left, raised,
                   mixed, serverVars>>

\* The mutant waits for an update whatever the answer was.
WaitReadIgnored(t) ==
    LET m == MotorOf[t] IN
    /\ pc[t] = "reading"
    /\ \E a \in answers :
         /\ a.owner = t
         /\ answers' = answers \ {a}
         /\ cache' = [cache EXCEPT ![m] = a.value]
    /\ Goto(t, "waiting")
    /\ UNCHANGED <<watchers, depth, listening, initialized, waiting, requests, events, grouped,
                   open, syncing, pending, batch, left, raised, mixed, serverVars>>

\* get() comes back with the server's answer: the value waited for, or the
\* wait for an update goes on.
WaitRead(t) ==
    LET m == MotorOf[t] IN
    /\ pc[t] = "reading"
    /\ \E a \in answers :
         /\ a.owner = t
         /\ answers' = answers \ {a}
         /\ cache' = [cache EXCEPT ![m] = a.value]
         /\ IF a.value = FALSE THEN GiveUp(t, Moving(m)) ELSE UNCHANGED waiting
    /\ Goto(t, "waiting")
    /\ UNCHANGED <<watchers, depth, listening, initialized, requests, events, grouped, open,
                   syncing, pending, batch, left, raised, mixed, serverVars>>

(***************************************************************************)
(* synchronized_motors.                                                    *)
(***************************************************************************)
\* The assertion stands before the try: it leaves the flags alone.
SyncRefused(t) ==
    /\ Callable(t)
    /\ syncing
    /\ Goto(t, "failed")
    /\ UNCHANGED <<streamVars, requests, events, grouped, open, syncing, pending, batch, left,
                   raised, mixed, serverVars>>

SyncEnter(t) ==
    /\ Callable(t)
    /\ ~syncing /\ pending = <<>>
    /\ syncing' = TRUE
    /\ Goto(t, "preparing")
    /\ UNCHANGED <<streamVars, requests, events, grouped, open, pending, batch, left, raised,
                   mixed, serverVars>>

PrepareMove(t, m) ==
    /\ pc[t] = "preparing" /\ Usable(m)
    /\ m \notin Range(pending)
    /\ pending' = Append(pending, m)
    /\ UNCHANGED <<streamVars, requests, events, grouped, open, pc, syncing, batch, left, raised,
                   mixed, serverVars>>

\* The body raises, as prepare_move does for a motor it already holds: there is
\* no motion to abort.
SyncBodyRaises(t) ==
    /\ pc[t] = "preparing"
    /\ syncing' = FALSE /\ pending' = <<>>
    /\ Goto(t, "failed")
    /\ UNCHANGED <<streamVars, requests, events, grouped, open, batch, left, raised, mixed,
                   serverVars>>

Prestart == Msg("prestart_all", None, None)
StartAgain == Msg("prestart_all", None, None)
StartAll == Msg("start_all", None, None)
AbortAll == Msg("abort_all", None, None)
StartEach(t, ms) == [i \in DOMAIN ms |-> StartOne(ms[i], t)]

\* Mutants: StartAgain above sends the wrong message, the motors start as their
\* targets come in, the error path forgets the server.
StartSeparately(t) == <<>>
Quietly(t) == <<>>
Prestarting(t) == <<Prestart>>
Aborting(t) == <<AbortAll>>

\* The end of the body: all the subscriptions are made before the first of the
\* messages.  The k-th target may be refused by the serialisation, in which
\* case the messages stop before it.
SyncStart(t) ==
    LET n  == Len(pending)
        ss == [i \in 1..n |-> Synced(pending[i])] IN
    /\ pc[t] = "preparing"
    /\ \A i \in 1..n : Usable(pending[i])
    /\ \E k \in 1..n + 1 :
         /\ k <= n => t \in Faulty
         /\ Enter(t, ss, Prestarting(t) \o StartEach(t, SubSeq(pending, 1, k - 1))
                           \o IF k > n THEN <<StartAll>> ELSE <<>>)
         /\ raised' = IF k > n THEN raised ELSE raised \cup {t}
         /\ SendOff(t, {pending[i] : i \in 1..k - 1})
    /\ Expect(t, ss, FALSE)
    /\ batch' = [batch EXCEPT ![t] = pending]
    /\ left' = [left EXCEPT ![t] = n]
    /\ IF n > 0
         THEN Goto(t, "unwinding") /\ UNCHANGED <<syncing, pending>>
         ELSE Goto(t, "done") /\ syncing' = FALSE /\ pending' = <<>>
    /\ UNCHANGED <<cache, answers, events, grouped, open, serverVars>>

\* The contexts are left in reverse order.  Each first waits for its motor to
\* stop, even when an exception is on its way out, for at most the timeout,
\* which starts to run only now.  After the last one the error path stops the
\* server, and in any case the flags are cleared.
SyncUnwind(t) ==
    LET m     == batch[t][left[t]]
        late  == Expects(t, Synced(m))
        err   == late \/ t \in raised
        last  == left[t] = 1
    IN /\ pc[t] = "unwinding"
       /\ late => t \in Timed
       /\ Exit(t, Synced(m), IF last /\ err THEN Aborting(t) ELSE <<>>)
       /\ GiveUp(t, Synced(m))
       /\ raised' = IF late THEN raised \cup {t} ELSE raised
       /\ left' = [left EXCEPT ![t] = @ - 1]
       /\ IF last
            THEN /\ Goto(t, IF err THEN "aborted" ELSE "done")
                 /\ syncing' = FALSE /\ pending' = <<>>
            ELSE UNCHANGED <<pc, syncing, pending>>
       /\ UNCHANGED <<cache, answers, events, grouped, open, batch, mixed, serverVars>>

(***************************************************************************)
(* The client's dispatcher, and the server.                                *)
(***************************************************************************)
Dispatch == (OnPropertyUpdate \/ OnReply) /\ UNCHANGED <<taskVars, serverVars>>

Serve(command) ==
    /\ requests # <<>> /\ Head(requests).command = command
    /\ requests' = Tail(requests)
    /\ UNCHANGED <<streamVars, taskVars>>

\* by tells an event of a motion from the echo of a registration; the client
\* cannot tell them apart.
Tell(m, v, t) == IF m \in registered THEN <<Event("EVENT", m, v, t)>> ELSE <<>>
TellAll(ms, v) ==
    LET order == SetToSeq(ms \cap registered) IN
    [i \in DOMAIN order |-> Event("EVENT", order[i], v, order[i])]

ServeRegister ==
    LET m == Head(requests).property IN
    /\ Serve("REGISTER")
    /\ registered' = registered \cup {m}
    /\ events' = Append(events, Event("EVENT", m, moving[m] # None, None))
    /\ UNCHANGED <<moving, collecting, buffer, commands>>

ServeUnregister ==
    /\ Serve("UNREGISTER")
    /\ registered' = registered \ {Head(requests).property}
    /\ UNCHANGED <<events, moving, collecting, buffer, commands>>

ServeRead ==
    LET r == Head(requests) IN
    /\ Serve("CHAN_READ")
    /\ events' = Append(events, Event("REPLY", r.property, moving[r.property] # None, r.by))
    /\ UNCHANGED serverVars

ServePrestartAll ==
    /\ Serve("prestart_all")
    /\ collecting' = TRUE
    /\ UNCHANGED <<events, registered, moving, buffer, commands>>

ServeStartOne ==
    LET motion == <<Head(requests).property, Head(requests).by>> IN
    /\ Serve("start_one")
    /\ IF collecting
         THEN buffer' = buffer \cup {motion} /\ UNCHANGED commands
         ELSE commands' = Append(commands, {motion}) /\ UNCHANGED buffer
    /\ UNCHANGED <<events, registered, moving, collecting>>

ServeStartAll ==
    /\ Serve("start_all")
    /\ commands' = IF buffer = {} THEN commands ELSE Append(commands, buffer)
    /\ buffer' = {} /\ collecting' = FALSE
    /\ UNCHANGED <<events, registered, moving>>

\* Like ^C: nothing queued is started, and what moves stops.
ServeAbortAll ==
    /\ Serve("abort_all")
    /\ events' = events \o TellAll({m \in Motors : moving[m] # None}, FALSE)
    /\ moving' = [m \in Motors |-> None]
    /\ buffer' = {} /\ collecting' = FALSE /\ commands' = <<>>
    /\ UNCHANGED registered

Execute ==
    LET motions == Head(commands) IN
    /\ commands # <<>>
    /\ \A x \in motions : moving[x[1]] = None
    /\ moving' = [m \in Motors |->
                    IF \E x \in motions : x[1] = m
                      THEN (CHOOSE x \in motions : x[1] = m)[2] ELSE moving[m]]
    /\ events' = events \o TellAll({x[1] : x \in motions}, TRUE)
    /\ commands' = Tail(commands)
    /\ UNCHANGED <<streamVars, requests, taskVars, registered, collecting, buffer>>

Stop(m) ==
    /\ moving[m] # None
    /\ moving' = [moving EXCEPT ![m] = None]
    /\ events' = events \o Tell(m, FALSE, m)
    /\ UNCHANGED <<streamVars, requests, taskVars, registered, collecting, buffer, commands>>

ServerStep ==
    \/ ServeRegister \/ ServeUnregister \/ ServeRead \/ ServePrestartAll \/ ServeStartOne
    \/ ServeStartAll \/ ServeAbortAll \/ Execute
    \/ \E m \in Motors : Stop(m)

\* Steps of coroutines that wait for nothing but what has come.
Resume(t) ==
    \/ t \in Moves \cup Starts \cup Waits /\ Return(t)
    \/ t \in Children /\ (Move(t) \/ MoveRefused(t))
    \/ t \in Waits /\ WaitRead(t)
    \/ t \in Syncs /\ SyncUnwind(t)

\* What the program calls, and when.
CallStep ==
    \/ \E m \in Motors : EnterGroup(m) \/ ExitGroup(m)
    \/ \E t \in Moves \ Children : Move(t) \/ MoveRefused(t)
    \/ \E t \in Starts : StartMove(t)
    \/ \E t \in Waits : WaitUntil(t)
    \/ \E t \in Syncs : \/ SyncRefused(t) \/ SyncEnter(t) \/ SyncBodyRaises(t) \/ SyncStart(t)
                        \/ \E m \in Motors : PrepareMove(t, m)

Next == CallStep \/ Dispatch \/ ServerStep \/ \E t \in Tasks : Resume(t)

Spec == Init /\ [][Next]_vars

\* The client's event loop, the network and the server keep going, motors
\* arrive, and a timeout that runs expires.
FairSpec == Spec /\ WF_vars(Dispatch) /\ WF_vars(ServerStep)
                 /\ \A t \in Tasks : WF_vars(Resume(t))

(***************************************************************************)
(* Properties.                                                             *)
(***************************************************************************)
\* A call of move and a synchronized context that returns leaves no motion of
\* its own behind, neither queued nor under way, unless another motion of one
\* of its motors was about at the time ("Outside of the context, all motors
\* have completed their movements", _motor.py:357): the registration's echo,
\* and the True that move_done goes to first, are never taken for the end.
MovesComplete ==
    \A t \in Moves \cup Syncs : pc[t] = "done" /\ t \notin mixed =>
        \A m \in Motors : t \notin Motions(m)

\* However a synchronized context ends, nothing of it stays behind: the client
\* refuses moves only while one is open, and has no motion prepared for a later
\* one; and once its messages are handled the server is no longer collecting
\* motions, so that an error between prestart_all and start_all does not turn
\* the next start_one into one that never starts.
NoHalfStart ==
    /\ syncing <=> \E t \in Syncs : pc[t] \in {"preparing", "unwinding"}
    /\ ~syncing => pending = <<>>
    /\ (\A t \in Syncs : pc[t] # "unwinding") /\ requests = <<>> => ~collecting /\ buffer = {}

\* All the motors of a synchronized context start with one command of the
\* server, and with no motor of another task.
StartTogether ==
    \A i \in DOMAIN commands : \A x \in commands[i] :
        x[2] \in Syncs => commands[i] = {<<m, x[2]>> : m \in Range(batch[x[2]])}

\* When every context has been left, nothing of it remains: no count, no
\* listener, no registration.
NoLeak ==
    /\ \A t \in Tasks : pc[t] \in {"idle"} \cup Ended
    /\ open = {}
    => /\ \A m \in Motors : watchers[m] = 0
       /\ \A s \in MotorStreams : listening[s] = {} /\ depth[s] = 0
       /\ requests = <<>> => registered = {}

\* A move, and a synchronized context left with its motions prepared, ends,
\* unless another context has stopped all motors.
MotionsEnd ==
    \A t \in Moves \cup Syncs :
        pc[t] \in {"waiting", "unwinding"}
            ~> (pc[t] \in Ended \/ \E s \in Syncs : pc[s] = "aborted")

\* The task start_move returns "can be awaited to wait for the move to
\* complete" (_motor.py:234): it does not end with an error of its own, except
\* that a synchronized context refuses it.
StartedMovesComplete ==
    \A t \in Starts : pc[t] = "done" /\ Syncs = {} => pc[Child[t]] # "failed"

\* The client and the server have nothing more to tell each other and no motor
\* moves.
Settled ==
    /\ requests = <<>> /\ events = <<>> /\ commands = <<>> /\ answers = {}
    /\ \A m \in Motors : moving[m] = None

\* "Wait until the property currently has the specified value"
\* (_remote_property_table.py:481): when all has settled, nobody still waits
\* for a motor to stand.
WaitsEnd ==
    Settled => \A t \in Waits : ~Expects(t, Moving(MotorOf[t]))

\* Inside the motor's group that holds for the one wait of the motor: between
\* the look at the cache, the answer to a read and the update, no wake-up is
\* lost.  With a second wait it does not hold: what the first one has read may
\* get into the cache after the update that followed it (GetReturnsServerValue
\* of PropertySync), and the second would wait for an update that has been.
GroupWaitsEnd ==
    Settled => \A t \in Waits :
        /\ MotorOf[t] \in open
        /\ \A u \in Waits \ {t} : MotorOf[u] = MotorOf[t] => pc[u] = "idle"
        => ~Expects(t, Moving(MotorOf[t]))
===============================================================================
