------------------------------- MODULE EventLoop -------------------------------
(***************************************************************************)
(* What the programs of this project share: each is a single-threaded      *)
(* asyncio event loop that runs the head of its FIFO ready queue up to the *)
(* next await of something that is not there yet.  A connection is a FIFO  *)
(* channel of messages each way.  Bytes that arrive put the connection's   *)
(* listener on the ready queue, at most once; the listener, when it runs,  *)
(* consumes what has arrived and puts one task per message at the tail,    *)
(* because the handlers it emits to are coroutines.                        *)
(*                                                                         *)
(* The modules that use these operators assume that no write meets a full  *)
(* transport buffer, so that StreamWriter.drain() does not suspend and a   *)
(* message is sent whole.                                                  *)
(***************************************************************************)
EXTENDS Integers, Sequences, SequencesExt

\* An entry of a ready queue: what kind of step, for which connection, with
\* which message.
Task(kind, c, m) == [kind |-> kind, conn |-> c, msg |-> m]
Tasks(kind, conns, msgs) == [kind : {kind}, conn : conns, msg : msgs]

\* The tasks of the first k messages of a channel, and what is left of it.
HandleAll(kind, c, channel, k) == [i \in 1..k |-> Task(kind, c, channel[i])]
Drop(s, k) == SubSeq(s, k + 1, Len(s))

\* The listener of connection c waits in ready queue q.
Listening(q, c) == \E i \in DOMAIN q : q[i].kind = "listen" /\ q[i].conn = c
================================================================================
