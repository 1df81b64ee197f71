---------------------------- MODULE MessageChannel ----------------------------
(***************************************************************************)
(* What the two directions of a connection promise: whole messages, each   *)
(* once, in the order in which they were sent, with the meaning the sender *)
(* gave them.                                                              *)
(***************************************************************************)
EXTENDS Naturals, Sequences

CONSTANTS
    Ends,           \* the two ends of the connection
    Peer(_),        \* the other end
    Messages,       \* what can be sent
    Understood(_)   \* what the receiver is to make of a message

VARIABLES
    sent,       \* sent[e]: the messages e has sent
    received    \* received[e]: what e has received

vars == <<sent, received>>

Init ==
    /\ sent = [e \in Ends |-> <<>>]
    /\ received = [e \in Ends |-> <<>>]

Send(e) ==
    /\ \E m \in Messages : sent' = [sent EXCEPT ![e] = Append(@, m)]
    /\ UNCHANGED received

Receive(e) ==
    LET n == Len(received[e]) IN
    /\ n < Len(sent[Peer(e)])
    /\ received' = [received EXCEPT ![e] = Append(@, Understood(sent[Peer(e)][n + 1]))]
    /\ UNCHANGED sent

Next == \E e \in Ends : Send(e) \/ Receive(e)

Spec == Init /\ [][Next]_vars
===============================================================================
