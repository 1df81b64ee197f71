------------------------------- MODULE RemoteCall -------------------------------
(***************************************************************************)
(* What remote_func, remote_cmd and their _no_return forms promise, apart  *)
(* from sequence numbers, queues and messages: the server executes a call  *)
(* at most once and after it was made; a caller gets the outcome of the    *)
(* call it made, and only when the execution has ended; no execution is    *)
(* aborted unless some caller was interrupted.                             *)
(***************************************************************************)
CONSTANTS
    Calls,      \* the calls that can be made
    None        \* no answer

VARIABLES
    caller,     \* caller[k]: where the coroutine that makes call k stands
    callee,     \* callee[k]: where the server's execution of call k stands
    answer      \* answer[k]: the call whose result the caller of k was given

vars == <<caller, callee, answer>>

CallerStates == {"new", "sent", "waiting", "returned", "failed", "interrupted"}
CalleeStates == {"idle", "running", "result", "raised", "aborted"}

TypeOK ==
    /\ caller \in [Calls -> CallerStates]
    /\ callee \in [Calls -> CalleeStates]
    /\ answer \in [Calls -> Calls \cup {None}]

Init ==
    /\ caller = [k \in Calls |-> "new"]
    /\ callee = [k \in Calls |-> "idle"]
    /\ answer = [k \in Calls |-> None]

\* A call that wants no reply is over for its caller when it is sent.
Issue(k) ==
    /\ caller[k] = "new"
    /\ \E how \in {"sent", "waiting"} : caller' = [caller EXCEPT ![k] = how]
    /\ UNCHANGED <<callee, answer>>

Start(k) ==
    /\ caller[k] # "new"
    /\ callee[k] = "idle"
    /\ callee' = [callee EXCEPT ![k] = "running"]
    /\ UNCHANGED <<caller, answer>>

\* A function that is no coroutine starts and ends in one step.
End(k) ==
    /\ caller[k] # "new"
    /\ callee[k] \in {"idle", "running"}
    /\ \E how \in {"result", "raised"} : callee' = [callee EXCEPT ![k] = how]
    /\ UNCHANGED <<caller, answer>>

Abort(k) ==
    /\ callee[k] = "running"
    /\ \E j \in Calls : caller[j] = "interrupted"
    /\ callee' = [callee EXCEPT ![k] = "aborted"]
    /\ UNCHANGED <<caller, answer>>

Return(k) ==
    /\ caller[k] = "waiting"
    /\ callee[k] = "result"
    /\ caller' = [caller EXCEPT ![k] = "returned"]
    /\ answer' = [answer EXCEPT ![k] = k]
    /\ UNCHANGED callee

Fail(k) ==
    /\ caller[k] = "waiting"
    /\ callee[k] \in {"raised", "aborted"}
    /\ caller' = [caller EXCEPT ![k] = "failed"]
    /\ UNCHANGED <<callee, answer>>

Interrupt(k) ==
    /\ caller[k] = "waiting"
    /\ caller' = [caller EXCEPT ![k] = "interrupted"]
    /\ UNCHANGED <<callee, answer>>

Next == \E k \in Calls :
    Issue(k) \/ Start(k) \/ End(k) \/ Abort(k) \/ Return(k) \/ Fail(k) \/ Interrupt(k)

Spec == Init /\ [][Next]_vars
================================================================================
