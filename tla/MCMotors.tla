------------------------------- MODULE MCMotors -------------------------------
(***************************************************************************)
(* Instances of Motors for TLC.                                            *)
(***************************************************************************)
EXTENDS Motors

CONSTANTS m1, m2, move, start, started, sync, other, wait

MCMotorOf == [t \in Moves \cup Starts \cup Waits |-> IF t = move THEN m2 ELSE m1]
MCChild == [t \in Starts |-> started]
===============================================================================
