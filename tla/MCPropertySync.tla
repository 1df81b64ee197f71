---------------------------- MODULE MCPropertySync ----------------------------
(***************************************************************************)
(* Instances of PropertySync for TLC.                                      *)
(***************************************************************************)
EXTENDS PropertySync, TLC

CONSTANTS c1, c2, p, q

MCReaders == {1}
NoReaders == {}
SecondRefused == {2}
ClientSymmetry == Permutations(Clients)
===============================================================================
