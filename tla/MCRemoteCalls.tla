---------------------------- MODULE MCRemoteCalls ----------------------------
(***************************************************************************)
(* Instances of RemoteCalls for TLC.                                       *)
(***************************************************************************)
EXTENDS RemoteCalls

CONSTANTS c1, c2

ClientSymmetry == Permutations(Clients)
===============================================================================
