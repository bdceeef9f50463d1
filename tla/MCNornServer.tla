---------------------------- MODULE MCNornServer ----------------------------
(* Instances of NornServer for TLC.                                         *)
EXTENDS NornServerInv, TLC

ConnSymmetry == Permutations(Conns)
=============================================================================
