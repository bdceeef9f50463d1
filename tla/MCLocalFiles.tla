---------------------------- MODULE MCLocalFiles ----------------------------
(* Instances of LocalFiles for TLC.                                         *)
EXTENDS LocalFiles, TLC

CONSTANTS p1, p2, w1, w2

(* p2 holds a space, and what comes before it is p1.                        *)
Reads == [p \in Path |-> p1]

WorkerSymmetry == Permutations(Workers)
=============================================================================
