---------------------------- MODULE MCPosixCall ----------------------------
(* Instances of PosixCall for TLC.                                          *)
EXTENDS PosixCall, TLC
=============================================================================
