----------------------------- MODULE MCPosixLink -----------------------------
(* Instances of PosixLink for TLC.                                          *)
EXTENDS PosixLink

Ports == {1, 2}
=============================================================================
