---------------------------- MODULE MCWindowsShm ----------------------------
(* Instances of WindowsShm for TLC.                                         *)
EXTENDS WindowsShm, TLC
=============================================================================
