-------------------------- MODULE MCClientSockets --------------------------
(* Instances of ClientSockets for TLC.                                      *)
EXTENDS ClientSockets
=============================================================================
