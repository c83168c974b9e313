---------------------------- MODULE MCReconnect ----------------------------
(***************************************************************************)
(* Reconnect for TLC: a ring of two bytes, so that a late reconnect finds  *)
(* its position overwritten, and enough breaks to lose a connection before *)
(* and after its replay.                                                   *)
(***************************************************************************)
EXTENDS Reconnect
=============================================================================
