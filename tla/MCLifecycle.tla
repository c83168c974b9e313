---------------------------- MODULE MCLifecycle ----------------------------
(***************************************************************************)
(* Lifecycle for TLC: two connections, so that two stop requests, a signal *)
(* and an attached client's input overlap.                                 *)
(***************************************************************************)
EXTENDS Lifecycle, TLC

Symmetry == Permutations(Conn)
=============================================================================
