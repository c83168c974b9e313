------------------------------ MODULE MCFanout ------------------------------
(***************************************************************************)
(* Fanout for TLC: two connections, a ring of one or two bytes and chunks  *)
(* that can be longer than the ring.  One configuration looks at safety,   *)
(* the other, smaller and with allocations that may fail, at liveness.     *)
(***************************************************************************)
EXTENDS Fanout, TLC

Symmetry == Permutations(Conn)
=============================================================================
