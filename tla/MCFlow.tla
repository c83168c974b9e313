------------------------------- MODULE MCFlow -------------------------------
(***************************************************************************)
(* Flow for TLC: buffers of one unit, so that every hop blocks at once.    *)
(* Both users type, and one closes the window at some point.               *)
(***************************************************************************)
EXTENDS Flow, TLC

CONSTANTS c1, c2

MCList == <<c1, c2>>
MCUsers == c1 :> {"type", "close"} @@ c2 :> {"type"}
=============================================================================
