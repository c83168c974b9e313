----------------------------- MODULE MCSessions -----------------------------
(***************************************************************************)
(* Sessions for TLC: two processes that run commands at the same time, two *)
(* session names and two ports, so that a dead session's port can be given *)
(* to the other session, and two starts that get as far as a token.        *)
(***************************************************************************)
EXTENDS Sessions
=============================================================================
