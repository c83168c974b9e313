------------------------------- MODULE MCWire -------------------------------
(***************************************************************************)
(* Wire for TLC.  Bytes have 16 values, positions and prefixes two bytes,  *)
(* sizes one.  There is one message for every layout and every limit: an   *)
(* empty payload, payloads at the limits of an intro and of a frame, and   *)
(* messages one byte too long, which have to be refused by the sender.     *)
(***************************************************************************)
EXTENDS Wire, TLC

MCIntro ==
    { [type |-> HELLO, seq |-> 0, cols |-> 8, rows |-> 15, token |-> << >>],
      [type |-> RECONNECT, seq |-> 18, cols |-> 1, rows |-> 2, token |-> <<5>>],
      [type |-> RECONNECT, seq |-> 18, cols |-> 1, rows |-> 2, token |-> <<5, 5>>],
      [type |-> CONTROL_SHUTDOWN, token |-> <<7>>, data |-> <<1, 2, 3>>],
      [type |-> CONTROL_SHUTDOWN, token |-> <<7>>, data |-> <<1, 2, 3, 4>>] }

MCToServer ==
    { [type |-> STDIN, data |-> <<9>>],
      [type |-> RESIZE, cols |-> 3, rows |-> 4],
      [type |-> ACK, seq |-> 255] }

MCToClient ==
    { [type |-> WELCOME, seq |-> 3, next_seq |-> 16],
      [type |-> REPLAY, seq |-> 3, data |-> << >>],
      [type |-> STDOUT, seq |-> 16, data |-> <<1, 2, 3, 4, 5>>],
      [type |-> STDOUT, seq |-> 16, data |-> <<1, 2, 3, 4, 5, 6>>],
      [type |-> ERROR, data |-> << >>] }
=============================================================================
