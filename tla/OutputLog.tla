----------------------------- MODULE OutputLog -----------------------------
(***************************************************************************)
(* What the ring of src/ring.c promises the server: an append-only log of  *)
(* the PTY output of which a reader can get the end, from any position,    *)
(* but no further back than the last Cap bytes.  No buffer, no modulo: the *)
(* whole output is kept and a read is a SubSeq of it.                      *)
(***************************************************************************)
EXTENDS Naturals, Sequences

CONSTANTS Cap, Byte

VARIABLES
    stream,     \* every byte ever appended
    asked,      \* the position the last reader asked for
    reply       \* the answer it was given, << >> before the first

\* The first position that is still retained.
Oldest == IF Len(stream) > Cap THEN Len(stream) - Cap ELSE 0

\* The retained position closest to the requested one.
Clip(seq) == IF seq < Oldest THEN Oldest
             ELSE IF seq > Len(stream) THEN Len(stream)
             ELSE seq

Answer(seq) == [base_seq |-> Oldest,
                from_seq |-> Clip(seq),
                next_seq |-> Len(stream),
                data     |-> SubSeq(stream, Clip(seq) + 1, Len(stream))]

LogInit == stream = << >> /\ asked = 0 /\ reply = << >>

\* The output only ever grows at its end.
Write == /\ stream' \in Seq(Byte)
         /\ Len(stream') >= Len(stream)
         /\ SubSeq(stream', 1, Len(stream)) = stream
         /\ UNCHANGED <<asked, reply>>

Read == /\ asked' \in Nat
        /\ reply' = Answer(asked')
        /\ UNCHANGED stream

LogNext == Write \/ Read

LogSpec == LogInit /\ [][LogNext]_<<stream, asked, reply>>
=============================================================================
