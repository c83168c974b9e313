------------------------------ MODULE RingOps ------------------------------
(***************************************************************************)
(* The output ring of the server, src/ring.c: struct opty_ring without its *)
(* mutex, and the two operations the server calls on it, as operators from *)
(* a ring value to a ring value.  Every call runs wholly under ring->mu,   *)
(* and no call blocks while it holds that mutex, so one call is one step.  *)
(*                                                                         *)
(* Sequence numbers are the code's uint64_t byte positions of the PTY      *)
(* output.  They are plain naturals here: 2^64 bytes of terminal output    *)
(* are out of reach of any run of the program.                             *)
(***************************************************************************)
EXTENDS Naturals, Sequences

CONSTANTS
    Cap,        \* ring->cap, the capacity in bytes
    Byte,       \* the values of a byte of PTY output
    Garbage     \* what malloc leaves in a slot that was never written

ASSUME CapAssumption == Cap \in Nat \ {0}
ASSUME GarbageAssumption == Garbage \notin Byte

opty_min_size(a, b) == IF a < b THEN a ELSE b

Slots == 0 .. Cap - 1

\* struct opty_ring
Rings == [buf : [Slots -> Byte \cup {Garbage}], base_seq : Nat, next_seq : Nat]

\* opty_ring_init: the buffer is allocated and not cleared.
opty_ring_init == [buf |-> [i \in Slots |-> Garbage], base_seq |-> 0, next_seq |-> 0]

\* Faulty variant of CopyIn: only the first memcpy.
CopyIn_NoWrap(buf, old_next, data) ==
    LET keep    == opty_min_size(Len(data), Cap)
        src_off == Len(data) - keep
        dest    == (old_next + src_off) % Cap
    IN  [i \in Slots |->
            IF dest <= i /\ i < dest + keep THEN data[src_off + (i - dest) + 1] ELSE buf[i]]

\* The two memcpy calls of opty_ring_append: the kept tail of data goes to
\* dest .. dest+first-1, and what does not fit before the end of the buffer
\* goes to its beginning.
CopyIn(buf, old_next, data) ==
    LET keep    == opty_min_size(Len(data), Cap)
        src_off == Len(data) - keep
        dest    == (old_next + src_off) % Cap
        first   == opty_min_size(Cap - dest, keep)
    IN  [i \in Slots |->
            IF dest <= i /\ i < dest + first THEN data[src_off + (i - dest) + 1]
            ELSE IF i < keep - first         THEN data[src_off + first + i + 1]
            ELSE buf[i]]

\* Faulty variant of NewBase: base_seq always trails by Cap, also before the
\* ring is full.
NewBase_Always(ring, len) == (ring.next_seq + len) - Cap

\* base_seq after an append of len bytes: it moves only when the bytes kept
\* so far and the new ones exceed the capacity.
NewBase(ring, len) ==
    IF (ring.next_seq - ring.base_seq) + len > Cap
    THEN (ring.next_seq + len) - Cap
    ELSE ring.base_seq

\* opty_ring_append; the start_seq it reports is ring.next_seq before the call.
opty_ring_append(ring, data) ==
    [buf      |-> CopyIn(ring.buf, ring.next_seq, data),
     base_seq |-> NewBase(ring, Len(data)),
     next_seq |-> ring.next_seq + Len(data)]

\* Faulty variant of FromSeq: a position beyond the end replays everything.
FromSeq_Beyond(ring, requested_seq) ==
    IF requested_seq < ring.base_seq \/ requested_seq > ring.next_seq
    THEN ring.base_seq ELSE requested_seq

\* The position a snapshot starts at: the requested one, clipped to the window.
FromSeq(ring, requested_seq) ==
    IF requested_seq < ring.base_seq THEN ring.base_seq
    ELSE IF requested_seq > ring.next_seq THEN ring.next_seq
    ELSE requested_seq

\* Faulty variant of CopyOut: the second memcpy reads from buf + 1.
CopyOut_Shifted(buf, from, out_len) ==
    LET start_idx == from % Cap
        first     == opty_min_size(Cap - start_idx, out_len)
    IN  [i \in 1 .. out_len |->
            IF i <= first THEN buf[start_idx + (i - 1)] ELSE buf[i - first]]

\* The two memcpy calls of opty_ring_snapshot_window.
CopyOut(buf, from, out_len) ==
    LET start_idx == from % Cap
        first     == opty_min_size(Cap - start_idx, out_len)
    IN  [i \in 1 .. out_len |->
            IF i <= first THEN buf[start_idx + (i - 1)] ELSE buf[i - first - 1]]

\* opty_ring_snapshot_window when its malloc succeeds (or nothing is copied).
opty_ring_snapshot_window(ring, requested_seq) ==
    LET from == FromSeq(ring, requested_seq)
    IN  [base_seq |-> ring.base_seq,
         from_seq |-> from,
         next_seq |-> ring.next_seq,
         data     |-> CopyOut(ring.buf, from, ring.next_seq - from)]

\* n bytes of output from position from on, where a byte is identified by its
\* position.
Positions(from, n) == [i \in 1 .. n |-> from + i - 1]
=============================================================================
