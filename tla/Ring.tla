-------------------------------- MODULE Ring --------------------------------
(***************************************************************************)
(* src/ring.c as a state machine: one opty_ring, any sequence of appends   *)
(* and snapshots, each atomic under ring->mu.  `stream` is the ghost that  *)
(* the ring is judged by: every byte ever appended.                        *)
(***************************************************************************)
EXTENDS RingOps

CONSTANTS
    Chunks,     \* the byte strings one append may carry (one read of the PTY)
    Requests,   \* the positions a client may ask for
    MaxSeq      \* bound on the output of one run

ASSUME ChunksAssumption == Chunks \subseteq Seq(Byte)
ASSUME RequestsAssumption == Requests \subseteq Nat

VARIABLES
    ring,       \* struct opty_ring
    stream,     \* ghost: the whole output
    asked,      \* requested_seq of the last snapshot
    reply       \* its out-parameters and the bytes it returned

vars == <<ring, stream, asked, reply>>

Init == /\ ring = opty_ring_init
        /\ stream = << >>
        /\ asked = 0
        /\ reply = << >>

\* pty_thread_main appends what it read.
AppendOutput(data) ==
    /\ ring.next_seq + Len(data) <= MaxSeq
    /\ ring' = opty_ring_append(ring, data)
    /\ stream' = stream \o data
    /\ UNCHANGED <<asked, reply>>

\* server_send_welcome_and_replay takes a window.
Snapshot(requested_seq) == /\ asked' = requested_seq
                           /\ reply' = opty_ring_snapshot_window(ring, requested_seq)
                           /\ UNCHANGED <<ring, stream>>

Next == \/ \E data \in Chunks : AppendOutput(data)
        \/ \E seq \in Requests : Snapshot(seq)

Spec == Init /\ [][Next]_vars

-----------------------------------------------------------------------------
Replies == [base_seq : Nat, from_seq : Nat, next_seq : Nat,
            data : Seq(Byte \cup {Garbage})]

\* The ring, the ghost and the last answer have the shapes of struct
\* opty_ring and of the out-parameters of opty_ring_snapshot_window.
TypeOK == /\ ring \in Rings
          /\ stream \in Seq(Byte)
          /\ asked \in Nat
          /\ reply = << >> \/ reply \in Replies

\* The bookkeeping of opty_ring_append: next_seq counts the output and
\* base_seq trails it by what the ring can hold, so a window is never larger
\* than the buffer and never smaller than it has to be.
WindowBounds == /\ ring.next_seq = Len(stream)
                /\ ring.base_seq = IF Len(stream) > Cap THEN Len(stream) - Cap ELSE 0

\* Every position of the window is found, modulo Cap, in the slot the code
\* looks for it in: no append, however it wraps or however much longer than
\* the ring it is, damages or misplaces a byte that is still to be replayed.
WindowContents == \A s \in ring.base_seq .. ring.next_seq - 1 :
                     ring.buf[s % Cap] = stream[s + 1]

\* What a snapshot handed out stays what was printed at those positions.
ReplyFaithful == reply # << >> =>
    /\ reply.next_seq <= Len(stream)
    /\ reply.data = SubSeq(stream, reply.from_seq + 1, reply.next_seq)

\* The ring implements the abstract log: base_seq, the clipping of the
\* requested position and the bytes copied out are those of OutputLog.
Log == INSTANCE OutputLog
         WITH Cap <- Cap, Byte <- Byte, stream <- stream, asked <- asked, reply <- reply
ImplementsLog == Log!LogSpec
=============================================================================
