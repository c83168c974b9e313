----------------------------- MODULE RingProofs -----------------------------
(***************************************************************************)
(* The ring of src/ring.c implements the abstract OutputLog.               *)
(***************************************************************************)
EXTENDS Ring, RingOpsProofs

-----------------------------------------------------------------------------
(***************************************************************************)
(* The inductive invariant and the theorems.                               *)
(***************************************************************************)

RingInv == TypeOK /\ WindowBounds /\ WindowContents /\ ReplyFaithful

\* The empty ring.
LEMMA RingInit == Init => RingInv
  <1> SUFFICES ASSUME Init PROVE RingInv
    OBVIOUS
  <1>1. ring.buf \in [Slots -> Byte \cup {Garbage}] /\ ring.base_seq = 0 /\ ring.next_seq = 0
        /\ ring \in Rings
    BY DEF Init, opty_ring_init, Rings
  <1>2. stream \in Seq(Byte) /\ Len(stream) = 0 /\ asked \in Nat /\ reply = << >>
    BY DEF Init
  <1>3. ring.base_seq .. ring.next_seq - 1 = {}
    BY <1>1
  <1> QED BY <1>1, <1>2, <1>3, CapAssumption
         DEF RingInv, TypeOK, WindowBounds, WindowContents, ReplyFaithful

\* An append of any length keeps the window right and the old answers true.
LEMMA AppendPreserves ==
    ASSUME RingInv, NEW data \in Chunks, AppendOutput(data)
    PROVE  RingInv'
  <1> DEFINE n == Len(stream)
             L == Len(data)
             b == ring.base_seq
  <1>1. /\ data \in Seq(Byte) /\ stream \in Seq(Byte) /\ n \in Nat /\ L \in Nat
        /\ ring.next_seq = n /\ b = (IF n > Cap THEN n - Cap ELSE 0)
        /\ ring.buf \in [Slots -> Byte \cup {Garbage}] /\ b \in Nat
    BY ChunksAssumption DEF RingInv, TypeOK, WindowBounds, Rings
  <1>2. /\ stream' = stream \o data /\ asked' = asked /\ reply' = reply
        /\ ring' = [buf      |-> CopyIn(ring.buf, n, data),
                    base_seq |-> NewBase(ring, L),
                    next_seq |-> n + L]
    BY <1>1 DEF AppendOutput, opty_ring_append
  <1>3. /\ stream' \in Seq(Byte) /\ Len(stream') = n + L
        /\ \A i \in 1 .. n : stream'[i] = stream[i]
        /\ \A i \in 1 .. L : stream'[n + i] = data[i]
    BY <1>1, <1>2
  <1>4. /\ ring'.buf = CopyIn(ring.buf, n, data)
        /\ ring'.base_seq = NewBase(ring, L) /\ ring'.next_seq = n + L
    BY <1>2
  <1> HIDE DEF n, L
  <1>5. NewBase(ring, L) = (IF n + L > Cap THEN (n + L) - Cap ELSE 0)
    <2>1. NewBase(ring, L) = IF (n - b) + L > Cap THEN (n + L) - Cap ELSE b
      BY <1>1 DEF NewBase
    <2> HIDE DEF b
    <2> QED BY <2>1, <1>1, CapAssumption
  <1>6. WindowBounds'
    BY <1>3, <1>4, <1>5 DEF WindowBounds
  <1>7. TypeOK'
    <2>1. NewBase(ring, L) \in Nat
      BY <1>1, <1>5, CapAssumption
    <2>2. CopyIn(ring.buf, n, data) \in [Slots -> Byte \cup {Garbage}]
      BY <1>1, CopyInType
    <2>3. ring' \in Rings
      BY <1>1, <1>2, <2>1, <2>2 DEF Rings
    <2> QED BY <2>3, <1>2, <1>3 DEF TypeOK, RingInv
  <1>8. WindowContents'
    <2> SUFFICES ASSUME NEW s \in NewBase(ring, L) .. (n + L) - 1
                 PROVE  CopyIn(ring.buf, n, data)[s % Cap] = stream'[s + 1]
      BY <1>4 DEF WindowContents
    <2>1. s \in Nat /\ s < n + L /\ n + L - s <= Cap
      BY <1>1, <1>5, CapAssumption
    <2>2. CASE s < n
      <3>1. CopyIn(ring.buf, n, data)[s % Cap] = ring.buf[s % Cap]
        BY <1>1, <2>1, <2>2, CopyInOld DEF L
      <3>2. s \in b .. n - 1
        <4> HIDE DEF b
        <4> QED BY <1>1, <2>1, <2>2, CapAssumption
      <3>3. ring.buf[s % Cap] = stream[s + 1]
        BY <3>2, <1>1 DEF RingInv, WindowContents
      <3>4. stream'[s + 1] = stream[s + 1]
        BY <1>1, <1>3, <2>1, <2>2
      <3> QED BY <3>1, <3>3, <3>4
    <2>3. CASE ~ (s < n)
      <3>1. s \in n .. n + L - 1
        BY <1>1, <2>1, <2>3
      <3>2. CopyIn(ring.buf, n, data)[s % Cap] = data[s - n + 1]
        BY <1>1, <2>1, <3>1, CopyInNew DEF L
      <3>3. s - n + 1 \in 1 .. L /\ n + (s - n + 1) = s + 1
        BY <1>1, <3>1
      <3>4. stream'[n + (s - n + 1)] = data[s - n + 1]
        BY <1>3, <3>3
      <3> QED BY <3>2, <3>3, <3>4
    <2> QED BY <2>2, <2>3
  <1>9. ReplyFaithful'
    <2> SUFFICES ASSUME reply # << >>
                 PROVE  /\ reply.next_seq <= n + L
                        /\ reply.data = SubSeq(stream', reply.from_seq + 1, reply.next_seq)
      BY <1>2, <1>3 DEF ReplyFaithful
    <2>1. /\ reply.next_seq \in Nat /\ reply.from_seq \in Nat
          /\ reply.next_seq <= n
          /\ reply.data = SubSeq(stream, reply.from_seq + 1, reply.next_seq)
      BY DEF RingInv, TypeOK, ReplyFaithful, Replies, n
    <2>2. SubSeq(stream', reply.from_seq + 1, reply.next_seq)
            = SubSeq(stream, reply.from_seq + 1, reply.next_seq)
      <3> DEFINE f == reply.from_seq
                 e == reply.next_seq
      <3>1. f \in Nat /\ e \in Nat /\ e <= n
        BY <2>1
      <3> HIDE DEF f, e
      <3>2. \A i \in 1 .. (e - (f + 1) + 1) : i + (f + 1) - 1 \in 1 .. n
        BY <3>1, <1>1
      <3>3. /\ SubSeq(stream', f + 1, e) = [i \in 1 .. (e - (f + 1) + 1) |-> stream'[i + (f + 1) - 1]]
            /\ SubSeq(stream, f + 1, e) = [i \in 1 .. (e - (f + 1) + 1) |-> stream[i + (f + 1) - 1]]
        BY <1>1, <1>3, <3>1
      <3>4. SubSeq(stream', f + 1, e) = SubSeq(stream, f + 1, e)
        BY <1>3, <3>2, <3>3
      <3> QED BY <3>4 DEF f, e
    <2>3. reply.next_seq <= n + L
      BY <1>1, <2>1
    <2> QED BY <2>1, <2>2, <2>3
  <1> QED BY <1>6, <1>7, <1>8, <1>9 DEF RingInv

\* A snapshot gives the answer of the abstract log.
LEMMA SnapshotAnswer ==
    ASSUME RingInv, NEW q \in Nat
    PROVE  opty_ring_snapshot_window(ring, q) = Log!Answer(q)
  <1> DEFINE n    == Len(stream)
             from == FromSeq(ring, q)
  <1>1. /\ stream \in Seq(Byte) /\ n \in Nat /\ ring.next_seq = n
        /\ ring.base_seq = (IF n > Cap THEN n - Cap ELSE 0)
    BY DEF RingInv, TypeOK, WindowBounds
  <1>2. ring.base_seq = Log!Oldest /\ from = Log!Clip(q)
    BY <1>1 DEF Log!Oldest, Log!Clip, FromSeq
  <1>3. from \in ring.base_seq .. n /\ from \in 0 .. n /\ n - from <= Cap
    BY <1>1, CapAssumption DEF FromSeq
  <1> HIDE DEF from
  <1>4. \A s \in from .. n - 1 : ring.buf[s % Cap] = stream[s + 1]
    <2>1. \A s \in from .. n - 1 : s \in ring.base_seq .. ring.next_seq - 1
      BY <1>1, <1>3, CapAssumption
    <2> QED BY <2>1 DEF RingInv, WindowContents
  <1>5. CopyOut(ring.buf, from, n - from) = SubSeq(stream, from + 1, n)
    BY <1>1, <1>3, <1>4, CopyOutExact
  <1> QED BY <1>1, <1>2, <1>5 DEF opty_ring_snapshot_window, Log!Answer, from

\* A snapshot keeps the invariant.
LEMMA SnapshotPreserves ==
    ASSUME RingInv, NEW q \in Requests, Snapshot(q)
    PROVE  RingInv'
  <1>1. /\ q \in Nat /\ ring' = ring /\ stream' = stream /\ asked' = q
        /\ reply' = Log!Answer(q)
    BY SnapshotAnswer, RequestsAssumption DEF Snapshot
  <1> DEFINE n == Len(stream)
             c == Log!Clip(q)
  <1>2. stream \in Seq(Byte) /\ n \in Nat /\ Log!Oldest \in Nat /\ c \in Nat /\ c <= n
    BY <1>1, CapAssumption DEF RingInv, TypeOK, Log!Clip, Log!Oldest
  <1>3. /\ reply'.from_seq = c /\ reply'.next_seq = n /\ reply'.data = SubSeq(stream, c + 1, n)
        /\ reply' = [base_seq |-> Log!Oldest, from_seq |-> c, next_seq |-> n,
                     data |-> SubSeq(stream, c + 1, n)]
    BY <1>1 DEF Log!Answer
  <1>4. SubSeq(stream, c + 1, n) \in Seq(Byte)
    <2>1. \A i \in c + 1 .. n : stream[i] \in Byte
      BY <1>2
    <2> QED BY <1>2, <2>1
  <1>5. SubSeq(stream, c + 1, n) \in Seq(Byte \cup {Garbage})
    BY <1>4
  <1> HIDE DEF c, n
  <1>6. reply' \in Replies
    BY <1>2, <1>3, <1>5 DEF Replies
  <1>7. ReplyFaithful'
    BY <1>1, <1>2, <1>3 DEF ReplyFaithful, n
  <1>8. TypeOK' /\ WindowBounds' /\ WindowContents'
    BY <1>1, <1>6 DEF RingInv, TypeOK, WindowBounds, WindowContents
  <1> QED BY <1>7, <1>8 DEF RingInv

\* Every step keeps the invariant.
LEMMA RingStep == RingInv /\ [Next]_vars => RingInv'
  <1> SUFFICES ASSUME RingInv, [Next]_vars PROVE RingInv'
    OBVIOUS
  <1>1. CASE \E data \in Chunks : AppendOutput(data)
    BY <1>1, AppendPreserves
  <1>2. CASE \E q \in Requests : Snapshot(q)
    BY <1>2, SnapshotPreserves
  <1>3. CASE UNCHANGED vars
    BY <1>3 DEF vars, RingInv, TypeOK, WindowBounds, WindowContents, ReplyFaithful
  <1> QED BY <1>1, <1>2, <1>3 DEF Next

\* The conjunction is an invariant: next_seq and base_seq are exact
\* (WindowBounds), every retained position is where the copy loops of
\* opty_ring_snapshot_window look for it (WindowContents) and every answer
\* ever given was right (ReplyFaithful).
THEOREM RingInvariant == Spec => []RingInv
  BY RingInit, RingStep, PTL DEF Spec

\* The shapes of struct opty_ring and of the answers of
\* opty_ring_snapshot_window are kept.
THEOREM TypeOKHolds == Spec => []TypeOK
  <1>1. RingInv => TypeOK
    BY DEF RingInv
  <1> QED BY RingInvariant, <1>1, PTL

\* opty_ring_append keeps next_seq equal to the length of the output and
\* base_seq no more than Cap behind it.
THEOREM WindowBoundsHold == Spec => []WindowBounds
  <1>1. RingInv => WindowBounds
    BY DEF RingInv
  <1> QED BY RingInvariant, <1>1, PTL

\* opty_ring_append never loses, damages or misplaces a byte of the window,
\* for every capacity, every chunk length and every number of appends.
THEOREM WindowContentsHolds == Spec => []WindowContents
  <1>1. RingInv => WindowContents
    BY DEF RingInv
  <1> QED BY RingInvariant, <1>1, PTL

\* A window that opty_ring_snapshot_window returned stays what was printed at
\* its positions.
THEOREM ReplyFaithfulHolds == Spec => []ReplyFaithful
  <1>1. RingInv => ReplyFaithful
    BY DEF RingInv
  <1> QED BY RingInvariant, <1>1, PTL

\* The ring implements the append-only log with bounded replay: for every
\* requested position opty_ring_snapshot_window returns the bytes, the start
\* and the bounds that OutputLog!Answer computes from the whole output.
THEOREM RingImplementsLog == Spec => ImplementsLog
  <1>1. Init => Log!LogInit
    BY DEF Init, Log!LogInit
  <1>2. RingInv /\ [Next]_vars => [Log!LogNext]_<<stream, asked, reply>>
    <2> SUFFICES ASSUME RingInv, [Next]_vars
                 PROVE  [Log!LogNext]_<<stream, asked, reply>>
      OBVIOUS
    <2>1. ASSUME NEW data \in Chunks, AppendOutput(data)
          PROVE  Log!Write
      <3>1. stream \in Seq(Byte) /\ data \in Seq(Byte) /\ stream' = stream \o data
        BY <2>1, ChunksAssumption DEF RingInv, TypeOK, AppendOutput
      <3>2. /\ stream' \in Seq(Byte) /\ Len(stream') >= Len(stream)
            /\ \A i \in 1 .. Len(stream) : stream'[i] = stream[i]
        BY <3>1
      <3>3. SubSeq(stream', 1, Len(stream)) = stream
        BY <3>1, <3>2
      <3> QED BY <2>1, <3>2, <3>3 DEF Log!Write, AppendOutput
    <2>2. ASSUME NEW q \in Requests, Snapshot(q)
          PROVE  Log!Read
      BY <2>2, SnapshotAnswer, RequestsAssumption DEF Snapshot, Log!Read
    <2>3. CASE UNCHANGED vars
      BY <2>3 DEF vars
    <2> QED BY <2>1, <2>2, <2>3 DEF Next, Log!LogNext
  <1> QED BY <1>1, <1>2, RingInvariant, PTL DEF Spec, ImplementsLog, Log!LogSpec
=============================================================================
