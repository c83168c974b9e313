--------------------------- MODULE RingOpsProofs ---------------------------
(***************************************************************************)
(* What the copy loops of src/ring.c do, for every capacity: lemmas about  *)
(* CopyIn and CopyOut that the proofs about Ring and Fanout rest on.       *)
(***************************************************************************)
EXTENDS RingOps, TLAPS

\* A number written as a multiple of c plus r below c has remainder r.
LEMMA ModUnique ==
    ASSUME NEW c \in Nat \ {0}, NEW q \in Nat, NEW r \in 0 .. c - 1
    PROVE  (c * q + r) % c = r
  BY SMT

\* Quotient and remainder of a natural number.
LEMMA DivMod ==
    ASSUME NEW a \in Nat, NEW c \in Nat \ {0}
    PROVE  \E q \in Nat : a = c * q + (a % c) /\ (a % c) \in 0 .. c - 1
  <1>1. a \div c \in Nat /\ a = c * (a \div c) + (a % c) /\ (a % c) \in 0 .. c - 1
    BY SMT
  <1> QED BY <1>1

\* Adding less than c to a number wraps its remainder at most once.
LEMMA ModAdd ==
    ASSUME NEW a \in Nat, NEW c \in Nat \ {0}, NEW j \in 0 .. c - 1
    PROVE  /\ (a % c) \in 0 .. c - 1
           /\ (a + j) % c = IF (a % c) + j < c THEN (a % c) + j ELSE (a % c) + j - c
  <1>1. PICK q \in Nat : a = c * q + (a % c) /\ (a % c) \in 0 .. c - 1
    BY DivMod
  <1> DEFINE r == (a % c)
  <1>r. r \in 0 .. c - 1 /\ a = c * q + r
    BY <1>1
  <1> HIDE DEF r
  <1>2. CASE r + j < c
    <2>1. r + j \in 0 .. c - 1
      BY <1>2, <1>r
    <2>2. (c * q + (r + j)) % c = r + j
      BY <2>1, ModUnique
    <2>3. a + j = c * q + (r + j)
      BY <1>r
    <2> QED BY <2>2, <2>3, <1>2, <1>r DEF r
  <1>3. CASE ~ (r + j < c)
    <2>1. r + j - c \in 0 .. c - 1
      BY <1>3, <1>r
    <2>2. (c * (q + 1) + (r + j - c)) % c = r + j - c
      BY <2>1, ModUnique
    <2>3. a + j = c * (q + 1) + (r + j - c)
      BY <1>r
    <2> QED BY <2>2, <2>3, <1>3, <1>r DEF r
  <1> QED BY <1>2, <1>3

\* The two facts about `% ring->cap` that the copies rest on.
LEMMA ModCap ==
    /\ \A a \in Nat : (a % Cap) \in 0 .. Cap - 1
    /\ \A a \in Nat : \A j \in 0 .. Cap - 1 :
          (a + j) % Cap = IF (a % Cap) + j < Cap THEN (a % Cap) + j ELSE (a % Cap) + j - Cap
  <1>1. \A a \in Nat : (a % Cap) \in 0 .. Cap - 1
    BY DivMod, CapAssumption, Zenon
  <1>2. \A a \in Nat : \A j \in 0 .. Cap - 1 :
          (a + j) % Cap = IF (a % Cap) + j < Cap THEN (a % Cap) + j ELSE (a % Cap) + j - Cap
    BY ModAdd, CapAssumption, Zenon
  <1> QED BY <1>1, <1>2

-----------------------------------------------------------------------------
(***************************************************************************)
(* What the copy loops do.                                                 *)
(***************************************************************************)

\* opty_ring_append leaves a buffer of the same shape.
LEMMA CopyInType ==
    ASSUME NEW buf \in [Slots -> Byte \cup {Garbage}], NEW n \in Nat,
           NEW data \in Seq(Byte)
    PROVE  CopyIn(buf, n, data) \in [Slots -> Byte \cup {Garbage}]
  <1> DEFINE keep    == opty_min_size(Len(data), Cap)
             src_off == Len(data) - keep
             dest    == (n + src_off) % Cap
             first   == opty_min_size(Cap - dest, keep)
  <1>1. /\ keep \in Nat /\ keep <= Len(data) /\ keep <= Cap /\ src_off \in Nat
        /\ Len(data) = src_off + keep
    BY CapAssumption DEF opty_min_size
  <1>2. n + src_off \in Nat /\ dest \in 0 .. Cap - 1
    <2>1. n + src_off \in Nat
      BY <1>1
    <2> QED BY <2>1, ModCap, Zenon
  <1> HIDE DEF keep, src_off, dest
  <1>3. first \in Nat /\ first <= keep /\ dest + first <= Cap
    BY <1>1, <1>2, CapAssumption DEF opty_min_size
  <1> HIDE DEF first
  <1>4. ASSUME NEW i \in Slots, dest <= i, i < dest + first
        PROVE  data[src_off + (i - dest) + 1] \in Byte
    <2>1. src_off + (i - dest) + 1 \in 1 .. Len(data)
      BY <1>1, <1>2, <1>3, <1>4, CapAssumption DEF Slots
    <2> QED BY <2>1
  <1>5. ASSUME NEW i \in Slots, i < keep - first
        PROVE  data[src_off + first + i + 1] \in Byte
    <2>1. src_off + first + i + 1 \in 1 .. Len(data)
      BY <1>1, <1>2, <1>3, <1>5, CapAssumption DEF Slots
    <2> QED BY <2>1
  <1> QED BY <1>4, <1>5 DEF CopyIn, keep, src_off, dest, first

\* The last Cap bytes of what is appended are found, after the two memcpy
\* calls, in the slots of their positions.
LEMMA CopyInNew ==
    ASSUME NEW buf, NEW n \in Nat, NEW data \in Seq(Byte),
           NEW s \in n .. n + Len(data) - 1, n + Len(data) - s <= Cap
    PROVE  CopyIn(buf, n, data)[s % Cap] = data[s - n + 1]
  <1> DEFINE keep    == opty_min_size(Len(data), Cap)
             src_off == Len(data) - keep
             dest    == (n + src_off) % Cap
             first   == opty_min_size(Cap - dest, keep)
             j       == s - (n + src_off)
  <1>1. /\ keep \in Nat /\ keep <= Len(data) /\ keep <= Cap /\ src_off \in Nat
        /\ Len(data) = src_off + keep
        /\ j \in 0 .. keep - 1 /\ j \in 0 .. Cap - 1 /\ s = (n + src_off) + j
    <2> DEFINE L == Len(data)
    <2>1. L \in Nat /\ s \in n .. n + L - 1 /\ n + L - s <= Cap
      OBVIOUS
    <2> HIDE DEF L
    <2>2. CASE L < Cap
      <3>1. opty_min_size(L, Cap) = L
        BY <2>2 DEF opty_min_size
      <3> QED BY <2>1, <2>2, <3>1, CapAssumption DEF L
    <2>3. CASE ~ (L < Cap)
      <3>1. opty_min_size(L, Cap) = Cap
        BY <2>3 DEF opty_min_size
      <3> QED BY <2>1, <2>3, <3>1, CapAssumption DEF L
    <2> QED BY <2>2, <2>3
  <1>2. /\ n + src_off \in Nat /\ dest \in 0 .. Cap - 1
        /\ s % Cap = IF dest + j < Cap THEN dest + j ELSE dest + j - Cap
    <2> DEFINE m == n + src_off
    <2> HIDE DEF keep, src_off, j
    <2>1. m \in Nat
      BY <1>1
    <2> HIDE DEF m
    <2>2. /\ (m % Cap) \in 0 .. Cap - 1
          /\ (m + j) % Cap = IF (m % Cap) + j < Cap THEN (m % Cap) + j ELSE (m % Cap) + j - Cap
      BY <1>1, <2>1, ModCap, Zenon
    <2> QED BY <1>1, <2>1, <2>2 DEF m
  <1>3. CopyIn(buf, n, data) = [i \in Slots |->
            IF dest <= i /\ i < dest + first THEN data[src_off + (i - dest) + 1]
            ELSE IF i < keep - first         THEN data[src_off + first + i + 1]
            ELSE buf[i]]
    BY DEF CopyIn
  <1> HIDE DEF keep, src_off, dest
  <1>4. /\ first \in Nat /\ first <= keep /\ dest + first <= Cap
        /\ first = keep \/ first = Cap - dest
    BY <1>1, <1>2, CapAssumption DEF opty_min_size
  <1> HIDE DEF first, j
  <1>5. CASE dest + j < Cap
    <2>1. /\ s % Cap = dest + j /\ dest + j \in Slots
          /\ dest <= dest + j /\ dest + j < dest + first
          /\ src_off + ((dest + j) - dest) + 1 = s - n + 1
      BY <1>1, <1>2, <1>4, <1>5, CapAssumption DEF Slots
    <2> QED BY <2>1, <1>3
  <1>6. CASE ~ (dest + j < Cap)
    <2>1. /\ s % Cap = dest + j - Cap /\ dest + j - Cap \in Slots
          /\ ~ (dest <= dest + j - Cap) /\ dest + j - Cap < keep - first
          /\ src_off + first + (dest + j - Cap) + 1 = s - n + 1
      BY <1>1, <1>2, <1>4, <1>6, CapAssumption DEF Slots
    <2> QED BY <2>1, <1>3
  <1> QED BY <1>5, <1>6

\* An old byte that is still in the window is not overwritten.
LEMMA CopyInOld ==
    ASSUME NEW buf, NEW n \in Nat, NEW data \in Seq(Byte),
           NEW s \in Nat, s < n, n + Len(data) - s <= Cap
    PROVE  CopyIn(buf, n, data)[s % Cap] = buf[s % Cap]
  <1> DEFINE dest  == n % Cap
             first == opty_min_size(Cap - dest, Len(data))
             d     == n - s
  <1>1. /\ Len(data) \in Nat /\ d \in 1 .. Cap /\ d + Len(data) <= Cap /\ n = s + d
        /\ opty_min_size(Len(data), Cap) = Len(data)
    BY CapAssumption DEF opty_min_size
  <1>2. /\ dest \in 0 .. Cap - 1
        /\ (s % Cap) \in Slots
    BY ModCap DEF Slots
  <1>3. CopyIn(buf, n, data) = [i \in Slots |->
            IF dest <= i /\ i < dest + first THEN data[0 + (i - dest) + 1]
            ELSE IF i < Len(data) - first    THEN data[0 + first + i + 1]
            ELSE buf[i]]
    <2>1. Len(data) - Len(data) = 0 /\ n + 0 = n
      BY <1>1
    <2> QED BY <1>1, <2>1 DEF CopyIn
  <1> HIDE DEF d
  <1>4. d = Cap \/ dest = IF (s % Cap) + d < Cap THEN (s % Cap) + d ELSE (s % Cap) + d - Cap
    <2>1. ASSUME d # Cap
          PROVE  (s + d) % Cap = IF (s % Cap) + d < Cap THEN (s % Cap) + d ELSE (s % Cap) + d - Cap
      <3>1. d \in 0 .. Cap - 1
        BY <1>1, <2>1, CapAssumption
      <3> QED BY <3>1, ModCap, Zenon
    <2> QED BY <1>1, <2>1
  <1> HIDE DEF dest
  <1>5. /\ first \in Nat /\ first <= Len(data) /\ dest + first <= Cap
        /\ first = Len(data) \/ first = Cap - dest
    BY <1>1, <1>2, CapAssumption DEF opty_min_size
  <1> HIDE DEF first
  <1>6. ~ (dest <= (s % Cap) /\ (s % Cap) < dest + first) /\ ~ ((s % Cap) < Len(data) - first)
    BY <1>1, <1>2, <1>4, <1>5, CapAssumption DEF Slots
  <1> QED BY <1>2, <1>3, <1>6

\* The two memcpy calls of opty_ring_snapshot_window return the end of the
\* output, given that the slots hold it.
LEMMA CopyOutExact ==
    ASSUME NEW buf, NEW str \in Seq(Byte), NEW from \in 0 .. Len(str),
           Len(str) - from <= Cap,
           \A s \in from .. Len(str) - 1 : buf[s % Cap] = str[s + 1]
    PROVE  CopyOut(buf, from, Len(str) - from) = SubSeq(str, from + 1, Len(str))
  <1> DEFINE L         == Len(str)
             len       == L - from
             start_idx == from % Cap
             first     == opty_min_size(Cap - start_idx, len)
  <1>1. L \in Nat /\ from \in Nat /\ len \in 0 .. Cap /\ L = from + len
    BY CapAssumption
  <1>2. start_idx \in 0 .. Cap - 1
    BY <1>1, ModCap, Zenon
  <1>3. ASSUME NEW i \in 1 .. len
        PROVE  (IF i <= first THEN buf[start_idx + (i - 1)] ELSE buf[i - first - 1])
                 = str[from + i]
    <2> DEFINE j == i - 1
               s == from + j
    <2> HIDE DEF L, len
    <2>1. j \in 0 .. Cap - 1 /\ s \in from .. L - 1 /\ s + 1 = from + i
      BY <1>1, CapAssumption
    <2>2. buf[s % Cap] = str[from + i]
      <3>1. buf[s % Cap] = str[s + 1]
        BY <2>1 DEF L
      <3> QED BY <3>1, <2>1
    <2>3. s % Cap = IF start_idx + j < Cap THEN start_idx + j ELSE start_idx + j - Cap
      <3> HIDE DEF j
      <3> QED BY <1>1, <2>1, ModCap, Zenon
    <2> HIDE DEF start_idx, s
    <2>4. first \in Nat /\ (first = len \/ first = Cap - start_idx)
          /\ first <= len /\ first <= Cap - start_idx
      BY <1>1, <1>2, CapAssumption DEF opty_min_size
    <2> HIDE DEF first
    <2>5. CASE i <= first
      <3>1. s % Cap = start_idx + (i - 1)
        BY <1>1, <1>2, <2>3, <2>4, <2>5, CapAssumption
      <3> QED BY <3>1, <2>2, <2>5
    <2>6. CASE ~ (i <= first)
      <3>1. s % Cap = i - first - 1
        BY <1>1, <1>2, <2>3, <2>4, <2>6, CapAssumption
      <3> QED BY <3>1, <2>2, <2>6
    <2> QED BY <2>5, <2>6
  <1>4. CopyOut(buf, from, len) = [i \in 1 .. len |-> str[from + i]]
    BY <1>3 DEF CopyOut
  <1>5. SubSeq(str, from + 1, L) = [i \in 1 .. len |-> str[from + i]]
    <2>1. SubSeq(str, from + 1, L) = [i \in 1 .. (L - (from + 1) + 1) |-> str[i + (from + 1) - 1]]
      BY <1>1
    <2>2. L - (from + 1) + 1 = len /\ \A i \in 1 .. len : i + (from + 1) - 1 = from + i
      BY <1>1
    <2> QED BY <2>1, <2>2
  <1> QED BY <1>4, <1>5
-----------------------------------------------------------------------------
(***************************************************************************)
(* A ring of output in which every byte is identified by its position, up  *)
(* to max.                                                                 *)
(***************************************************************************)

\* The ring's window is of the right size and every slot of it has the byte of
\* its position.
Faithful(r, max) ==
    /\ r.base_seq < r.next_seq \/ (r.next_seq = 0 /\ r.base_seq = 0)
    /\ r.next_seq <= max
    /\ r.next_seq - r.base_seq <= Cap
    /\ \A s \in r.base_seq .. r.next_seq - 1 : r.buf[s % Cap] = s

\* A run of positions: its length and its elements ...
LEMMA PositionsFacts ==
    ASSUME NEW from \in Nat, NEW n \in Nat
    PROVE  /\ Positions(from, n) \in Seq(Nat)
           /\ Len(Positions(from, n)) = n
           /\ \A i \in 1 .. n : Positions(from, n)[i] = from + i - 1
  <1>1. \A i \in 1 .. n : from + i - 1 \in Nat
    OBVIOUS
  <1> QED BY <1>1 DEF Positions

\* ... which are bytes, as long as positions are.
LEMMA PositionsBytes ==
    ASSUME NEW max \in Nat, 0 .. max - 1 \subseteq Byte,
           NEW from \in Nat, NEW n \in Nat, from + n <= max
    PROVE  Positions(from, n) \in Seq(Byte)
  <1>1. \A i \in 1 .. n : from + i - 1 \in Byte
    OBVIOUS
  <1> QED BY <1>1 DEF Positions

\* The ring of opty_ring_init is faithful.
LEMMA InitFaithful ==
    ASSUME NEW max \in Nat
    PROVE  opty_ring_init \in Rings /\ Faithful(opty_ring_init, max)
           /\ opty_ring_init.next_seq = 0
  BY CapAssumption DEF opty_ring_init, Rings, Faithful

\* opty_ring_append of the next positions keeps the ring faithful.
LEMMA AppendFaithful ==
    ASSUME NEW max \in Nat, 0 .. max - 1 \subseteq Byte, NEW r \in Rings, Faithful(r, max),
           NEW n \in Nat, r.next_seq + n <= max
    PROVE  /\ opty_ring_append(r, Positions(r.next_seq, n)) \in Rings
           /\ Faithful(opty_ring_append(r, Positions(r.next_seq, n)), max)
           /\ opty_ring_append(r, Positions(r.next_seq, n)).next_seq = r.next_seq + n
  <1> DEFINE next == r.next_seq
             data == Positions(next, n)
             new  == opty_ring_append(r, data)
  <1>1. /\ next \in Nat /\ r.base_seq \in Nat
        /\ r.buf \in [Slots -> Byte \cup {Garbage}]
        /\ data \in Seq(Byte) /\ Len(data) = n
        /\ \A i \in 1 .. n : data[i] = next + i - 1
    BY PositionsFacts, PositionsBytes DEF Rings
  <1>2. /\ new.buf = CopyIn(r.buf, next, data)
        /\ new.next_seq = next + n
        /\ new.base_seq = NewBase(r, n)
    BY <1>1 DEF opty_ring_append
  <1>3. /\ new.base_seq \in Nat
        /\ new.base_seq < new.next_seq \/ (new.next_seq = 0 /\ new.base_seq = 0)
        /\ new.next_seq - new.base_seq <= Cap
        /\ r.base_seq <= new.base_seq
    <2> DEFINE b == r.base_seq
    <2>1. new.base_seq = IF (next - b) + n > Cap THEN (next + n) - Cap ELSE b
      BY <1>2 DEF NewBase
    <2>2. b \in Nat /\ next - b <= Cap /\ (b < next \/ (next = 0 /\ b = 0))
      BY <1>1 DEF Faithful
    <2> HIDE DEF b, next, new
    <2>3. CASE (next - b) + n > Cap
      BY <1>1, <1>2, <2>1, <2>2, <2>3, CapAssumption DEF b
    <2>4. CASE ~((next - b) + n > Cap)
      BY <1>1, <1>2, <2>1, <2>2, <2>4, CapAssumption DEF b
    <2> QED BY <2>3, <2>4
  <1>4. new \in Rings
    <2>1. CopyIn(r.buf, next, data) \in [Slots -> Byte \cup {Garbage}]
      BY <1>1, CopyInType
    <2> QED BY <1>1, <1>2, <1>3, <2>1 DEF opty_ring_append, Rings
  <1>5. ASSUME NEW s \in new.base_seq .. new.next_seq - 1
        PROVE  new.buf[s % Cap] = s
    <2> HIDE DEF data, new, next
    <2>1. s \in Nat /\ next + Len(data) - s <= Cap
      BY <1>1, <1>2, <1>3, CapAssumption
    <2>2. CASE s < next
      <3>1. CopyIn(r.buf, next, data)[s % Cap] = r.buf[s % Cap]
        BY <1>1, <2>1, <2>2, CopyInOld
      <3>2. s \in r.base_seq .. r.next_seq - 1
        BY <1>1, <1>3, <2>1, <2>2 DEF next
      <3> QED BY <1>2, <3>1, <3>2 DEF Faithful
    <2>3. CASE s >= next
      <3>1. s \in next .. next + Len(data) - 1
        BY <1>1, <1>2, <2>1, <2>3
      <3>2. CopyIn(r.buf, next, data)[s % Cap] = data[s - next + 1]
        BY <1>1, <2>1, <3>1, CopyInNew
      <3>3. s - next + 1 \in 1 .. n /\ next + (s - next + 1) - 1 = s
        BY <1>1, <3>1
      <3> QED BY <1>1, <1>2, <3>2, <3>3
    <2> QED BY <1>1, <2>1, <2>2, <2>3
  <1> HIDE DEF new
  <1>6. Faithful(new, max)
    BY <1>1, <1>2, <1>3, <1>5 DEF Faithful
  <1> QED BY <1>2, <1>4, <1>6 DEF new

\* opty_ring_snapshot_window of a faithful ring is a run of positions that
\* ends where the ring ends.
LEMMA WindowFaithful ==
    ASSUME NEW max \in Nat, 0 .. max - 1 \subseteq Byte, NEW r \in Rings, Faithful(r, max),
           NEW q \in Nat
    PROVE  /\ FromSeq(r, q) \in r.base_seq .. r.next_seq
           /\ Positions(FromSeq(r, q), r.next_seq - FromSeq(r, q)) \in Seq(Byte)
           /\ opty_ring_snapshot_window(r, q) =
                [base_seq |-> r.base_seq, from_seq |-> FromSeq(r, q), next_seq |-> r.next_seq,
                 data |-> Positions(FromSeq(r, q), r.next_seq - FromSeq(r, q))]
  <1> DEFINE next == r.next_seq
             from == FromSeq(r, q)
             str  == Positions(0, next)
  <1>1. next \in Nat /\ r.base_seq \in Nat /\ r.base_seq <= next /\ next <= max
    BY DEF Rings, Faithful
  <1>2. from \in r.base_seq .. next /\ from \in Nat /\ next - from \in Nat
    BY <1>1 DEF FromSeq
  <1>3. /\ str \in Seq(Byte) /\ Len(str) = next
        /\ \A i \in 1 .. next : str[i] = i - 1
    <2> HIDE DEF next
    <2>1. 0 \in Nat /\ 0 + next <= max
      BY <1>1
    <2>2. /\ str \in Seq(Byte) /\ Len(str) = next
          /\ \A i \in 1 .. next : str[i] = 0 + i - 1
      BY <1>1, <2>1, PositionsFacts, PositionsBytes, Zenon
    <2> QED BY <1>1, <2>2
  <1>4. CopyOut(r.buf, from, next - from) = SubSeq(str, from + 1, next)
    <2> HIDE DEF str, from, next
    <2>1. \A s \in from .. Len(str) - 1 : r.buf[s % Cap] = str[s + 1]
      BY <1>1, <1>2, <1>3 DEF Faithful, next
    <2>2. Len(str) - from <= Cap /\ from \in 0 .. Len(str)
      BY <1>1, <1>2, <1>3, CapAssumption DEF Faithful, next
    <2> QED BY <1>3, <2>1, <2>2, CopyOutExact
  <1>5. SubSeq(str, from + 1, next) = Positions(from, next - from)
    <2> HIDE DEF str, from, next
    <2> QED BY <1>1, <1>2, <1>3 DEF Positions
  <1>6. Positions(from, next - from) \in Seq(Byte)
    <2> HIDE DEF str, from, next
    <2>1. from + (next - from) <= max
      BY <1>1, <1>2
    <2> QED BY <1>2, <2>1, PositionsBytes, Zenon
  <1> QED
    BY <1>2, <1>4, <1>5, <1>6 DEF opty_ring_snapshot_window
=============================================================================
