----------------------------- MODULE WireProofs -----------------------------
(***************************************************************************)
(* Proofs about Wire, for all widths and limits of the code, any number of *)
(* threads, any socket buffer and any messages: every message is parsed as *)
(* it was meant, the receiver refuses nothing that a sender lets through,  *)
(* and byte by byte the frames implement the queue of messages.            *)
(***************************************************************************)
EXTENDS Wire, WellFoundedInduction, TLAPS

-----------------------------------------------------------------------------
(***************************************************************************)
(* Induction, and functions defined by recursion.  They are stated for     *)
(* sets and functions: an operator cannot be a parameter of a lemma here.  *)
(***************************************************************************)

\* A set of naturals that is not empty has a least element.
LEMMA Least ==
  ASSUME NEW T, T \subseteq Nat, T # {}
  PROVE  \E x \in T : \A y \in T : x <= y
<1>1. PICK R : R = OpToRel(<, Nat)
  BY Zenon
<1>2. IsWellFoundedOn(R, Nat)
  BY <1>1, NatLessThanWellFounded
<1>3. PICK x \in T : \A y \in T : ~ (<<y, x>> \in R)
  BY <1>2, WFMin
<1>4. ASSUME NEW y \in T PROVE x <= y
  <2>1. x \in Nat /\ y \in Nat
    OBVIOUS
  <2>2. <<y, x>> \notin {ss \in Nat \X Nat : ss[1] < ss[2]}
    BY <1>1, <1>3 DEF OpToRel
  <2>3. ~(y < x)
    BY <2>1, <2>2
  <2> QED BY <2>1, <2>3
<1> QED
  BY <1>4

\* A set that holds 0, and the successor of what it holds, holds every natural
\* up to a bound.
LEMMA Induction ==
  ASSUME NEW S, NEW n \in Nat, 0 \in S, \A i \in 0 .. n : i \in S /\ i # n => i + 1 \in S
  PROVE  \A i \in 0 .. n : i \in S
<1> SUFFICES ASSUME {i \in 0 .. n : i \notin S} # {} PROVE FALSE
  OBVIOUS
<1> DEFINE T == {i \in 0 .. n : i \notin S}
<1>1. T \subseteq Nat /\ T # {}
  OBVIOUS
<1>2. PICK x \in T : \A y \in T : x <= y
  BY <1>1, Least
<1>3. x \in 0 .. n /\ x \notin S /\ x # 0
  BY <1>2
<1>4. x - 1 \in 0 .. n /\ x - 1 # n /\ x - 1 + 1 = x /\ ~(x <= x - 1)
  BY <1>3
<1>5. x - 1 \in S
  BY <1>2, <1>4
<1> QED BY <1>3, <1>4, <1>5

\* f runs the recursion for n steps.
Solves(f, n, b, step) == f[0] = b /\ \A i \in 1 .. n : f[i] = step[<<i, f[i - 1]>>]

\* A recursion over 1 .. n whose step stays in a set has a solution.
LEMMA Recursion ==
  ASSUME NEW X, NEW n \in Nat, NEW b \in X, NEW step \in [(1 .. n) \X X -> X]
  PROVE  \E f \in [0 .. n -> X] : Solves(f, n, b, step)
<1> USE DEF Solves
<1> DEFINE Good == {k \in 0 .. n : \E f \in [0 .. k -> X] : Solves(f, k, b, step)}
<1>1. 0 \in Good
  <2>1. PICK f : f = [i \in 0 .. 0 |-> b]
    BY Zenon
  <2>2. f \in [0 .. 0 -> X] /\ Solves(f, 0, b, step) /\ 0 \in 0 .. n
    BY <2>1
  <2> QED BY <2>2
<1>2. ASSUME NEW k \in 0 .. n, k \in Good, k # n PROVE k + 1 \in Good
  <2>1. PICK f \in [0 .. k -> X] : Solves(f, k, b, step)
    BY <1>2
  <2>2. f[k] \in X /\ k + 1 \in 1 .. n /\ k + 1 \in 0 .. n
    BY <1>2
  <2>3. step[<<k + 1, f[k]>>] \in X
    BY <2>2
  <2>4. PICK g : g = [i \in 0 .. k + 1 |-> IF i = k + 1 THEN step[<<k + 1, f[k]>>] ELSE f[i]]
    BY Zenon
  <2>5. \A i \in 0 .. k + 1 : i = k + 1 \/ i \in 0 .. k
    OBVIOUS
  <2>6. g \in [0 .. k + 1 -> X]
    BY <2>3, <2>4, <2>5
  <2>7. g[0] = b
    BY <2>1, <2>4
  <2>8. ASSUME NEW i \in 1 .. k + 1 PROVE g[i] = step[<<i, g[i - 1]>>]
    <3>1. i - 1 \in 0 .. k /\ i \in 0 .. k + 1 /\ i - 1 \in 0 .. k + 1 /\ i - 1 # k + 1
      OBVIOUS
    <3>2. g[i - 1] = f[i - 1]
      BY <2>4, <3>1
    <3>3. CASE i = k + 1
      BY <2>4, <3>1, <3>2, <3>3
    <3>4. CASE i \in 1 .. k
      <4>1. g[i] = f[i]
        BY <2>4, <3>1, <3>4
      <4> QED BY <2>1, <3>2, <3>4, <4>1
    <3> QED BY <3>3, <3>4
  <2> QED BY <2>2, <2>6, <2>7, <2>8
<1> HIDE DEF Good
<1>3. n \in Good
  <2>1. \A k \in 0 .. n : k \in Good
    BY <1>1, <1>2, Induction
  <2> QED BY <2>1
<1> QED BY <1>3 DEF Good

\* f runs the recursion for good.
SolvesAll(f, b, step) == f[0] = b /\ \A i \in Nat : f[i + 1] = step[<<i + 1, f[i]>>]

\* So has one over all naturals: the solutions up to each of them agree.
LEMMA RecursionNat ==
  ASSUME NEW X, NEW b \in X, NEW step \in [Nat \X X -> X]
  PROVE  \E f \in [Nat -> X] : SolvesAll(f, b, step)
<1> DEFINE Sol(n) == CHOOSE f \in [0 .. n -> X] : Solves(f, n, b, step)
<1>1. ASSUME NEW n \in Nat PROVE Sol(n) \in [0 .. n -> X] /\ Solves(Sol(n), n, b, step)
  <2>1. PICK st : st = [x \in (1 .. n) \X X |-> step[x]]
    BY Zenon
  <2>2. st \in [(1 .. n) \X X -> X]
    <3>1. \A x \in (1 .. n) \X X : x \in Nat \X X
      OBVIOUS
    <3>2. \A x \in (1 .. n) \X X : step[x] \in X
      BY <3>1
    <3> QED BY <2>1, <3>2
  <2>3. PICK f \in [0 .. n -> X] : Solves(f, n, b, st)
    BY <2>2, Recursion, Zenon
  <2>4. Solves(f, n, b, step)
    <3>1. ASSUME NEW i \in 1 .. n PROVE f[i] = step[<<i, f[i - 1]>>]
      <4>1. i - 1 \in 0 .. n
        OBVIOUS
      <4>2. f[i - 1] \in X
        BY <4>1
      <4>3. <<i, f[i - 1]>> \in (1 .. n) \X X
        BY <4>2
      <4> QED BY <2>1, <2>3, <4>3 DEF Solves
    <3> QED BY <2>3, <3>1 DEF Solves
  <2> QED BY <2>4, Zenon
<1> HIDE DEF Sol
<1>2. ASSUME NEW n \in Nat PROVE Sol(n + 1)[n] = Sol(n)[n]
  <2> DEFINE Same == {i \in 0 .. n : Sol(n + 1)[i] = Sol(n)[i]}
  <2>0. n + 1 \in Nat
    OBVIOUS
  <2>1. 0 \in Same
    BY <1>1, <2>0 DEF Solves
  <2>2. ASSUME NEW i \in 0 .. n, i \in Same, i # n PROVE i + 1 \in Same
    <3>1. i + 1 \in 1 .. n /\ i + 1 \in 1 .. n + 1 /\ i + 1 - 1 = i
      BY <2>2
    <3>2. Sol(n)[i + 1] = step[<<i + 1, Sol(n)[i]>>]
      BY <1>1, <3>1 DEF Solves
    <3>3. Sol(n + 1)[i + 1] = step[<<i + 1, Sol(n + 1)[i]>>]
      BY <1>1, <2>0, <3>1 DEF Solves
    <3> QED BY <2>2, <3>1, <3>2, <3>3
  <2> HIDE DEF Same
  <2>3. \A i \in 0 .. n : i \in Same
    BY <2>1, <2>2, Induction
  <2> QED BY <2>3 DEF Same
<1>3. PICK f : f = [n \in Nat |-> Sol(n)[n]]
  BY Zenon
<1>4. f \in [Nat -> X]
  <2>1. \A n \in Nat : Sol(n)[n] \in X
    BY <1>1
  <2> QED BY <1>3, <2>1
<1>5. f[0] = b
  BY <1>1, <1>3 DEF Solves
<1>6. ASSUME NEW i \in Nat PROVE f[i + 1] = step[<<i + 1, f[i]>>]
  <2>1. i + 1 \in Nat /\ i + 1 \in 1 .. i + 1 /\ i + 1 - 1 = i
    OBVIOUS
  <2>2. Sol(i + 1)[i + 1] = step[<<i + 1, Sol(i + 1)[i]>>]
    BY <1>1, <2>1 DEF Solves
  <2> QED BY <1>2, <1>3, <2>1, <2>2
<1> QED BY <1>4, <1>5, <1>6 DEF SolvesAll

-----------------------------------------------------------------------------
(***************************************************************************)
(* Integers: the most significant byte first.                              *)
(***************************************************************************)

\* A byte has enough values for every message type.
LEMMA BaseFacts == Base \in Nat \ {0} /\ Base > 10
BY WidthAssumption

\* Power is what its recursion says.
LEMMA PowerFacts ==
  /\ Power \in [Nat -> Nat \ {0}]
  /\ Power[0] = 1
  /\ \A n \in Nat : Power[n + 1] = Base * Power[n]
<1>1. PICK step : step = [x \in Nat \X (Nat \ {0}) |-> Base * x[2]]
  BY Zenon
<1>2. step \in [Nat \X (Nat \ {0}) -> Nat \ {0}]
  BY <1>1, BaseFacts
<1>3. PICK f \in [Nat -> Nat \ {0}] : f[0] = 1 /\ \A i \in Nat : f[i + 1] = step[<<i + 1, f[i]>>]
  <2>1. PICK one : one = 1
    BY Zenon
  <2>2. PICK X : X = Nat \ {0}
    BY Zenon
  <2>3. one \in X /\ step \in [Nat \X X -> X]
    BY <1>2, <2>1, <2>2
  <2>4. \E f \in [Nat -> X] : SolvesAll(f, one, step)
    BY <2>3, RecursionNat, Zenon
  <2> QED BY <2>1, <2>2, <2>4 DEF SolvesAll
<1>4. \A i \in Nat : f[i + 1] = Base * f[i]
  <2> TAKE i \in Nat
  <2>1. <<i + 1, f[i]>> \in Nat \X (Nat \ {0})
    OBVIOUS
  <2> QED BY <1>1, <1>3, <2>1
<1>5. f = [n \in Nat |-> IF n = 0 THEN 1 ELSE Base * f[n - 1]]
  <2>1. ASSUME NEW n \in Nat PROVE f[n] = IF n = 0 THEN 1 ELSE Base * f[n - 1]
    <3>1. CASE n = 0
      BY <1>3, <3>1
    <3>2. CASE n # 0
      <4>1. n - 1 \in Nat /\ n - 1 + 1 = n
        BY <3>2
      <4> QED BY <1>4, <3>2, <4>1
    <3> QED BY <3>1, <3>2
  <2> QED BY <2>1
<1>6. Power = [n \in Nat |-> IF n = 0 THEN 1 ELSE Base * Power[n - 1]]
  BY <1>5, Zenon DEF Power
<1>7. Power[0] = 1
  BY <1>6
<1>8. \A n \in Nat : Power[n + 1] = Base * Power[n]
  BY <1>6
<1>9. ASSUME NEW n \in Nat PROVE Power[n] = f[n]
  <2> DEFINE Same == {i \in 0 .. n : Power[i] = f[i]}
  <2>1. 0 \in Same
    BY <1>3, <1>7
  <2>2. ASSUME NEW i \in 0 .. n, i \in Same, i # n PROVE i + 1 \in Same
    <3>1. i \in Nat /\ i + 1 \in 0 .. n
      BY <2>2
    <3> QED BY <1>4, <1>8, <2>2, <3>1
  <2> HIDE DEF Same
  <2>3. \A i \in 0 .. n : i \in Same
    BY <2>1, <2>2, Induction
  <2> QED BY <2>3 DEF Same
<1>10. \A n \in Nat : Power[n] \in Nat \ {0}
  BY <1>9
<1> QED BY <1>6, <1>7, <1>8, <1>10

\* The run of opty_get_u64 over its bytes.
LEMMA GetRun ==
  ASSUME NEW p \in Seq(Byte)
  PROVE  \E f \in [0 .. Len(p) -> Nat] :
            /\ f[0] = 0
            /\ \A i \in 1 .. Len(p) : f[i] = f[i - 1] * Base + p[i]
            /\ Get(p) = f[Len(p)]
<1>1. 0 \in Nat
  OBVIOUS
<1>2. PICK n \in Nat : n = Len(p) /\ \A i \in 1 .. n : p[i] \in Byte
  OBVIOUS
<1>3. PICK step : step = [x \in (1 .. n) \X Nat |-> x[2] * Base + p[x[1]]]
  BY Zenon
<1>4. ASSUME NEW i \in 1 .. n, NEW t \in Nat
      PROVE  step[<<i, t>>] = t * Base + p[i] /\ t * Base + p[i] \in Nat
  <2>1. p[i] \in Byte
    BY <1>2
  <2>2. step[<<i, t>>] = t * Base + p[i]
    BY <1>3
  <2>3. t * Base + p[i] \in Nat
    BY <2>1, BaseFacts DEF Byte
  <2> QED BY <2>2, <2>3
<1>5. step \in [(1 .. n) \X Nat -> Nat]
  <2>1. \A x \in (1 .. n) \X Nat : x = <<x[1], x[2]>> /\ x[1] \in 1 .. n /\ x[2] \in Nat
    OBVIOUS
  <2>2. \A x \in (1 .. n) \X Nat : x[2] * Base + p[x[1]] \in Nat
    BY <1>4, <2>1
  <2> QED BY <1>3, <2>2
<1> DEFINE P(f) == f = [i \in 0 .. Len(p) |-> IF i = 0 THEN 0 ELSE f[i - 1] * Base + p[i]]
<1>6. \E f : P(f)
  <2>0. PICK b \in Nat : b = 0
    BY <1>1
  <2>p. PICK f \in [0 .. n -> Nat] : Solves(f, n, b, step)
    BY <1>5, Recursion, Zenon
  <2>1. f[0] = 0 /\ \A i \in 1 .. n : f[i] = step[<<i, f[i - 1]>>]
    BY <2>0, <2>p DEF Solves
  <2>2. ASSUME NEW i \in 0 .. n PROVE f[i] = IF i = 0 THEN 0 ELSE f[i - 1] * Base + p[i]
    <3>1. CASE i = 0
      BY <2>1, <3>1
    <3>2. CASE i # 0
      <4>1. i \in 1 .. n /\ f[i - 1] \in Nat
        BY <3>2
      <4> QED BY <1>4, <2>1, <3>2, <4>1
    <3> QED BY <3>1, <3>2
  <2>3. P(f)
    BY <1>2, <2>2
  <2> QED BY <2>3, Zenon
<1>7. PICK f : f = CHOOSE g : P(g)
  BY Zenon
<1>8. P(f)
  BY <1>6, <1>7, Zenon
<1>9. f[0] = 0 /\ \A i \in 1 .. n : f[i] = f[i - 1] * Base + p[i]
  <2>1. \A i \in 0 .. n : f[i] = IF i = 0 THEN 0 ELSE f[i - 1] * Base + p[i]
    BY <1>2, <1>8
  <2>2. 0 \in 0 .. n /\ \A i \in 1 .. n : i \in 0 .. n /\ i # 0
    OBVIOUS
  <2> QED BY <2>1, <2>2
<1>10. \A i \in 0 .. n : f[i] \in Nat
  <2> DEFINE S == {i \in 0 .. n : f[i] \in Nat}
  <2>1. 0 \in S
    BY <1>1, <1>9
  <2>2. ASSUME NEW i \in 0 .. n, i \in S /\ i # n PROVE i + 1 \in S
    <3>1. PICK j \in 1 .. n : j = i + 1 /\ j \in 0 .. n /\ j - 1 = i
      BY <2>2
    <3>2. f[j] = f[j - 1] * Base + p[j]
      BY <1>9
    <3>3. f[j - 1] \in Nat
      BY <2>2, <3>1
    <3>4. f[j] \in Nat
      BY <1>4, <3>2, <3>3
    <3> QED BY <3>1, <3>4
  <2> HIDE DEF S
  <2>3. \A i \in 0 .. n : i \in S
    BY <2>1, <2>2, Induction
  <2> QED BY <2>3 DEF S
<1>11. f \in [0 .. n -> Nat]
  BY <1>2, <1>8, <1>10
<1>12. Get(p) = f[Len(p)]
  BY <1>7 DEF Get
<1> QED BY <1>2, <1>9, <1>11, <1>12

\* The digits that Put writes.
LEMMA PutFacts ==
  ASSUME NEW n \in Nat, NEW v \in Nat
  PROVE  /\ Put(n, v) \in Seq(Byte)
         /\ Len(Put(n, v)) = n
         /\ \A i \in 1 .. n : Put(n, v)[i] = (v \div Power[n - i]) % Base
<1>1. \A i \in 1 .. n : (v \div Power[n - i]) % Base \in Byte
  <2> TAKE i \in 1 .. n
  <2>1. n - i \in Nat
    OBVIOUS
  <2>2. PICK P \in Nat \ {0} : P = Power[n - i]
    BY <2>1, PowerFacts
  <2>3. (v \div P) % Base \in 0 .. Base - 1
    BY BaseFacts
  <2> QED BY <2>2, <2>3 DEF Byte
<1>2. PICK p : p = [i \in 1 .. n |-> (v \div Power[n - i]) % Base]
  BY Zenon
<1>3. p \in [1 .. n -> Byte]
  BY <1>1, <1>2
<1>4. p \in Seq(Byte) /\ Len(p) = n
  BY <1>3
<1>5. p = Put(n, v)
  BY <1>2 DEF Put
<1> QED BY <1>2, <1>4, <1>5

\* The next digit of a number.
LEMMA Digits ==
  ASSUME NEW v \in Nat, NEW P \in Nat \ {0}
  PROVE  v \div P = (v \div (Base * P)) * Base + ((v \div P) % Base)
<1>1. v \div (Base * P) = (v \div P) \div Base
  BY BaseFacts
<1>2. PICK q \in Nat : q = v \div P
  OBVIOUS
<1>3. q = (q \div Base) * Base + (q % Base)
  BY BaseFacts
<1> QED BY <1>1, <1>2, <1>3

\* What opty_put_u16, opty_put_u64 and the prefix store is what opty_get_u16,
\* opty_get_u64 and opty_recv_frame_limited read.
LEMMA GetPut ==
  ASSUME NEW n \in Nat, NEW v \in Unsigned(n)
  PROVE  Get(Put(n, v)) = v
<1>0. v \in Nat /\ v < Power[n]
  BY PowerFacts DEF Unsigned
<1>1. PICK p \in Seq(Byte) : p = Put(n, v) /\ Len(p) = n /\ \A i \in 1 .. n : p[i] = (v \div Power[n - i]) % Base
  BY <1>0, PutFacts
<1>2. PICK f \in [0 .. Len(p) -> Nat] :
        /\ f[0] = 0
        /\ \A i \in 1 .. Len(p) : f[i] = f[i - 1] * Base + p[i]
        /\ Get(p) = f[Len(p)]
  BY GetRun
<1> DEFINE S == {i \in 0 .. n : f[i] = v \div Power[n - i]}
<1>3. 0 \in S
  <2>1. PICK P \in Nat \ {0} : P = Power[n]
    BY PowerFacts
  <2>2. v \div P = 0
    BY <1>0, <2>1
  <2> QED BY <1>2, <2>1, <2>2
<1>4. ASSUME NEW i \in 0 .. n, i \in S /\ i # n PROVE i + 1 \in S
  <2>1. PICK k \in Nat : k = n - (i + 1) /\ n - i = k + 1 /\ i + 1 \in 1 .. n /\ i + 1 - 1 = i
    BY <1>4
  <2>2. PICK P \in Nat \ {0} : P = Power[k]
    BY PowerFacts
  <2>3. Power[n - i] = Base * P
    BY <2>1, <2>2, PowerFacts
  <2>4. f[i] = v \div (Base * P)
    BY <1>4, <2>3
  <2>5. p[i + 1] = (v \div P) % Base
    BY <1>1, <2>1, <2>2
  <2>6. f[i + 1] = f[i] * Base + p[i + 1]
    BY <1>1, <1>2, <2>1
  <2>7. f[i + 1] = v \div P
    BY <1>0, <2>4, <2>5, <2>6, Digits
  <2> QED BY <2>1, <2>2, <2>7
<1> HIDE DEF S
<1>5. \A i \in 0 .. n : i \in S
  BY <1>3, <1>4, Induction
<1>6. f[n] = v \div Power[0]
  BY <1>5 DEF S
<1>7. v \div 1 = v
  BY <1>0
<1> QED BY <1>1, <1>2, <1>6, <1>7, PowerFacts

-----------------------------------------------------------------------------
(***************************************************************************)
(* The parts that writev() is given, and how far it has come.              *)
(***************************************************************************)

\* The recursion in Before, solved.
LEMMA BeforeRun ==
  ASSUME NEW B, NEW v \in Seq(Seq(B))
  PROVE  \E f \in [0 .. Len(v) -> Nat] :
            /\ f[0] = 0
            /\ \A i \in 1 .. Len(v) : f[i] = f[i - 1] + Len(v[i])
            /\ \A k \in 0 .. Len(v) : Before(v, k) = f[k]
<1>1. 0 \in Nat
  OBVIOUS
<1>2. PICK n \in Nat : n = Len(v) /\ \A i \in 1 .. n : v[i] \in Seq(B)
  OBVIOUS
<1>3. PICK step : step = [x \in (1 .. n) \X Nat |-> x[2] + Len(v[x[1]])]
  BY Zenon
<1>4. ASSUME NEW i \in 1 .. n, NEW t \in Nat
      PROVE  step[<<i, t>>] = t + Len(v[i]) /\ t + Len(v[i]) \in Nat
  <2>1. v[i] \in Seq(B)
    BY <1>2
  <2>2. step[<<i, t>>] = t + Len(v[i])
    BY <1>3
  <2>3. t + Len(v[i]) \in Nat
    BY <2>1
  <2> QED BY <2>2, <2>3
<1>5. step \in [(1 .. n) \X Nat -> Nat]
  <2>1. \A x \in (1 .. n) \X Nat : x = <<x[1], x[2]>> /\ x[1] \in 1 .. n /\ x[2] \in Nat
    OBVIOUS
  <2>2. \A x \in (1 .. n) \X Nat : x[2] + Len(v[x[1]]) \in Nat
    BY <1>4, <2>1
  <2> QED BY <1>3, <2>2
<1> DEFINE P(f) == f = [i \in 0 .. Len(v) |-> IF i = 0 THEN 0 ELSE f[i - 1] + Len(v[i])]
<1>6. \E f : P(f)
  <2>0. PICK b \in Nat : b = 0
    BY <1>1
  <2>p. PICK f \in [0 .. n -> Nat] : Solves(f, n, b, step)
    BY <1>5, Recursion, Zenon
  <2>1. f[0] = 0 /\ \A i \in 1 .. n : f[i] = step[<<i, f[i - 1]>>]
    BY <2>0, <2>p DEF Solves
  <2>2. ASSUME NEW i \in 0 .. n PROVE f[i] = IF i = 0 THEN 0 ELSE f[i - 1] + Len(v[i])
    <3>1. CASE i = 0
      BY <2>1, <3>1
    <3>2. CASE i # 0
      <4>1. i \in 1 .. n /\ f[i - 1] \in Nat
        BY <3>2
      <4> QED BY <1>4, <2>1, <3>2, <4>1
    <3> QED BY <3>1, <3>2
  <2>3. P(f)
    BY <1>2, <2>2
  <2> QED BY <2>3, Zenon
<1>7. PICK f : f = CHOOSE g : P(g)
  BY Zenon
<1>8. P(f)
  BY <1>6, <1>7, Zenon
<1>9. f[0] = 0 /\ \A i \in 1 .. n : f[i] = f[i - 1] + Len(v[i])
  <2>1. \A i \in 0 .. n : f[i] = IF i = 0 THEN 0 ELSE f[i - 1] + Len(v[i])
    BY <1>2, <1>8
  <2>2. 0 \in 0 .. n /\ \A i \in 1 .. n : i \in 0 .. n /\ i # 0
    OBVIOUS
  <2> QED BY <2>1, <2>2
<1>10. \A i \in 0 .. n : f[i] \in Nat
  <2> DEFINE S == {i \in 0 .. n : f[i] \in Nat}
  <2>1. 0 \in S
    BY <1>1, <1>9
  <2>2. ASSUME NEW i \in 0 .. n, i \in S /\ i # n PROVE i + 1 \in S
    <3>1. PICK j \in 1 .. n : j = i + 1 /\ j \in 0 .. n /\ j - 1 = i
      BY <2>2
    <3>2. f[j] = f[j - 1] + Len(v[j])
      BY <1>9
    <3>3. f[j - 1] \in Nat
      BY <2>2, <3>1
    <3>4. f[j] \in Nat
      BY <1>4, <3>2, <3>3
    <3> QED BY <3>1, <3>4
  <2> HIDE DEF S
  <2>3. \A i \in 0 .. n : i \in S
    BY <2>1, <2>2, Induction
  <2> QED BY <2>3 DEF S
<1>11. f \in [0 .. n -> Nat]
  BY <1>2, <1>8, <1>10
<1>12. \A k \in 0 .. Len(v) : Before(v, k) = f[k]
  BY <1>7 DEF Before
<1> QED BY <1>2, <1>9, <1>11, <1>12

\* The recursion in Flat, solved.
LEMMA FlatRun ==
  ASSUME NEW B, NEW v \in Seq(Seq(B))
  PROVE  \E f \in [0 .. Len(v) -> Seq(B)] :
            /\ f[0] = << >>
            /\ \A i \in 1 .. Len(v) : f[i] = f[i - 1] \o v[i]
            /\ Flat(v) = f[Len(v)]
<1>1. << >> \in Seq(B)
  OBVIOUS
<1>2. PICK n \in Nat : n = Len(v) /\ \A i \in 1 .. n : v[i] \in Seq(B)
  OBVIOUS
<1>3. PICK step : step = [x \in (1 .. n) \X Seq(B) |-> x[2] \o v[x[1]]]
  BY Zenon
<1>4. ASSUME NEW i \in 1 .. n, NEW t \in Seq(B)
      PROVE  step[<<i, t>>] = t \o v[i] /\ t \o v[i] \in Seq(B)
  <2>1. v[i] \in Seq(B)
    BY <1>2
  <2>2. step[<<i, t>>] = t \o v[i]
    BY <1>3
  <2>3. t \o v[i] \in Seq(B)
    BY <2>1
  <2> QED BY <2>2, <2>3
<1>5. step \in [(1 .. n) \X Seq(B) -> Seq(B)]
  <2>1. \A x \in (1 .. n) \X Seq(B) : x = <<x[1], x[2]>> /\ x[1] \in 1 .. n /\ x[2] \in Seq(B)
    OBVIOUS
  <2>2. \A x \in (1 .. n) \X Seq(B) : x[2] \o v[x[1]] \in Seq(B)
    BY <1>4, <2>1
  <2> QED BY <1>3, <2>2
<1> DEFINE P(f) == f = [i \in 0 .. Len(v) |-> IF i = 0 THEN << >> ELSE f[i - 1] \o v[i]]
<1>6. \E f : P(f)
  <2>0. PICK b \in Seq(B) : b = << >>
    BY <1>1
  <2>p. PICK f \in [0 .. n -> Seq(B)] : Solves(f, n, b, step)
    BY <1>5, Recursion, Zenon
  <2>1. f[0] = << >> /\ \A i \in 1 .. n : f[i] = step[<<i, f[i - 1]>>]
    BY <2>0, <2>p DEF Solves
  <2>2. ASSUME NEW i \in 0 .. n PROVE f[i] = IF i = 0 THEN << >> ELSE f[i - 1] \o v[i]
    <3>1. CASE i = 0
      BY <2>1, <3>1
    <3>2. CASE i # 0
      <4>1. i \in 1 .. n /\ f[i - 1] \in Seq(B)
        BY <3>2
      <4> QED BY <1>4, <2>1, <3>2, <4>1
    <3> QED BY <3>1, <3>2
  <2>3. P(f)
    BY <1>2, <2>2
  <2> QED BY <2>3, Zenon
<1>7. PICK f : f = CHOOSE g : P(g)
  BY Zenon
<1>8. P(f)
  BY <1>6, <1>7, Zenon
<1>9. f[0] = << >> /\ \A i \in 1 .. n : f[i] = f[i - 1] \o v[i]
  <2>1. \A i \in 0 .. n : f[i] = IF i = 0 THEN << >> ELSE f[i - 1] \o v[i]
    BY <1>2, <1>8
  <2>2. 0 \in 0 .. n /\ \A i \in 1 .. n : i \in 0 .. n /\ i # 0
    OBVIOUS
  <2> QED BY <2>1, <2>2
<1>10. \A i \in 0 .. n : f[i] \in Seq(B)
  <2> DEFINE S == {i \in 0 .. n : f[i] \in Seq(B)}
  <2>0. f[0] \in Seq(B)
    BY <1>1, <1>9, Zenon
  <2>1. 0 \in S
    BY <2>0
  <2>2. ASSUME NEW i \in 0 .. n, i \in S /\ i # n PROVE i + 1 \in S
    <3>1. PICK j \in 1 .. n : j = i + 1 /\ j \in 0 .. n /\ j - 1 = i
      BY <2>2
    <3>2. f[j] = f[j - 1] \o v[j]
      BY <1>9
    <3>3. f[j - 1] \in Seq(B)
      BY <2>2, <3>1
    <3>4. f[j] \in Seq(B)
      BY <1>4, <3>2, <3>3
    <3> QED BY <3>1, <3>4
  <2> HIDE DEF S
  <2>3. \A i \in 0 .. n : i \in S
    BY <2>1, <2>2, Induction
  <2> QED BY <2>3 DEF S
<1>11. f \in [0 .. n -> Seq(B)]
  BY <1>2, <1>8, <1>10
<1>12. Flat(v) = f[Len(v)]
  BY <1>7 DEF Flat
<1> QED BY <1>2, <1>9, <1>11, <1>12

\* An element of a sequence.
LEMMA Element ==
  ASSUME NEW X, NEW s \in Seq(X), NEW i \in 1 .. Len(s)
  PROVE  s[i] \in X
OBVIOUS

\* c is s followed by t.
IsJoin(c, s, t) ==
    /\ Len(c) = Len(s) + Len(t)
    /\ \A i \in 1 .. Len(s) : c[i] = s[i]
    /\ \A i \in 1 .. Len(t) : c[Len(s) + i] = t[i]

\* A concatenation, element by element.
LEMMA JoinOf ==
  ASSUME NEW X, NEW s \in Seq(X), NEW t \in Seq(X)
  PROVE  s \o t \in Seq(X) /\ IsJoin(s \o t, s, t)
BY DEF IsJoin

\* The same, written out.
LEMMA Joined ==
  ASSUME NEW X, NEW s \in Seq(X), NEW t \in Seq(X)
  PROVE  /\ s \o t \in Seq(X)
         /\ Len(s \o t) = Len(s) + Len(t)
         /\ \A i \in 1 .. Len(s) : (s \o t)[i] = s[i]
         /\ \A i \in 1 .. Len(t) : (s \o t)[Len(s) + i] = t[i]
OBVIOUS

\* The lengths of the parts add up.
LEMMA BeforeFacts ==
  ASSUME NEW B, NEW v \in Seq(Seq(B))
  PROVE  /\ Before(v, 0) = 0
         /\ \A k \in 0 .. Len(v) : Before(v, k) \in Nat
         /\ \A k \in 1 .. Len(v) : Before(v, k) = Before(v, k - 1) + Len(v[k])
         /\ Total(v) = Before(v, Len(v))
<1>1. PICK n \in Nat : n = Len(v)
  OBVIOUS
<1>2. PICK f \in [0 .. n -> Nat] :
        /\ f[0] = 0
        /\ \A i \in 1 .. n : f[i] = f[i - 1] + Len(v[i])
        /\ \A k \in 0 .. n : Before(v, k) = f[k]
  BY <1>1, BeforeRun
<1>3. 0 \in 0 .. n /\ \A k \in 1 .. n : k \in 0 .. n /\ k - 1 \in 0 .. n
  OBVIOUS
<1> QED BY <1>1, <1>2, <1>3 DEF Total

\* More parts have no fewer bytes.
LEMMA BeforeGrows ==
  ASSUME NEW B, NEW v \in Seq(Seq(B)), NEW j \in 0 .. Len(v), NEW k \in 0 .. Len(v), j <= k
  PROVE  Before(v, j) <= Before(v, k)
<1>1. PICK n \in Nat : n = Len(v)
  OBVIOUS
<1>2. /\ \A i \in 0 .. n : Before(v, i) \in Nat
      /\ \A i \in 1 .. n : Before(v, i) = Before(v, i - 1) + Len(v[i]) /\ Len(v[i]) \in Nat
  <2>1. \A i \in 0 .. Len(v) : Before(v, i) \in Nat
    BY BeforeFacts
  <2>2. \A i \in 1 .. Len(v) : Before(v, i) = Before(v, i - 1) + Len(v[i])
    BY BeforeFacts
  <2>3. \A i \in 1 .. Len(v) : Len(v[i]) \in Nat
    OBVIOUS
  <2> QED BY <1>1, <2>1, <2>2, <2>3
<1> DEFINE S == {i \in 0 .. n : j <= i => Before(v, j) <= Before(v, i)}
<1>3. 0 \in S
  <2>1. j <= 0 => j = 0
    BY <1>1
  <2>2. Before(v, j) \in Nat
    BY <1>1, <1>2
  <2> QED BY <2>1, <2>2
<1>4. ASSUME NEW i \in 0 .. n, i \in S /\ i # n PROVE i + 1 \in S
  <2>1. i + 1 \in 1 .. n /\ i + 1 \in 0 .. n /\ i + 1 - 1 = i
    BY <1>4
  <2>2. Before(v, i) <= Before(v, i + 1) /\ Before(v, i) \in Nat /\ Before(v, i + 1) \in Nat /\ Before(v, j) \in Nat
    BY <1>1, <1>2, <2>1
  <2>3. j <= i + 1 => j <= i \/ j = i + 1
    BY <1>1
  <2>4. j <= i => Before(v, j) <= Before(v, i)
    BY <1>4
  <2> QED BY <2>1, <2>2, <2>3, <2>4
<1> HIDE DEF S
<1>5. \A i \in 0 .. n : i \in S
  BY <1>3, <1>4, Induction
<1> QED BY <1>1, <1>5 DEF S

\* All parts one after the other: as many bytes as they have together, and
\* every byte of a part where the parts before it end.
LEMMA FlatFacts ==
  ASSUME NEW B, NEW v \in Seq(Seq(B))
  PROVE  /\ Flat(v) \in Seq(B)
         /\ Len(Flat(v)) = Total(v)
         /\ \A k \in 1 .. Len(v) : \A j \in 1 .. Len(v[k]) : Flat(v)[Before(v, k - 1) + j] = v[k][j]
<1>1. PICK n \in Nat : n = Len(v)
  OBVIOUS
<1>2. PICK f \in [0 .. n -> Seq(B)] :
        /\ f[0] = << >>
        /\ \A i \in 1 .. n : f[i] = f[i - 1] \o v[i]
        /\ Flat(v) = f[n]
  BY <1>1, FlatRun
<1> DEFINE Holds(m) == /\ Len(f[m]) = Before(v, m)
                       /\ \A k \in 1 .. m : \A j \in 1 .. Len(v[k]) : f[m][Before(v, k - 1) + j] = v[k][j]
<1> DEFINE S == {m \in 0 .. n : Holds(m)}
<1>3. 0 \in S
  BY <1>2, BeforeFacts
<1>4. ASSUME NEW m \in 0 .. n, m \in S /\ m # n PROVE m + 1 \in S
  <2>1. PICK q \in 1 .. n : q = m + 1 /\ q - 1 = m /\ q \in 0 .. n
    BY <1>4
  <2>a. PICK a \in Seq(B) : a = f[m]
    BY <1>4
  <2>b. PICK b \in Seq(B) : b = v[q]
    BY <1>1, Element
  <2>2. f[q] = a \o b
    BY <1>2, <2>1, <2>a, <2>b
  <2>3. Len(f[m]) = Before(v, m) /\ \A k \in 1 .. m : \A j \in 1 .. Len(v[k]) : f[m][Before(v, k - 1) + j] = v[k][j]
    BY <1>4
  <2>4. Len(f[q]) = Before(v, q)
    <3>1. Before(v, q) = Before(v, m) + Len(v[q])
      BY <1>1, <2>1, BeforeFacts
    <3>2. Len(a \o b) = Len(a) + Len(b)
      BY Joined
    <3> QED BY <2>2, <2>3, <2>a, <2>b, <3>1, <3>2
  <2>5. ASSUME NEW k \in 1 .. q, NEW j \in 1 .. Len(v[k]) PROVE f[q][Before(v, k - 1) + j] = v[k][j]
    <3>1. k \in 1 .. n /\ k - 1 \in 0 .. Len(v) /\ k \in 0 .. Len(v) /\ m \in 0 .. Len(v)
      BY <1>1
    <3>2. PICK x \in Nat : x = Before(v, k - 1)
      BY <3>1, BeforeFacts
    <3>3. v[k] \in Seq(B) /\ Len(v[k]) \in Nat
      BY <1>1, <3>1
    <3>4. CASE k = q
      <4>1. x = Len(a)
        BY <2>1, <2>3, <2>a, <3>2, <3>4
      <4>2. (a \o b)[Len(a) + j] = b[j]
        BY <2>b, <3>4, Joined
      <4> QED BY <2>2, <2>b, <3>2, <3>4, <4>1, <4>2
    <3>5. CASE k # q
      <4>1. k \in 1 .. m /\ k <= m
        BY <2>1, <3>5
      <4>2. Before(v, k) <= Before(v, m) /\ Before(v, m) \in Nat
        BY <3>1, <4>1, BeforeGrows, BeforeFacts
      <4>3. Before(v, k) = x + Len(v[k])
        BY <1>1, <3>1, <3>2, BeforeFacts
      <4>4. x + j \in 1 .. Len(f[m])
        <5>1. Len(f[m]) = Before(v, m)
          BY <2>3
        <5>2. j >= 1 /\ j <= Len(v[k]) /\ j \in Nat
          BY <3>3
        <5>3. x + j >= 1 /\ x + j <= Before(v, k)
          BY <3>3, <4>3, <5>2
        <5>4. Before(v, k) \in Nat
          BY <3>3, <4>3
        <5> QED BY <4>2, <5>1, <5>2, <5>3, <5>4
      <4>5. f[m][x + j] = v[k][j]
        BY <2>3, <3>2, <4>1
      <4>6. (a \o b)[x + j] = a[x + j]
        BY <2>a, <4>4, Joined
      <4> QED BY <2>2, <2>a, <3>2, <4>5, <4>6
    <3> QED BY <3>4, <3>5
  <2>6. Holds(q)
    BY <2>4, <2>5
  <2> HIDE DEF Holds
  <2> QED BY <2>1, <2>6
<1> HIDE DEF S
<1>5. \A m \in 0 .. n : m \in S
  BY <1>3, <1>4, Induction
<1>6. Holds(n)
  <2> HIDE DEF Holds
  <2> QED BY <1>5 DEF S
<1> QED BY <1>1, <1>2, <1>6 DEF Total

\* And there is no other byte.
LEMMA Locate ==
  ASSUME NEW B, NEW v \in Seq(Seq(B)), NEW i \in 1 .. Total(v)
  PROVE  \E k \in 1 .. Len(v) : \E j \in 1 .. Len(v[k]) : i = Before(v, k - 1) + j
<1>1. PICK n \in Nat : n = Len(v)
  OBVIOUS
<1>2. \A k \in 0 .. n : Before(v, k) \in Nat
  BY <1>1, BeforeFacts
<1> DEFINE T == {k \in 0 .. n : i <= Before(v, k)}
<1>3. T \subseteq Nat /\ T # {}
  <2>1. n \in T
    BY <1>1, <1>2, BeforeFacts
  <2>2. T \subseteq Nat
    OBVIOUS
  <2> QED BY <2>1, <2>2, Zenon
<1>4. PICK k \in T : \A y \in T : k <= y
  BY <1>3, Least
<1>5. k # 0
  BY <1>1, <1>2, <1>4, BeforeFacts
<1>6. k \in 1 .. n /\ k - 1 \in 0 .. n /\ ~(k <= k - 1)
  BY <1>4, <1>5
<1>7. ~(i <= Before(v, k - 1)) /\ i <= Before(v, k)
  BY <1>4, <1>6
<1>8. Before(v, k) = Before(v, k - 1) + Len(v[k]) /\ Len(v[k]) \in Nat
  <2>1. PICK x \in 1 .. Len(v) : x = k
    BY <1>1, <1>6
  <2>2. Before(v, x) = Before(v, x - 1) + Len(v[x])
    BY BeforeFacts
  <2>3. v[x] \in Seq(B)
    BY Element
  <2> QED BY <2>1, <2>2, <2>3
<1>9. PICK j \in 1 .. Len(v[k]) : i = Before(v, k - 1) + j
  <2>1. PICK x \in Nat : x = Before(v, k - 1)
    BY <1>2, <1>6
  <2>a. PICK y \in Nat : y = Len(v[k])
    BY <1>8
  <2>b. i \in Nat
    BY <1>2, <1>1
  <2>c. ~(i <= x) /\ i <= x + y
    BY <1>7, <1>8, <2>1, <2>a
  <2>d. i - x \in 1 .. y /\ i = x + (i - x)
    BY <2>b, <2>c
  <2>2. i - x \in 1 .. Len(v[k]) /\ i = x + (i - x)
    BY <2>a, <2>d
  <2> QED BY <2>1, <2>2
<1> QED BY <1>1, <1>6, <1>9

\* A set of naturals with a bound has a greatest element.
LEMMA Greatest ==
  ASSUME NEW n \in Nat, NEW T, T \subseteq 0 .. n, T # {}
  PROVE  \E x \in T : \A y \in T : y <= x
<1> DEFINE U == {n - y : y \in T}
<1>1. U \subseteq Nat /\ U # {}
  <2>1. U \subseteq Nat
    OBVIOUS
  <2>2. U # {}
    OBVIOUS
  <2> QED BY <2>1, <2>2
<1>2. PICK u \in U : \A y \in U : u <= y
  BY <1>1, Least
<1>3. PICK x \in T : u = n - x
  BY <1>2
<1>4. ASSUME NEW y \in T PROVE y <= x
  <2>1. n - y \in U
    OBVIOUS
  <2>2. u <= n - y
    BY <1>2, <2>1
  <2>a. x \in 0 .. n /\ y \in 0 .. n
    BY Zenon
  <2>3. x \in Nat /\ y \in Nat /\ x <= n /\ y <= n
    BY <2>a
  <2> QED BY <1>3, <2>2, <2>3
<1> QED BY <1>4

\* No part is empty.
Solid(v) == \A k \in 1 .. Len(v) : v[k] # << >>

\* Parts that are not empty have bytes.
LEMMA TotalPositive ==
  ASSUME NEW B, NEW v \in Seq(Seq(B)), Solid(v)
  PROVE  Total(v) \in Nat /\ (v = << >> <=> Total(v) = 0)
<1>1. Total(v) = Before(v, Len(v)) /\ Before(v, 0) = 0 /\ Total(v) \in Nat
  BY BeforeFacts
<1>2. CASE v = << >>
  BY <1>1, <1>2
<1>3. CASE v # << >>
  <2>1. Len(v) \in Nat /\ 1 \in 1 .. Len(v) /\ 1 \in 0 .. Len(v) /\ Len(v) \in 0 .. Len(v) /\ 1 <= Len(v)
    BY <1>3
  <2>2. PICK a \in Seq(B) : a = v[1]
    BY <2>1, Element
  <2>3. a # << >>
    BY <2>1, <2>2 DEF Solid
  <2>4. Len(a) \in Nat \ {0}
    BY <2>3
  <2>5. Before(v, 1) = Before(v, 1 - 1) + Len(v[1])
    BY <2>1, BeforeFacts
  <2>6. Before(v, 1) = Len(a)
    BY <1>1, <2>2, <2>4, <2>5
  <2>7. Before(v, 1) <= Before(v, Len(v))
    BY <2>1, BeforeGrows
  <2> QED BY <1>1, <1>3, <2>4, <2>6, <2>7
<1> QED BY <1>1, <1>2, <1>3

\* What is left of a sequence.
LEMMA FromFacts ==
  ASSUME NEW X, NEW s \in Seq(X), NEW n \in 0 .. Len(s)
  PROVE  /\ From(s, n) \in Seq(X)
         /\ Len(From(s, n)) = Len(s) - n
         /\ \A i \in 1 .. Len(s) - n : From(s, n)[i] = s[n + i]
BY DEF From

\* The beginning of a sequence.
LEMMA FirstFacts ==
  ASSUME NEW X, NEW s \in Seq(X), NEW n \in 0 .. Len(s)
  PROVE  /\ SubSeq(s, 1, n) \in Seq(X)
         /\ Len(SubSeq(s, 1, n)) = n
         /\ \A i \in 1 .. n : SubSeq(s, 1, n)[i] = s[i]
OBVIOUS

\* A sequence of one element.
LEMMA Single ==
  ASSUME NEW X, NEW h \in X
  PROVE  <<h>> \in Seq(X) /\ Len(<<h>>) = 1 /\ <<h>>[1] = h
OBVIOUS

\* The end of a sequence.
LEMMA Rest ==
  ASSUME NEW X, NEW s \in Seq(X), NEW n \in 0 .. Len(s)
  PROVE  /\ SubSeq(s, n + 1, Len(s)) \in Seq(X)
         /\ Len(SubSeq(s, n + 1, Len(s))) = Len(s) - n
         /\ \A i \in 1 .. Len(s) - n : SubSeq(s, n + 1, Len(s))[i] = s[n + i]
OBVIOUS

\* w is v without its first d parts and the first x bytes of the next.
IsRest(w, v, d, x) ==
    /\ Len(w) = Len(v) - d
    /\ Len(w[1]) = Len(v[d + 1]) - x
    /\ \A i \in 1 .. Len(v[d + 1]) - x : w[1][i] = v[d + 1][x + i]
    /\ \A k \in 2 .. Len(w) : w[k] = v[d + k]

\* The parts that Advance leaves.
LEMMA RestShape ==
  ASSUME NEW B, NEW v \in Seq(Seq(B)), Solid(v), NEW d \in 0 .. Len(v) - 1, NEW x \in Nat, x < Len(v[d + 1])
  PROVE  LET w == <<From(v[d + 1], x)>> \o SubSeq(v, d + 2, Len(v))
         IN  w \in Seq(Seq(B)) /\ Solid(w) /\ IsRest(w, v, d, x)
<1>0. PICK L \in Nat : L = Len(v)
  OBVIOUS
<1>1. PICK e \in 1 .. L : e = d + 1
  BY <1>0
<1>2. PICK a \in Seq(B) : a = v[e]
  BY <1>0, Element
<1>3. x \in 0 .. Len(a) /\ x < Len(a)
  BY <1>1, <1>2
<1>4. PICK h \in Seq(B) : h = From(a, x)
  BY <1>3, FromFacts
<1>5. Len(h) = Len(a) - x /\ \A i \in 1 .. Len(a) - x : h[i] = a[x + i]
  BY <1>3, <1>4, FromFacts
<1>6. PICK r \in Seq(Seq(B)) : r = SubSeq(v, e + 1, L)
  <2>1. e \in 0 .. Len(v)
    BY <1>0
  <2>2. SubSeq(v, e + 1, Len(v)) \in Seq(Seq(B))
    BY <2>1, Rest
  <2> QED BY <1>0, <2>2
<1>7. Len(r) = L - e /\ \A i \in 1 .. L - e : r[i] = v[e + i]
  <2>1. e \in 0 .. Len(v)
    BY <1>0
  <2>2. /\ Len(SubSeq(v, e + 1, Len(v))) = Len(v) - e
        /\ \A i \in 1 .. Len(v) - e : SubSeq(v, e + 1, Len(v))[i] = v[e + i]
    BY <2>1, Rest
  <2> QED BY <1>0, <1>6, <2>2
<1>8. PICK X : X = Seq(B)
  BY Zenon
<1>9. PICK y : y = <<h>>
  BY Zenon
<1>10. y \in Seq(X) /\ Len(y) = 1 /\ y[1] = h /\ r \in Seq(X)
  BY <1>8, <1>9, Single
<1>11. PICK w : w = y \o r
  BY Zenon
<1>12. w \in Seq(X) /\ Len(w) = 1 + Len(r) /\ w[1] = h /\ \A i \in 1 .. Len(r) : w[1 + i] = r[i]
  <2>1. /\ y \o r \in Seq(X) /\ Len(y \o r) = Len(y) + Len(r)
        /\ \A i \in 1 .. Len(y) : (y \o r)[i] = y[i]
        /\ \A i \in 1 .. Len(r) : (y \o r)[Len(y) + i] = r[i]
    <3>1. y \in Seq(X)
      BY <1>10
    <3>2. r \in Seq(X)
      BY <1>10
    <3>3. y \o r \in Seq(X) /\ IsJoin(y \o r, y, r)
      BY <3>1, <3>2, JoinOf, Zenon
    <3> QED BY <3>3 DEF IsJoin
  <2>2. 1 \in 1 .. 1
    OBVIOUS
  <2> QED BY <1>10, <1>11, <2>1, <2>2
<1>13. w = <<From(v[d + 1], x)>> \o SubSeq(v, d + 2, Len(v))
  <2>1. e + 1 = d + 2
    BY <1>1
  <2> QED BY <1>0, <1>1, <1>2, <1>4, <1>6, <1>9, <1>11, <2>1
<1>14. Len(w) = L - d
  BY <1>1, <1>7, <1>12
<1>15. ASSUME NEW k \in 2 .. L - d PROVE w[k] = v[d + k] /\ d + k \in 1 .. L
  <2>1. PICK i \in Nat : i = k - 1
    OBVIOUS
  <2>2. i \in 1 .. L - e /\ k = 1 + i /\ d + k = e + i /\ d + k \in 1 .. L
    BY <1>1, <2>1
  <2> QED BY <1>7, <1>12, <2>2
<1>16. IsRest(w, v, d, x)
  BY <1>0, <1>1, <1>2, <1>5, <1>12, <1>14, <1>15 DEF IsRest
<1>17. Solid(w)
  <2> SUFFICES ASSUME NEW k \in 1 .. L - d PROVE w[k] # << >>
    BY <1>14 DEF Solid
  <2>1. CASE k = 1
    <3>1. Len(h) # 0
      BY <1>3, <1>5
    <3> QED BY <1>12, <2>1, <3>1
  <2>2. CASE k # 1
    <3>1. k \in 2 .. L - d
      BY <1>0, <2>2
    <3> QED BY <1>0, <1>15, <3>1 DEF Solid
  <2> QED BY <2>1, <2>2
<1> QED BY <1>8, <1>12, <1>13, <1>16, <1>17

\* w holds what v does after its first n bytes.
Left(w, v, n) ==
    /\ Total(w) = Total(v) - n
    /\ \A i \in 1 .. Total(w) : Flat(w)[i] = Flat(v)[n + i]

\* Their bytes are those that are not written yet.
LEMMA RestBytes ==
  ASSUME NEW B, NEW v \in Seq(Seq(B)), NEW w \in Seq(Seq(B)),
         NEW L \in Nat, L = Len(v), NEW d \in Nat, d < L, NEW x \in Nat,
         x < Len(v[d + 1]), IsRest(w, v, d, x)
  PROVE  Left(w, v, Before(v, d) + x)
<1>1. PICK M \in Nat : M = L - d /\ M # 0 /\ d + M = L
  <2>1. L - d \in Nat /\ L - d # 0 /\ d + (L - d) = L
    OBVIOUS
  <2> QED BY <2>1
<1>a. Len(w) = M
  BY <1>1 DEF IsRest
<1>2. PICK e \in 1 .. L : e = d + 1 /\ e - 1 = d
  OBVIOUS
<1>3. PICK a \in Seq(B) : a = v[e]
  BY Element
<1>b. PICK la \in Nat : la = Len(a)
  OBVIOUS
<1>5. /\ Before(w, 0) = 0 /\ Total(w) = Before(w, M)
      /\ \A k \in 1 .. M : Before(w, k) = Before(w, k - 1) + Len(w[k])
      /\ \A k \in 0 .. M : Before(w, k) \in Nat
  BY <1>a, BeforeFacts
<1>6. /\ Total(v) = Before(v, L)
      /\ \A k \in 1 .. L : Before(v, k) = Before(v, k - 1) + Len(v[k])
      /\ \A k \in 0 .. L : Before(v, k) \in Nat
  BY BeforeFacts
<1>c. d \in 0 .. L
  OBVIOUS
<1>4. PICK z \in Nat : z = Before(v, d)
  BY <1>6, <1>c
<1>7. x < la /\ Len(w[1]) = la - x /\ \A i \in 1 .. la - x : w[1][i] = a[x + i]
  BY <1>2, <1>3, <1>b DEF IsRest
<1>8. ASSUME NEW k \in 2 .. M PROVE w[k] = v[d + k] /\ d + k \in 1 .. L /\ d + k - 1 = d + (k - 1) /\ d + (k - 1) \in 0 .. L
  <2>1. w[k] = v[d + k]
    BY <1>a DEF IsRest
  <2>2. d + k \in 1 .. L /\ d + k - 1 = d + (k - 1) /\ d + (k - 1) \in 0 .. L
    BY <1>1
  <2> QED BY <2>1, <2>2
<1> DEFINE S == {k \in 0 .. M : k # 0 => Before(w, k) = Before(v, d + k) - (z + x)}
<1>9. 0 \in S
  OBVIOUS
<1>10. ASSUME NEW k \in 0 .. M, k \in S /\ k # M PROVE k + 1 \in S
  <2>1. PICK q \in 1 .. M : q = k + 1 /\ q - 1 = k /\ q \in 0 .. M
    BY <1>10
  <2>2. Before(w, q) = Before(w, k) + Len(w[q])
    BY <1>5, <2>1
  <2>a. PICK bk \in Nat : bk = Before(w, k)
    BY <1>5
  <2>3. CASE k = 0
    <3>1. q = 1 /\ d + q = e
      BY <1>2, <2>1, <2>3
    <3>a. bk = 0
      BY <1>5, <2>3, <2>a
    <3>b. Len(w[q]) = la - x
      BY <1>7, <3>1
    <3>2. Before(w, q) = la - x
      BY <1>7, <2>2, <2>a, <3>a, <3>b
    <3>3. Before(v, e) = z + la
      BY <1>2, <1>3, <1>4, <1>6, <1>b
    <3>c. x < la
      BY <1>7
    <3>d. (z + la) - (z + x) = la - x
      BY <3>c
    <3>4. Before(w, q) = Before(v, d + q) - (z + x)
      BY <3>1, <3>2, <3>3, <3>d
    <3> QED BY <2>1, <3>4
  <2>4. CASE k # 0
    <3>1. q \in 2 .. M
      BY <2>1, <2>4
    <3>2. w[q] = v[d + q] /\ d + q \in 1 .. L /\ d + q - 1 = d + k /\ d + k \in 0 .. L
      BY <1>8, <2>1, <3>1
    <3>3. PICK c \in 1 .. L : c = d + q /\ c - 1 = d + k
      <4>1. d + q \in 1 .. L /\ d + q - 1 = d + k
        BY <3>2
      <4> QED BY <4>1
    <3>4. PICK lc \in Nat : lc = Len(v[c])
      BY Element
    <3>5. Before(v, c) = Before(v, c - 1) + Len(v[c])
      BY <1>6
    <3>6. bk = Before(v, d + k) - (z + x)
      BY <1>10, <2>4, <2>a
    <3>7. PICK bv \in Nat : bv = Before(v, d + k)
      BY <1>6, <3>2
    <3>8. Before(w, q) = bk + lc /\ Before(v, c) = bv + lc /\ bk = bv - (z + x)
      BY <2>2, <2>a, <3>2, <3>3, <3>4, <3>5, <3>6, <3>7
    <3>9. Before(w, q) = Before(v, c) - (z + x)
      BY <3>8
    <3> QED BY <2>1, <3>3, <3>9
  <2> QED BY <2>3, <2>4
<1> HIDE DEF S
<1>11. \A k \in 0 .. M : k \in S
  BY <1>9, <1>10, Induction
<1>12. \A k \in 1 .. M : Before(w, k) = Before(v, d + k) - (z + x)
  BY <1>11 DEF S
<1>13. Total(w) = Total(v) - (z + x)
  <2>1. M \in 1 .. M
    BY <1>1
  <2> QED BY <1>1, <1>5, <1>6, <1>12, <2>1
<1>14. ASSUME NEW i \in 1 .. Total(w) PROVE Flat(w)[i] = Flat(v)[z + x + i]
  <2>0. i \in Nat
    BY <1>5
  <2>1. PICK k \in 1 .. Len(w) : \E j \in 1 .. Len(w[k]) : i = Before(w, k - 1) + j
    BY Locate
  <2>2. PICK j \in 1 .. Len(w[k]) : i = Before(w, k - 1) + j
    BY <2>1, Zenon
  <2>3. Flat(w)[i] = w[k][j]
    BY <2>2, FlatFacts
  <2>a. PICK jj \in Nat : jj = j
    BY Element
  <2>4. CASE k = 1
    <3>1. jj \in 1 .. la - x
      BY <1>7, <2>4, <2>a
    <3>a. w[k][j] = a[x + jj]
      BY <1>7, <2>4, <2>a, <3>1
    <3>2. i = jj
      BY <1>5, <2>2, <2>4, <2>a
    <3>3. PICK y \in 1 .. la : y = x + jj /\ z + y = z + x + i
      <4>a. x < la
        BY <1>7
      <4>1. x + jj \in 1 .. la
        BY <3>1, <4>a
      <4>2. z + (x + jj) = z + x + i
        BY <3>2
      <4> QED BY <4>1, <4>2
    <3>b. y \in 1 .. Len(v[e]) /\ e \in 1 .. Len(v)
      BY <1>3, <1>b
    <3>4. Flat(v)[Before(v, e - 1) + y] = v[e][y]
      BY <3>b, FlatFacts
    <3> QED BY <1>2, <1>3, <1>4, <2>3, <3>3, <3>4, <3>a
  <2>5. CASE k # 1
    <3>1. k \in 2 .. M /\ k - 1 \in 1 .. M
      BY <1>a, <2>5
    <3>2. w[k] = v[d + k] /\ d + k \in 1 .. L /\ d + k - 1 = d + (k - 1) /\ d + (k - 1) \in 0 .. L
      BY <1>8, <3>1
    <3>3. PICK c \in 1 .. Len(v) : c = d + k /\ c - 1 = d + (k - 1)
      BY <3>2
    <3>a. j \in 1 .. Len(v[c]) /\ v[c] = w[k]
      BY <3>2, <3>3
    <3>4. Flat(v)[Before(v, c - 1) + j] = v[c][j]
      BY <3>a, FlatFacts
    <3>5. PICK b \in Nat : b = Before(v, c - 1)
      BY <1>6, <3>2, <3>3
    <3>6. Before(w, k - 1) = b - (z + x)
      BY <1>12, <3>1, <3>3, <3>5
    <3>7. i = (b - (z + x)) + jj
      BY <2>2, <2>a, <3>6
    <3>8. z + x + i = b + jj
      BY <3>7
    <3>9. z + x + i = b + j
      BY <2>a, <3>8
    <3> QED BY <2>3, <3>4, <3>5, <3>9, <3>a
  <2> QED BY <2>4, <2>5
<1> QED BY <1>4, <1>13, <1>14 DEF Left

\* After writev() has taken n bytes, the parts hold what is left.
LEMMA AdvanceFacts ==
  ASSUME NEW B, NEW v \in Seq(Seq(B)), Solid(v), NEW n \in Nat, n <= Total(v)
  PROVE  /\ Advance(v, n) \in Seq(Seq(B))
         /\ Solid(Advance(v, n))
         /\ Total(Advance(v, n)) = Total(v) - n
         /\ \A i \in 1 .. Total(v) - n : Flat(Advance(v, n))[i] = Flat(v)[n + i]
<1>0. PICK L \in Nat : L = Len(v)
  OBVIOUS
<1>1. /\ Before(v, 0) = 0 /\ Total(v) = Before(v, L) /\ \A k \in 0 .. L : Before(v, k) \in Nat
      /\ Total(v) \in Nat
  BY <1>0, BeforeFacts
<1>2. PICK T : T = {k \in 0 .. L : Before(v, k) <= n}
  BY Zenon
<1>3. T \subseteq 0 .. L /\ T # {}
  <2>1. 0 \in T
    BY <1>1, <1>2
  <2>2. T \subseteq 0 .. L
    BY <1>2
  <2> QED BY <2>1, <2>2, Zenon
<1>4. PICK g : g = CHOOSE k \in T : \A j \in T : j <= k
  BY Zenon
<1>5. g \in T /\ \A j \in T : j <= g
  <2>1. \E k \in T : \A j \in T : j <= k
    BY <1>3, Greatest, Zenon
  <2> QED BY <1>4, <2>1, Zenon
<1>6. PICK d \in Nat : d = g /\ d <= L /\ d \in 0 .. L
  BY <1>2, <1>5
<1>b. PICK z \in Nat : z = Before(v, d) /\ z <= n
  BY <1>1, <1>2, <1>5, <1>6
<1>7. PICK x \in Nat : x = n - z /\ z + x = n
  BY <1>b
<1>8. Advance(v, n) = IF d = L THEN << >> ELSE <<From(v[d + 1], x)>> \o SubSeq(v, d + 2, L)
  BY <1>0, <1>2, <1>4, <1>6, <1>7, <1>b DEF Advance
<1>9. PICK w : w = Advance(v, n)
  BY Zenon
<1>10. CASE d = L
  <2>1. n = Total(v)
    BY <1>1, <1>b, <1>10
  <2>2. w = << >>
    BY <1>8, <1>9, <1>10
  <2>3. w \in Seq(Seq(B)) /\ Solid(w)
    BY <2>2 DEF Solid
  <2>4. Total(w) = 0
    BY <2>2, <2>3, TotalPositive
  <2> QED BY <1>1, <1>9, <2>1, <2>3, <2>4
<1>11. CASE d # L
  <2>1. PICK e \in 1 .. L : e = d + 1 /\ e - 1 = d /\ d < L /\ e \in 0 .. L /\ ~(e <= d)
    BY <1>6, <1>11
  <2>2. ~(Before(v, e) <= n)
    BY <1>2, <1>5, <1>6, <2>1
  <2>3. PICK a \in Seq(B) : a = v[e]
    BY <1>0, Element
  <2>4. Before(v, e) = Before(v, e - 1) + Len(v[e])
    BY <1>0, BeforeFacts
  <2>5. x < Len(a)
    <3>1. Before(v, e) = z + Len(a) /\ Len(a) \in Nat
      BY <1>b, <2>1, <2>3, <2>4
    <3> QED BY <1>7, <2>2, <3>1
  <2>6. x < Len(v[d + 1]) /\ d \in 0 .. Len(v) - 1
    BY <1>0, <2>1, <2>3, <2>5
  <2>7. w = <<From(v[d + 1], x)>> \o SubSeq(v, d + 2, Len(v))
    BY <1>0, <1>8, <1>9, <1>11
  <2>8. w \in Seq(Seq(B)) /\ Solid(w) /\ IsRest(w, v, d, x)
    BY <2>6, <2>7, RestShape
  <2>9. Left(w, v, Before(v, d) + x)
    <3>1. w \in Seq(Seq(B))
      BY <2>8
    <3>2. IsRest(w, v, d, x)
      BY <2>8
    <3>3. d < L
      BY <2>1
    <3>4. x < Len(v[d + 1])
      BY <2>6
    <3> QED BY <1>0, <3>1, <3>2, <3>3, <3>4, RestBytes, Zenon
  <2>10. Left(w, v, n)
    BY <1>7, <1>b, <2>9
  <2> QED BY <1>9, <2>8, <2>10 DEF Left
<1> QED BY <1>10, <1>11

-----------------------------------------------------------------------------
(***************************************************************************)
(* Every layout is parsed as it was meant.                                 *)
(***************************************************************************)

\* Sequences with the same elements are the same.
LEMMA SameSeq ==
  ASSUME NEW X, NEW s \in Seq(X), NEW t \in Seq(X), Len(s) = Len(t), \A i \in 1 .. Len(s) : s[i] = t[i]
  PROVE  s = t
OBVIOUS

\* A field of a payload, byte by byte.
LEMMA Slice ==
  ASSUME NEW X, NEW s \in Seq(X), NEW off \in Nat, NEW n \in Nat, off + n <= Len(s)
  PROVE  At(s, off, n) \in Seq(X) /\ Len(At(s, off, n)) = n /\ \A i \in 1 .. n : At(s, off, n)[i] = s[off + i]
BY DEF At

\* q is in p, from offset o on.
Agree(p, o, q) == \A i \in 1 .. Len(q) : p[o + i] = q[i]

\* A field is known by its bytes.
LEMMA SliceIs ==
  ASSUME NEW X, NEW p \in Seq(X), NEW q \in Seq(X), NEW o \in Nat, NEW n \in Nat, n = Len(q),
         o + n <= Len(p), Agree(p, o, q)
  PROVE  At(p, o, n) = q
<1>1. PICK r : r = At(p, o, n)
  BY Zenon
<1>2. r \in Seq(X) /\ Len(r) = n /\ \A i \in 1 .. n : r[i] = p[o + i]
  <2>1. At(p, o, n) \in Seq(X) /\ Len(At(p, o, n)) = n
    BY Slice
  <2>2. \A i \in 1 .. n : At(p, o, n)[i] = p[o + i]
    BY DEF At
  <2> QED BY <1>1, <2>1, <2>2
<1>3. \A i \in 1 .. n : r[i] = q[i]
  BY <1>2 DEF Agree
<1> QED BY <1>1, <1>2, <1>3, SameSeq

\* So is the last one.
LEMMA SliceRest ==
  ASSUME NEW X, NEW p \in Seq(X), NEW q \in Seq(X), NEW o \in Nat, NEW n \in Nat, n = Len(q),
         Len(p) = o + n, Agree(p, o, q)
  PROVE  From(p, o) = q
<1>1. From(p, o) = At(p, o, n)
  BY DEF From, At
<1>2. o + n <= Len(p)
  OBVIOUS
<1>3. At(p, o, n) = q
  BY <1>2, SliceIs, Zenon
<1> QED BY <1>1, <1>3

\* The last field of a concatenation.
LEMMA FieldLast ==
  ASSUME NEW X, NEW s \in Seq(X), NEW t \in Seq(X)
  PROVE  From(s \o t, Len(s)) = t /\ At(s \o t, Len(s), Len(t)) = t
<1>1. PICK c \in Seq(X) : c = s \o t /\ IsJoin(c, s, t)
  BY JoinOf
<1>2. PICK a \in Nat : a = Len(s)
  OBVIOUS
<1>3. PICK b \in Nat : b = Len(t)
  OBVIOUS
<1>4. Len(c) = a + b /\ \A i \in 1 .. b : c[a + i] = t[i]
  BY <1>1, <1>2, <1>3 DEF IsJoin
<1>5. PICK r \in Seq(X) : r = At(c, a, b) /\ Len(r) = b /\ \A i \in 1 .. b : r[i] = c[a + i]
  <2>1. a + b <= Len(c)
    BY <1>4
  <2> QED BY <2>1, Slice
<1>6. r = t
  BY <1>3, <1>4, <1>5, SameSeq
<1>7. From(c, a) = At(c, a, b)
  BY <1>4 DEF From, At
<1> QED BY <1>1, <1>2, <1>3, <1>5, <1>6, <1>7

\* A field before the last one.
LEMMA FieldBefore ==
  ASSUME NEW X, NEW s \in Seq(X), NEW t \in Seq(X), NEW off \in Nat, NEW n \in Nat, off + n <= Len(s)
  PROVE  At(s \o t, off, n) = At(s, off, n)
<1>1. PICK c \in Seq(X) : c = s \o t /\ IsJoin(c, s, t)
  BY JoinOf
<1>2. PICK a \in Nat : a = Len(s)
  OBVIOUS
<1>4. off + n <= Len(c) /\ \A i \in 1 .. a : c[i] = s[i]
  BY <1>1, <1>2 DEF IsJoin
<1>5. PICK r \in Seq(X) : r = At(c, off, n) /\ Len(r) = n /\ \A i \in 1 .. n : r[i] = c[off + i]
  BY <1>4, Slice
<1>b. At(s, off, n) \in Seq(X) /\ Len(At(s, off, n)) = n /\ \A i \in 1 .. n : At(s, off, n)[i] = s[off + i]
  BY Slice
<1>6. PICK q \in Seq(X) : q = At(s, off, n) /\ Len(q) = n /\ \A i \in 1 .. n : q[i] = s[off + i]
  BY <1>b
<1>7. ASSUME NEW i \in 1 .. n PROVE r[i] = q[i]
  <2>1. off + i \in 1 .. a
    BY <1>2
  <2> QED BY <1>4, <1>5, <1>6, <2>1
<1>8. r = q
  BY <1>5, <1>6, <1>7, SameSeq
<1> QED BY <1>1, <1>5, <1>6, <1>8

\* Token lengths and message types fit a byte.
LEMMA ByteFacts == MaxToken \in Byte /\ 0 .. MaxToken \subseteq Byte /\ 0 .. 10 \subseteq Byte
BY WidthAssumption DEF Byte

\* The widths and limits that the layouts use.
LEMMA WidthFacts ==
  /\ SizeLen \in Nat /\ SeqLen \in Nat /\ MaxToken \in Nat /\ MaxGraceful \in Nat /\ MaxFrame \in Nat
  /\ SeqLen + SizeLen <= MaxGraceful /\ MaxGraceful < Power[SizeLen]
BY WidthAssumption

\* A field of n bytes: its integer is read back.
LEMMA Field ==
  ASSUME NEW n \in Nat, NEW v \in Unsigned(n)
  PROVE  Put(n, v) \in Seq(Byte) /\ Len(Put(n, v)) = n /\ Get(Put(n, v)) = v
<1>1. v \in Nat
  BY PowerFacts DEF Unsigned
<1> QED BY <1>1, PutFacts, GetPut

\* A token and its length.
LEMMA TokenFacts ==
  ASSUME NEW token \in Seq(Byte), Len(token) <= MaxToken
  PROVE  /\ TokenField(token) \in Seq(Byte)
         /\ IsJoin(TokenField(token), <<Len(token)>>, token)
         /\ Len(TokenField(token)) = 1 + Len(token)
         /\ TokenField(token)[1] = Len(token)
         /\ From(TokenField(token), 1) = token
<1>1. PICK l \in Byte : l = Len(token)
  BY ByteFacts
<1>2. PICK a : a = <<l>>
  BY Zenon
<1>3. a \in Seq(Byte) /\ Len(a) = 1 /\ a[1] = l
  BY <1>2, Single
<1>4. PICK c : c = a \o token
  BY Zenon
<1>5. c \in Seq(Byte) /\ IsJoin(c, a, token)
  <2>1. a \in Seq(Byte)
    BY <1>3
  <2> QED BY <1>4, <2>1, JoinOf, Zenon
<1>6. c = TokenField(token)
  BY <1>1, <1>2, <1>4 DEF TokenField
<1>7. Len(c) = 1 + Len(token) /\ c[1] = l
  <2>1. 1 \in 1 .. Len(a)
    BY <1>3
  <2> QED BY <1>3, <1>5, <2>1 DEF IsJoin
<1>8. From(c, Len(a)) = token
  <2>1. a \in Seq(Byte)
    BY <1>3
  <2> QED BY <1>4, <2>1, FieldLast, Zenon
<1> QED BY <1>1, <1>2, <1>3, <1>5, <1>6, <1>7, <1>8

\* c is the fields s, then the field t.
Follows(c, s, t) ==
    /\ Len(c) = Len(s) + Len(t)
    /\ From(c, Len(s)) = t
    /\ At(c, Len(s), Len(t)) = t
    /\ \A i \in 1 .. Len(s) : c[i] = s[i]
    /\ \A i \in 1 .. Len(t) : c[Len(s) + i] = t[i]
    /\ \A off, n \in Nat : off + n <= Len(s) => At(c, off, n) = At(s, off, n)

\* One more field after the others.
LEMMA FieldNext ==
  ASSUME NEW X, NEW s \in Seq(X), NEW t \in Seq(X), NEW c, c = s \o t
  PROVE  c \in Seq(X) /\ Follows(c, s, t)
<1>1. c \in Seq(X) /\ IsJoin(c, s, t)
  BY JoinOf, Zenon
<1>2. /\ Len(c) = Len(s) + Len(t)
      /\ \A i \in 1 .. Len(s) : c[i] = s[i]
      /\ \A i \in 1 .. Len(t) : c[Len(s) + i] = t[i]
  BY <1>1 DEF IsJoin
<1>3. From(c, Len(s)) = t /\ At(c, Len(s), Len(t)) = t
  BY FieldLast, Zenon
<1>4. \A off, n \in Nat : off + n <= Len(s) => At(c, off, n) = At(s, off, n)
  <2> SUFFICES ASSUME NEW off \in Nat, NEW n \in Nat, off + n <= Len(s)
               PROVE  At(c, off, n) = At(s, off, n)
    OBVIOUS
  <2>1. At(s \o t, off, n) = At(s, off, n)
    BY FieldBefore, Zenon
  <2> QED BY <2>1
<1> QED BY <1>1, <1>2, <1>3, <1>4 DEF Follows

\* The layout of a HELLO and a RECONNECT.
Layout(p, v, s, c, r, t, a, b, d, e) ==
    /\ Len(p) = a + b + d + e + Len(t)
    /\ p[1] = v[1]
    /\ At(p, a, b) = s /\ At(p, a + b, d) = c /\ At(p, a + b + d, e) = r
    /\ \A i \in 1 .. Len(t) : p[a + b + d + e + i] = t[i]

\* The layout of an intro.
LEMMA FiveFields ==
  ASSUME NEW X, NEW v \in Seq(X), NEW s \in Seq(X), NEW c \in Seq(X), NEW r \in Seq(X), NEW t \in Seq(X),
         NEW a \in Nat, a = Len(v), NEW b \in Nat, b = Len(s), NEW d \in Nat, d = Len(c),
         NEW e \in Nat, e = Len(r), a > 0,
         NEW p, p = v \o s \o c \o r \o t
  PROVE  p \in Seq(X) /\ Layout(p, v, s, c, r, t, a, b, d, e)
<1>1. PICK x : x = v \o s
  BY Zenon
<1>2. x \in Seq(X) /\ Follows(x, v, s)
  BY <1>1, FieldNext, Zenon
<1>3. PICK y : y = x \o c
  BY Zenon
<1>4. y \in Seq(X) /\ Follows(y, x, c)
  BY <1>2, <1>3, FieldNext, Zenon
<1>5. PICK z : z = y \o r
  BY Zenon
<1>6. z \in Seq(X) /\ Follows(z, y, r)
  BY <1>4, <1>5, FieldNext, Zenon
<1>7. p = z \o t
  BY <1>1, <1>3, <1>5
<1>8. p \in Seq(X) /\ Follows(p, z, t)
  BY <1>6, <1>7, FieldNext, Zenon
<1>9. Len(x) = a + b /\ x[1] = v[1] /\ At(x, a, b) = s
  <2>1. 1 \in 1 .. Len(v)
    OBVIOUS
  <2> QED BY <1>2, <2>1 DEF Follows
<1>10. Len(y) = a + b + d /\ y[1] = v[1] /\ At(y, a, b) = s /\ At(y, a + b, d) = c
  <2>1. 1 \in 1 .. Len(x) /\ a + b <= Len(x)
    BY <1>2, <1>9
  <2>2. Len(y) = a + b + d /\ y[1] = x[1] /\ At(y, a + b, d) = c
    BY <1>4, <1>9, <2>1 DEF Follows
  <2>3. At(y, a, b) = At(x, a, b)
    BY <1>4, <2>1 DEF Follows
  <2> QED BY <1>9, <2>2, <2>3
<1>11. /\ Len(z) = a + b + d + e /\ z[1] = v[1]
       /\ At(z, a, b) = s /\ At(z, a + b, d) = c /\ At(z, a + b + d, e) = r
  <2>1. 1 \in 1 .. Len(y) /\ a + b <= Len(y) /\ (a + b) + d <= Len(y) /\ a + b \in Nat
    BY <1>4, <1>10
  <2>2. Len(z) = a + b + d + e /\ z[1] = y[1] /\ At(z, a + b + d, e) = r
    BY <1>6, <1>10, <2>1 DEF Follows
  <2>3. At(z, a, b) = At(y, a, b)
    BY <1>6, <2>1 DEF Follows
  <2>4. At(z, a + b, d) = At(y, a + b, d)
    BY <1>6, <2>1 DEF Follows
  <2> QED BY <1>10, <2>2, <2>3, <2>4
<1>12. /\ Len(p) = a + b + d + e + Len(t) /\ p[1] = v[1]
       /\ At(p, a, b) = s /\ At(p, a + b, d) = c /\ At(p, a + b + d, e) = r
  <2>1. /\ 1 \in 1 .. Len(z) /\ a + b <= Len(z) /\ (a + b) + d <= Len(z) /\ (a + b + d) + e <= Len(z)
        /\ a + b \in Nat /\ a + b + d \in Nat
    BY <1>6, <1>11
  <2>2. Len(p) = a + b + d + e + Len(t) /\ p[1] = z[1]
    BY <1>8, <1>11, <2>1 DEF Follows
  <2>3. At(p, a, b) = At(z, a, b)
    BY <1>8, <2>1 DEF Follows
  <2>4. At(p, a + b, d) = At(z, a + b, d)
    BY <1>8, <2>1 DEF Follows
  <2>5. At(p, a + b + d, e) = At(z, a + b + d, e)
    BY <1>8, <2>1 DEF Follows
  <2> QED BY <1>11, <2>2, <2>3, <2>4, <2>5
<1>13. \A i \in 1 .. Len(t) : p[a + b + d + e + i] = t[i]
  BY <1>8, <1>11 DEF Follows
<1> QED BY <1>8, <1>12, <1>13 DEF Layout

\* opty_parse_intro_payload reads what opty_send_hello and
\* opty_send_reconnect wrote, and turns away another version.
ReadsIntro(p, k, ver, ty, seq, cols, rows, token) ==
    /\ Len(p) = 2 + k + SizeLen + SizeLen + Len(token)
    /\ \A w : ParseIntro(ty, w, p, k) =
               (IF w = ver THEN [type |-> ty, seq |-> seq, cols |-> cols, rows |-> rows, token |-> token]
                           ELSE Malformed)

\* opty_parse_intro_payload reads a HELLO or RECONNECT back.
LEMMA IntroParsed ==
  ASSUME NEW k \in Nat, NEW ver \in Byte, NEW ty, NEW seq \in Unsigned(k),
         NEW cols \in Size, NEW rows \in Size, NEW token \in Seq(Byte), Len(token) <= MaxToken,
         NEW p, p = <<ver>> \o Put(k, seq) \o Put(SizeLen, cols) \o Put(SizeLen, rows) \o TokenField(token)
  PROVE  p \in Seq(Byte) /\ ReadsIntro(p, k, ver, ty, seq, cols, rows, token)
<1>1. PICK v : v = <<ver>>
  BY Zenon
<1>2. v \in Seq(Byte) /\ Len(v) = 1 /\ v[1] = ver
  BY <1>1, Single
<1>3. PICK s \in Seq(Byte) : s = Put(k, seq) /\ Len(s) = k /\ Get(s) = seq
  BY Field
<1>4. PICK z \in Nat : z = SizeLen
  BY WidthFacts
<1>5. PICK c \in Seq(Byte) : c = Put(SizeLen, cols) /\ Len(c) = z /\ Get(c) = cols
  BY <1>4, Field DEF Size
<1>6. PICK r \in Seq(Byte) : r = Put(SizeLen, rows) /\ Len(r) = z /\ Get(r) = rows
  BY <1>4, Field DEF Size
<1>7. PICK l \in Nat : l = Len(token)
  OBVIOUS
<1>8. PICK t \in Seq(Byte) : /\ t = TokenField(token) /\ Len(t) = 1 + l /\ t[1] = l
                             /\ From(t, 1) = token /\ IsJoin(t, <<l>>, token)
  <2>1. /\ TokenField(token) \in Seq(Byte) /\ Len(TokenField(token)) = 1 + l /\ TokenField(token)[1] = l
        /\ From(TokenField(token), 1) = token /\ IsJoin(TokenField(token), <<l>>, token)
    BY <1>7, TokenFacts
  <2> QED BY <2>1
<1>9. p = v \o s \o c \o r \o t
  BY <1>1, <1>3, <1>5, <1>6, <1>8
<1>a. PICK one \in Nat : one = 1
  OBVIOUS
<1>b. Layout(p, v, s, c, r, t, one, k, z, z) /\ p \in Seq(Byte)
  <2>1. one = Len(v) /\ k = Len(s) /\ z = Len(c) /\ z = Len(r) /\ v \in Seq(Byte)
    BY <1>2, <1>3, <1>5, <1>6, <1>a
  <2>2. one > 0
    BY <1>a
  <2> QED BY <1>9, <2>1, <2>2, FiveFields, ZenonT(40)
<1>10. /\ Len(p) = 1 + k + z + z + Len(t)
       /\ p[1] = v[1]
       /\ At(p, 1, k) = s /\ At(p, 1 + k, z) = c /\ At(p, 1 + k + z, z) = r
       /\ \A i \in 1 .. Len(t) : p[1 + k + z + z + i] = t[i]
  BY <1>a, <1>b DEF Layout
<1>11. PICK o \in Nat : o = 1 + k + z + z + 1
  OBVIOUS
<1>12. Len(p) = o + l /\ p[1] = ver /\ p[o] = l
  <2>1. 1 \in 1 .. Len(t)
    BY <1>8
  <2>2. p[1 + k + z + z + 1] = t[1]
    BY <1>10, <2>1
  <2>3. Len(p) = o + l
    BY <1>8, <1>10, <1>11
  <2> QED BY <1>2, <1>8, <1>10, <1>11, <2>2, <2>3
<1>13. From(p, o) = token
  <2>1. ASSUME NEW i \in 1 .. l PROVE p[o + i] = token[i]
    <3>1. 1 + i \in 1 .. Len(t) /\ o + i = 1 + k + z + z + (1 + i)
      BY <1>8, <1>11
    <3>2. p[o + i] = t[1 + i]
      BY <1>10, <3>1
    <3>3. t[1 + i] = token[i]
      <4>1. PICK h : h = <<l>>
        BY Zenon
      <4>2. Len(h) = 1
        BY <4>1, Single
      <4>3. \A q \in 1 .. Len(token) : t[Len(h) + q] = token[q]
        BY <1>8, <4>1 DEF IsJoin
      <4> QED BY <1>7, <4>2, <4>3
    <3> QED BY <3>2, <3>3
  <2>2. Len(p) = o + l
    BY <1>12
  <2>3. Agree(p, o, token)
    BY <1>7, <2>1 DEF Agree
  <2>4. p \in Seq(Byte)
    BY <1>b
  <2>5. l = Len(token)
    BY <1>7
  <2>6. PICK q : q = p
    BY Zenon
  <2>7. Len(q) = o + l /\ Agree(q, o, token) /\ q \in Seq(Byte)
    BY <2>2, <2>3, <2>4, <2>6
  <2>8. From(q, o) = token
    BY <2>5, <2>7, SliceRest, Zenon
  <2> QED BY <2>6, <2>8
<1>14. ASSUME NEW w PROVE ParseIntro(ty, w, p, k) =
         IF Len(p) < o \/ p[1] # w \/ Len(p) # o + p[o] THEN Malformed
         ELSE [type |-> ty, seq |-> Get(At(p, 1, k)), cols |-> Get(At(p, 1 + k, z)),
               rows |-> Get(At(p, 1 + k + z, z)), token |-> From(p, o)]
  <2>1. 1 + k + 2 * SizeLen + 1 = o
    BY <1>4, <1>11
  <2> QED BY <1>4, <2>1 DEF ParseIntro
<1>15. ~(Len(p) < o) /\ Len(p) = o + p[o]
  <2>1. PICK n \in Nat : n = Len(p)
    BY <1>b
  <2>2. n = o + l
    BY <1>12, <2>1
  <2>3. ~(Len(p) < o)
    BY <2>1, <2>2
  <2> QED BY <1>12, <2>3
<1>16. ASSUME NEW w PROVE ParseIntro(ty, w, p, k) =
         (IF w = ver THEN [type |-> ty, seq |-> seq, cols |-> cols, rows |-> rows, token |-> token]
                     ELSE Malformed)
  BY <1>3, <1>5, <1>6, <1>10, <1>12, <1>13, <1>14, <1>15
<1>17. Len(p) = 2 + k + SizeLen + SizeLen + Len(token)
  BY <1>4, <1>7, <1>11, <1>12
<1> QED BY <1>b, <1>16, <1>17 DEF ReadsIntro

\* opty_parse_control_shutdown reads what opty_send_control_shutdown wrote.
ReadsControl(p, ver, token, data) ==
    /\ Len(p) = 2 + Len(token) + SizeLen + Len(data)
    /\ \A w : ParseControl(w, p) =
               (IF w = ver THEN [type |-> CONTROL_SHUTDOWN, token |-> token, data |-> data]
                           ELSE Malformed)

\* opty_parse_control_shutdown reads a CONTROL_SHUTDOWN back.
LEMMA ControlParsed ==
  ASSUME NEW ver \in Byte, NEW token \in Seq(Byte), Len(token) <= MaxToken,
         NEW data \in Seq(Byte), Len(data) <= MaxGraceful,
         NEW p, p = <<ver>> \o TokenField(token) \o Put(SizeLen, Len(data)) \o data
  PROVE  p \in Seq(Byte) /\ ReadsControl(p, ver, token, data)
<1>1. PICK v : v = <<ver>>
  BY Zenon
<1>2. v \in Seq(Byte) /\ Len(v) = 1 /\ v[1] = ver
  BY <1>1, Single
<1>3. PICK l \in Nat : l = Len(token)
  OBVIOUS
<1>4. PICK z \in Nat : z = SizeLen
  BY WidthFacts
<1>5. PICK e \in Nat : e = Len(data)
  OBVIOUS
<1>6. PICK t \in Seq(Byte) : /\ t = TokenField(token) /\ Len(t) = 1 + l /\ t[1] = l
                             /\ From(t, 1) = token
  <2>1. /\ TokenField(token) \in Seq(Byte) /\ Len(TokenField(token)) = 1 + l /\ TokenField(token)[1] = l
        /\ From(TokenField(token), 1) = token
    BY <1>3, TokenFacts
  <2> QED BY <2>1
<1>7. PICK s \in Seq(Byte) : s = Put(SizeLen, Len(data)) /\ Len(s) = z /\ Get(s) = e
  <2>1. e \in Unsigned(SizeLen)
    <3>1. PICK g \in Nat : g = Power[SizeLen]
      BY <1>4, PowerFacts
    <3>2. e < g
      BY <1>5, <3>1, WidthFacts
    <3> QED BY <3>1, <3>2 DEF Unsigned
  <2>2. Put(SizeLen, e) \in Seq(Byte) /\ Len(Put(SizeLen, e)) = SizeLen /\ Get(Put(SizeLen, e)) = e
    BY <2>1, Field, WidthFacts
  <2> QED BY <1>4, <1>5, <2>2
<1>8. PICK x : x = v \o t
  BY Zenon
<1>a. x \in Seq(Byte) /\ Follows(x, v, t)
  <2>1. v \in Seq(Byte)
    BY <1>2
  <2> QED BY <1>8, <2>1, FieldNext, Zenon
<1>b. Len(x) = 2 + l /\ x[1] = ver /\ x[2] = l /\ \A i \in 1 .. 1 + l : x[1 + i] = t[i]
  <2>1. 1 \in 1 .. Len(v) /\ 1 \in 1 .. Len(t)
    BY <1>2, <1>6
  <2>2. Len(x) = Len(v) + Len(t) /\ x[1] = v[1] /\ \A i \in 1 .. Len(t) : x[Len(v) + i] = t[i]
    BY <1>a, <2>1 DEF Follows
  <2>3. x[2] = t[1]
    BY <1>2, <2>1, <2>2
  <2>4. Len(x) = 2 + l
    BY <1>2, <1>6, <2>2
  <2> QED BY <1>2, <1>6, <2>2, <2>3, <2>4
<1>9. PICK y : y = x \o s
  BY Zenon
<1>c. y \in Seq(Byte) /\ Follows(y, x, s)
  BY <1>9, <1>a, FieldNext, Zenon
<1>d. Len(y) = 2 + l + z /\ At(y, 2 + l, z) = s /\ \A i \in 1 .. 2 + l : y[i] = x[i]
  BY <1>7, <1>b, <1>c DEF Follows
<1>10. p = y \o data
  BY <1>1, <1>6, <1>7, <1>8, <1>9
<1>f. p \in Seq(Byte) /\ Follows(p, y, data)
  BY <1>10, <1>c, FieldNext, Zenon
<1>11. /\ Len(p) = 2 + l + z + e /\ At(p, 2 + l, z) = s /\ From(p, 2 + l + z) = data
       /\ \A i \in 1 .. 2 + l + z : p[i] = y[i]
  <2>1. (2 + l) + z <= Len(y) /\ 2 + l \in Nat
    BY <1>c, <1>d
  <2>2. At(p, 2 + l, z) = At(y, 2 + l, z)
    BY <1>f, <2>1 DEF Follows
  <2>3. /\ Len(p) = 2 + l + z + e /\ From(p, 2 + l + z) = data
        /\ \A i \in 1 .. 2 + l + z : p[i] = y[i]
    BY <1>5, <1>d, <1>f DEF Follows
  <2> QED BY <1>d, <2>2, <2>3
<1>g. \A i \in 1 .. 2 + l : p[i] = x[i]
  <2>1. \A i \in 1 .. 2 + l : i \in 1 .. 2 + l + z
    OBVIOUS
  <2> QED BY <1>d, <1>11, <2>1
<1>12. p[1] = ver /\ p[2] = l
  <2>1. 1 \in 1 .. 2 + l /\ 2 \in 1 .. 2 + l
    OBVIOUS
  <2> QED BY <1>b, <1>g, <2>1
<1>13. At(p, 2, l) = token
  <2>1. ASSUME NEW i \in 1 .. l PROVE p[2 + i] = token[i]
    <3>1. 1 + i \in 1 .. 1 + l /\ 2 + i = 1 + (1 + i) /\ 2 + i \in 1 .. 2 + l
      OBVIOUS
    <3>2. x[1 + (1 + i)] = t[1 + i]
      BY <1>b, <3>1
    <3>3. p[2 + i] = x[2 + i]
      BY <1>g, <3>1
    <3>4. From(t, 1)[i] = t[1 + i]
      BY <1>6, <3>1 DEF From
    <3> QED BY <1>6, <3>1, <3>2, <3>3, <3>4
  <2>2. Agree(p, 2, token)
    BY <1>3, <2>1 DEF Agree
  <2>3. 2 + l <= Len(p) /\ 2 \in Nat
    BY <1>11
  <2>4. PICK two \in Nat : two = 2
    OBVIOUS
  <2>5. Agree(p, two, token) /\ two + l <= Len(p)
    BY <2>2, <2>3, <2>4
  <2>6. At(p, two, l) = token
    BY <1>3, <1>f, <2>5, SliceIs, Zenon
  <2> QED BY <2>4, <2>6
<1>14. /\ ~(Len(p) < 2 + z) /\ ~(l > MaxToken) /\ ~(Len(p) < 2 + l + z) /\ ~(e > MaxGraceful)
       /\ Len(p) = 2 + l + z + e
  BY <1>3, <1>5, <1>11, WidthFacts
<1>15. ASSUME NEW w, w # ver PROVE ParseControl(w, p) = Malformed
  BY <1>12, <1>15 DEF ParseControl
<1>16. ASSUME NEW w, w = ver PROVE ParseControl(w, p) = [type |-> CONTROL_SHUTDOWN, token |-> token, data |-> data]
  <2>1. /\ ~(Len(p) < 2 + SizeLen \/ p[1] # w)
        /\ ~(p[2] > MaxToken \/ Len(p) < (2 + p[2]) + SizeLen)
        /\ Get(At(p, 2 + p[2], SizeLen)) = e
        /\ ~(e > MaxGraceful \/ Len(p) # (2 + p[2]) + SizeLen + e)
        /\ At(p, 2, p[2]) = token
        /\ From(p, (2 + p[2]) + SizeLen) = data
    BY <1>4, <1>7, <1>11, <1>12, <1>13, <1>14, <1>16
  <2> QED BY <2>1 DEF ParseControl
<1>17. /\ p \in Seq(Byte)
       /\ Len(p) = 2 + Len(token) + SizeLen + Len(data)
  BY <1>3, <1>4, <1>5, <1>11, <1>f
<1> QED BY <1>15, <1>16, <1>17 DEF ReadsControl

\* The frames a connection may begin with.
LEMMA FirstParsed ==
  ASSUME NEW m \in FirstMessage, NEW ver \in Byte, FieldsFit(m)
  PROVE  /\ Payload(ver, m) \in Seq(Byte)
         /\ Len(Payload(ver, m)) <= MaxUnauth
         /\ \A w : Parse(w, m.type, Payload(ver, m)) = (IF w = ver THEN m ELSE Malformed)
         /\ m.type \in 1 .. 10
<1>0. PICK p : p = Payload(ver, m)
  BY Zenon
<1>1. CASE m \in [type : {HELLO}, seq : {0}, cols : Size, rows : Size, token : Seq(Byte)]
  <2>1. /\ m.type = HELLO /\ m.seq = 0 /\ m.cols \in Size /\ m.rows \in Size /\ m.token \in Seq(Byte)
        /\ m = [type |-> HELLO, seq |-> 0, cols |-> m.cols, rows |-> m.rows, token |-> m.token]
    BY <1>1
  <2>2. Len(m.token) <= MaxToken
    BY <2>1 DEF FieldsFit
  <2>3. p = <<ver>> \o Put(SizeLen, m.cols) \o Put(SizeLen, m.rows) \o TokenField(m.token)
    BY <1>0, <2>1 DEF Payload, HELLO, RECONNECT, RESIZE, ACK, STDIN, ERROR, STDOUT, REPLAY, WELCOME, CONTROL_SHUTDOWN
  <2>4. PICK nil \in Nat : nil = 0
    OBVIOUS
  <2>5. <<ver>> \o Put(nil, nil) = <<ver>>
    <3>1. PICK v : v = <<ver>>
      BY Zenon
    <3>2. v \in Seq(Byte)
      BY <3>1, Single
    <3>3. Put(nil, nil) = << >>
      BY <2>4 DEF Put
    <3>4. v \o << >> = v
      BY <3>2
    <3> QED BY <3>1, <3>3, <3>4
  <2>6. nil \in Unsigned(nil)
    BY <2>4, PowerFacts DEF Unsigned
  <2>a. p = <<ver>> \o Put(nil, nil) \o Put(SizeLen, m.cols) \o Put(SizeLen, m.rows) \o TokenField(m.token)
    BY <2>3, <2>5
  <2>b. PICK h : h = HELLO
    BY Zenon
  <2>c. p \in Seq(Byte) /\ ReadsIntro(p, nil, ver, h, nil, m.cols, m.rows, m.token)
    <3>1. m.cols \in Size /\ m.rows \in Size /\ m.token \in Seq(Byte)
      BY <2>1
    <3> QED BY <2>2, <2>6, <2>a, <3>1, IntroParsed, Zenon
  <2>7. /\ Len(p) = 2 + 0 + SizeLen + SizeLen + Len(m.token)
        /\ \A w : ParseIntro(HELLO, w, p, 0) = (IF w = ver THEN m ELSE Malformed)
    BY <2>1, <2>4, <2>b, <2>c DEF ReadsIntro
  <2>8. Len(p) <= MaxUnauth
    <3>1. Len(p) = 2 + 0 + SizeLen + SizeLen + Len(m.token)
      BY <2>7
    <3>2. m.token \in Seq(Byte)
      BY <2>1
    <3>3. PICK l \in Nat : l = Len(m.token)
      BY <3>2
    <3>4. 2 + 0 + SizeLen + SizeLen + l <= 1 + 1 + MaxToken + SizeLen + MaxGraceful
      <4>1. /\ SizeLen \in Nat /\ SeqLen \in Nat /\ MaxToken \in Nat /\ MaxGraceful \in Nat
            /\ SeqLen + SizeLen <= MaxGraceful
        BY WidthFacts
      <4>2. l <= MaxToken
        BY <2>2, <3>3
      <4> QED BY <4>1, <4>2
    <3> QED BY <3>1, <3>3, <3>4 DEF MaxUnauth
  <2>9. \A w : Parse(w, m.type, p) = ParseIntro(HELLO, w, p, 0)
    BY <2>1 DEF Parse, HELLO, RECONNECT, CONTROL_SHUTDOWN
  <2> QED BY <1>0, <2>1, <2>7, <2>8, <2>9, <2>c DEF HELLO
<1>2. CASE m \in [type : {RECONNECT}, seq : Position, cols : Size, rows : Size, token : Seq(Byte)]
  <2>1. /\ m.type = RECONNECT /\ m.seq \in Unsigned(SeqLen) /\ m.cols \in Size /\ m.rows \in Size
        /\ m.token \in Seq(Byte)
        /\ m = [type |-> RECONNECT, seq |-> m.seq, cols |-> m.cols, rows |-> m.rows, token |-> m.token]
    BY <1>2 DEF Position
  <2>2. Len(m.token) <= MaxToken
    BY <2>1 DEF FieldsFit
  <2>3. p = <<ver>> \o Put(SeqLen, m.seq) \o Put(SizeLen, m.cols) \o Put(SizeLen, m.rows) \o TokenField(m.token)
    BY <1>0, <2>1 DEF Payload, HELLO, RECONNECT, RESIZE, ACK, STDIN, ERROR, STDOUT, REPLAY, WELCOME, CONTROL_SHUTDOWN
  <2>b. PICK h : h = RECONNECT
    BY Zenon
  <2>c. p \in Seq(Byte) /\ ReadsIntro(p, SeqLen, ver, h, m.seq, m.cols, m.rows, m.token)
    <3>1. m.seq \in Unsigned(SeqLen) /\ m.cols \in Size /\ m.rows \in Size /\ m.token \in Seq(Byte)
      BY <2>1
    <3>2. SeqLen \in Nat
      BY WidthFacts
    <3> QED BY <2>2, <2>3, <3>1, <3>2, IntroParsed, Zenon
  <2>7. /\ Len(p) = 2 + SeqLen + SizeLen + SizeLen + Len(m.token)
        /\ \A w : ParseIntro(RECONNECT, w, p, SeqLen) = (IF w = ver THEN m ELSE Malformed)
    BY <2>1, <2>b, <2>c DEF ReadsIntro
  <2>8. Len(p) <= MaxUnauth
    <3>1. Len(p) = 2 + SeqLen + SizeLen + SizeLen + Len(m.token)
      BY <2>7
    <3>2. m.token \in Seq(Byte)
      BY <2>1
    <3>3. PICK l \in Nat : l = Len(m.token)
      BY <3>2
    <3>4. 2 + SeqLen + SizeLen + SizeLen + l <= 1 + 1 + MaxToken + SizeLen + MaxGraceful
      <4>1. /\ SizeLen \in Nat /\ SeqLen \in Nat /\ MaxToken \in Nat /\ MaxGraceful \in Nat
            /\ SeqLen + SizeLen <= MaxGraceful
        BY WidthFacts
      <4>2. l <= MaxToken
        BY <2>2, <3>3
      <4> QED BY <4>1, <4>2
    <3> QED BY <3>1, <3>3, <3>4 DEF MaxUnauth
  <2>9. \A w : Parse(w, m.type, p) = ParseIntro(RECONNECT, w, p, SeqLen)
    BY <2>1 DEF Parse, HELLO, RECONNECT, CONTROL_SHUTDOWN
  <2> QED BY <1>0, <2>1, <2>7, <2>8, <2>9, <2>c DEF RECONNECT
<1>3. CASE m \in [type : {CONTROL_SHUTDOWN}, token : Seq(Byte), data : Seq(Byte)]
  <2>1. /\ m.type = CONTROL_SHUTDOWN /\ m.token \in Seq(Byte) /\ m.data \in Seq(Byte)
        /\ m = [type |-> CONTROL_SHUTDOWN, token |-> m.token, data |-> m.data]
    BY <1>3
  <2>2. Len(m.token) <= MaxToken /\ Len(m.data) <= MaxGraceful
    BY <2>1 DEF FieldsFit
  <2>3. p = <<ver>> \o TokenField(m.token) \o Put(SizeLen, Len(m.data)) \o m.data
    BY <1>0, <2>1 DEF Payload, HELLO, RECONNECT, RESIZE, ACK, STDIN, ERROR, STDOUT, REPLAY, WELCOME,
                      CONTROL_SHUTDOWN
  <2>c. p \in Seq(Byte) /\ ReadsControl(p, ver, m.token, m.data)
    <3>1. m.token \in Seq(Byte) /\ m.data \in Seq(Byte)
      BY <2>1
    <3> QED BY <2>2, <2>3, <3>1, ControlParsed, Zenon
  <2>7. /\ Len(p) = 2 + Len(m.token) + SizeLen + Len(m.data)
        /\ \A w : ParseControl(w, p) = (IF w = ver THEN m ELSE Malformed)
    BY <2>1, <2>c DEF ReadsControl
  <2>8. Len(p) <= MaxUnauth
    <3>1. Len(p) = 2 + Len(m.token) + SizeLen + Len(m.data)
      BY <2>7
    <3>2. m.token \in Seq(Byte) /\ m.data \in Seq(Byte)
      BY <2>1
    <3>3. PICK l \in Nat, g \in Nat : l = Len(m.token) /\ g = Len(m.data)
      BY <3>2
    <3>4. SizeLen \in Nat /\ MaxToken \in Nat /\ MaxGraceful \in Nat
      BY WidthFacts
    <3>5. l <= MaxToken /\ g <= MaxGraceful
      BY <2>2, <3>3
    <3>6. 2 + l + SizeLen + g <= 1 + 1 + MaxToken + SizeLen + MaxGraceful
      BY <3>4, <3>5
    <3> QED BY <3>1, <3>3, <3>6 DEF MaxUnauth
  <2>9. \A w : Parse(w, m.type, p) = ParseControl(w, p)
    BY <2>1 DEF Parse, HELLO, RECONNECT, CONTROL_SHUTDOWN
  <2> QED BY <1>0, <2>1, <2>7, <2>8, <2>9, <2>c DEF CONTROL_SHUTDOWN
<1> QED BY <1>1, <1>2, <1>3 DEF FirstMessage

\* Two fields, of which the second is the rest.
IsPair(p, a, b, x, y) == Len(p) = x + y /\ At(p, 0, x) = a /\ At(p, x, y) = b /\ From(p, x) = b

\* The layout of the other messages.
LEMMA TwoFields ==
  ASSUME NEW a \in Seq(Byte), NEW b \in Seq(Byte), NEW x \in Nat, x = Len(a), NEW y \in Nat, y = Len(b),
         NEW p, p = a \o b
  PROVE  p \in Seq(Byte) /\ IsPair(p, a, b, x, y)
<1>1. p \in Seq(Byte) /\ Follows(p, a, b)
  BY FieldNext, Zenon
<1>2. Len(p) = x + y /\ At(p, x, y) = b /\ From(p, x) = b
  BY <1>1 DEF Follows
<1>3. At(p, 0, x) = a
  <2>1. Agree(p, 0, a)
    BY <1>1 DEF Follows, Agree
  <2>2. PICK nil \in Nat : nil = 0
    OBVIOUS
  <2>3. Agree(p, nil, a) /\ nil + x <= Len(p)
    BY <1>2, <2>1, <2>2
  <2>4. At(p, nil, x) = a
    BY <1>1, <2>3, SliceIs, Zenon
  <2> QED BY <2>2, <2>4
<1> QED BY <1>1, <1>2, <1>3 DEF IsPair

\* The frames that follow the first: no version is in them.
LEMMA LaterParsed ==
  ASSUME NEW m \in LaterMessage, NEW ver
  PROVE  /\ Payload(ver, m) \in Seq(Byte)
         /\ \A w : Parse(w, m.type, Payload(ver, m)) = m
         /\ m.type \in 1 .. 10
<1>0. PICK p : p = Payload(ver, m)
  BY Zenon
<1> USE DEF HELLO, RECONNECT, RESIZE, ACK, STDIN, ERROR, STDOUT, REPLAY, WELCOME, CONTROL_SHUTDOWN
<1>1. CASE m \in [type : {RESIZE}, cols : Size, rows : Size]
  <2>1. /\ m.type = RESIZE /\ m.cols \in Unsigned(SizeLen) /\ m.rows \in Unsigned(SizeLen)
        /\ m = [type |-> RESIZE, cols |-> m.cols, rows |-> m.rows]
    BY <1>1 DEF Size
  <2>2. PICK z \in Nat : z = SizeLen
    BY WidthFacts
  <2>3. PICK a \in Seq(Byte) : a = Put(SizeLen, m.cols) /\ Len(a) = z /\ Get(a) = m.cols
    BY <2>1, <2>2, Field
  <2>4. PICK b \in Seq(Byte) : b = Put(SizeLen, m.rows) /\ Len(b) = z /\ Get(b) = m.rows
    BY <2>1, <2>2, Field
  <2>5. p = a \o b
    BY <1>0, <2>1, <2>3, <2>4 DEF Payload
  <2>a. p \in Seq(Byte) /\ IsPair(p, a, b, z, z)
    <3>1. z = Len(a) /\ z = Len(b)
      BY <2>3, <2>4
    <3> QED BY <2>5, <3>1, TwoFields, Zenon
  <2>6. Len(p) = z + z /\ At(p, 0, z) = a /\ At(p, z, z) = b
    BY <2>a DEF IsPair
  <2>7. \A w : Parse(w, m.type, p) = ParseFixed(RESIZE, p)
    BY <2>1 DEF Parse
  <2>8. ParseFixed(RESIZE, p) = [type |-> RESIZE, cols |-> Get(At(p, 0, SizeLen)), rows |-> Get(At(p, SizeLen, SizeLen))]
    <3>1. Len(p) = 2 * SizeLen
      BY <2>2, <2>6
    <3> QED BY <3>1 DEF ParseFixed
  <2>9. ParseFixed(RESIZE, p) = m
    BY <2>1, <2>2, <2>3, <2>4, <2>6, <2>8
  <2> QED BY <1>0, <2>1, <2>7, <2>9, <2>a
<1>2. CASE m \in [type : {ACK}, seq : Position]
  <2>1. m.type = ACK /\ m.seq \in Unsigned(SeqLen) /\ m = [type |-> ACK, seq |-> m.seq]
    BY <1>2 DEF Position
  <2>2. p = Put(SeqLen, m.seq)
    BY <1>0, <2>1 DEF Payload
  <2>3. p \in Seq(Byte) /\ Len(p) = SeqLen /\ Get(p) = m.seq
    BY <2>1, <2>2, Field, WidthFacts
  <2>7. \A w : Parse(w, m.type, p) = ParseFixed(ACK, p)
    BY <2>1 DEF Parse
  <2>8. ParseFixed(ACK, p) = [type |-> ACK, seq |-> Get(p)]
    BY <2>3 DEF ParseFixed
  <2> QED BY <1>0, <2>1, <2>3, <2>7, <2>8
<1>3. CASE m \in [type : {STDIN, ERROR}, data : Seq(Byte)]
  <2>1. m.type \in {STDIN, ERROR} /\ m.data \in Seq(Byte) /\ m = [type |-> m.type, data |-> m.data]
    BY <1>3
  <2>2. p = m.data
    BY <1>0, <2>1 DEF Payload
  <2>7. \A w : Parse(w, m.type, p) = ParseFixed(m.type, p)
    BY <2>1 DEF Parse
  <2>8. ParseFixed(m.type, p) = [type |-> m.type, data |-> p]
    BY <2>1 DEF ParseFixed
  <2> QED BY <1>0, <2>1, <2>2, <2>7, <2>8
<1>4. CASE m \in [type : {STDOUT, REPLAY}, seq : Position, data : Seq(Byte)]
  <2>1. /\ m.type \in {STDOUT, REPLAY} /\ m.seq \in Unsigned(SeqLen) /\ m.data \in Seq(Byte)
        /\ m = [type |-> m.type, seq |-> m.seq, data |-> m.data]
    BY <1>4 DEF Position
  <2>2. PICK z \in Nat : z = SeqLen
    BY WidthFacts
  <2>3. PICK a \in Seq(Byte) : a = Put(SeqLen, m.seq) /\ Len(a) = z /\ Get(a) = m.seq
    BY <2>1, <2>2, Field
  <2>4. PICK b \in Seq(Byte) : b = m.data
    BY <2>1
  <2>5. p = a \o b
    BY <1>0, <2>1, <2>3, <2>4 DEF Payload
  <2>9. PICK n \in Nat : n = Len(b)
    OBVIOUS
  <2>a. p \in Seq(Byte) /\ IsPair(p, a, b, z, n)
    <3>1. z = Len(a)
      BY <2>3
    <3> QED BY <2>5, <2>9, <3>1, TwoFields, Zenon
  <2>6. Len(p) = z + n /\ At(p, 0, z) = a /\ From(p, z) = b
    BY <2>a DEF IsPair
  <2>7. \A w : Parse(w, m.type, p) = ParseFixed(m.type, p)
    BY <2>1 DEF Parse
  <2>8. ParseFixed(m.type, p) = [type |-> m.type, seq |-> Get(At(p, 0, SeqLen)), data |-> From(p, SeqLen)]
    <3>1. Len(p) >= SeqLen
      BY <2>2, <2>6
    <3> QED BY <2>1, <3>1 DEF ParseFixed
  <2> QED BY <1>0, <2>1, <2>2, <2>3, <2>4, <2>6, <2>7, <2>8, <2>a
<1>5. CASE m \in [type : {WELCOME}, seq : Position, next_seq : Position]
  <2>1. /\ m.type = WELCOME /\ m.seq \in Unsigned(SeqLen) /\ m.next_seq \in Unsigned(SeqLen)
        /\ m = [type |-> WELCOME, seq |-> m.seq, next_seq |-> m.next_seq]
    BY <1>5 DEF Position
  <2>2. PICK z \in Nat : z = SeqLen
    BY WidthFacts
  <2>3. PICK a \in Seq(Byte) : a = Put(SeqLen, m.seq) /\ Len(a) = z /\ Get(a) = m.seq
    BY <2>1, <2>2, Field
  <2>4. PICK b \in Seq(Byte) : b = Put(SeqLen, m.next_seq) /\ Len(b) = z /\ Get(b) = m.next_seq
    BY <2>1, <2>2, Field
  <2>5. p = a \o b
    BY <1>0, <2>1, <2>3, <2>4 DEF Payload
  <2>a. p \in Seq(Byte) /\ IsPair(p, a, b, z, z)
    <3>1. z = Len(a) /\ z = Len(b)
      BY <2>3, <2>4
    <3> QED BY <2>5, <3>1, TwoFields, Zenon
  <2>6. Len(p) = z + z /\ At(p, 0, z) = a /\ At(p, z, z) = b
    BY <2>a DEF IsPair
  <2>7. \A w : Parse(w, m.type, p) = ParseFixed(WELCOME, p)
    BY <2>1 DEF Parse
  <2>8. ParseFixed(WELCOME, p) = [type |-> WELCOME, seq |-> Get(At(p, 0, SeqLen)), next_seq |-> Get(At(p, SeqLen, SeqLen))]
    <3>1. Len(p) = 2 * SeqLen
      BY <2>2, <2>6
    <3> QED BY <3>1 DEF ParseFixed
  <2>9. ParseFixed(WELCOME, p) = m
    BY <2>1, <2>2, <2>3, <2>4, <2>6, <2>8
  <2> QED BY <1>0, <2>1, <2>7, <2>9, <2>a
<1> QED BY <1>1, <1>2, <1>3, <1>4, <1>5 DEF LaterMessage

\* Layouts and limits agree: a message that opty_send_* let through is what
\* opty_parse_* make of its frame.  A first message fits what the server takes
\* before it knows the client, and only it is turned away, by another version.
THEOREM RoundTrip ==
  ASSUME NEW m \in FirstMessage \cup LaterMessage, NEW ver \in Byte, NEW w, Sendable(ver, m)
  PROVE  /\ Payload(ver, m) \in Seq(Byte)
         /\ Parse(w, m.type, Payload(ver, m)) =
              (IF m \in LaterMessage \/ w = ver THEN m ELSE Malformed)
         /\ m # Malformed
         /\ m.type \in 1 .. 10
         /\ m \in FirstMessage => Len(Payload(ver, m)) <= MaxUnauth
<1>0. m.type \in 1 .. 10 => m # Malformed
  BY DEF Malformed
<1>1. CASE m \in LaterMessage
  <2>1. m \notin FirstMessage
    BY <1>1 DEF LaterMessage, FirstMessage, HELLO, RECONNECT, RESIZE, ACK, STDIN, ERROR, STDOUT, REPLAY,
                WELCOME, CONTROL_SHUTDOWN
  <2>2. /\ Payload(ver, m) \in Seq(Byte)
        /\ Parse(w, m.type, Payload(ver, m)) = m
        /\ m.type \in 1 .. 10
    BY <1>1, LaterParsed
  <2> QED BY <1>0, <1>1, <2>1, <2>2
<1>2. CASE m \notin LaterMessage
  <2>1. FieldsFit(m)
    BY DEF Sendable
  <2> QED BY <1>0, <1>2, <2>1, FirstParsed
<1> QED BY <1>1, <1>2

-----------------------------------------------------------------------------
(***************************************************************************)
(* A frame, and a stream of frames.                                        *)
(***************************************************************************)

\* Bytes from + 1 .. to of S are the frame of type ty with payload p.
IsFrame(S, from, to, ty, p) ==
    /\ to = from + PrefixLen + 1 + Len(p)
    /\ \A i \in 1 .. PrefixLen : S[from + i] = Put(PrefixLen, Len(p) + 1)[i]
    /\ S[from + PrefixLen + 1] = ty
    /\ \A i \in 1 .. Len(p) : S[from + PrefixLen + 1 + i] = p[i]

\* Every length of a frame fits its prefix.
LEMMA PrefixFacts == PrefixLen \in Nat /\ PrefixLen > 0 /\ MaxFrame < Power[PrefixLen]
<1>1. PrefixLen \in Nat /\ MaxFrame < Power[PrefixLen] /\ MaxFrame \in Nat
  BY PrefixAssumption, WidthAssumption
<1>2. MaxFrame >= 2
  BY WidthAssumption
<1>3. Power[0] = 1
  BY PowerFacts
<1> QED BY <1>1, <1>2, <1>3

\* A message is one of the code's, and is not None.
LEMMA MessageFacts ==
  ASSUME NEW m \in Message
  PROVE  m \in FirstMessage \cup LaterMessage /\ (m \in Intro => m \in FirstMessage) /\ m # None
BY MessageAssumption, NoneAssumption DEF Message

\* The iovec as a sequence of two or three parts.
LEMMA Three ==
  ASSUME NEW X, NEW a \in X, NEW b \in X, NEW c \in X
  PROVE  /\ <<a, b>> \o << >> = <<a, b>>
         /\ <<a, b>> \o <<c>> = <<a, b, c>>
         /\ <<a, b>> \in Seq(X) /\ <<a, b, c>> \in Seq(X)
<1>1. PICK s : s = <<a, b>>
  BY Zenon
<1>2. s \in Seq(X) /\ Len(s) = 2 /\ s[1] = a /\ s[2] = b
  BY <1>1
<1>3. PICK t : t = <<c>>
  BY Zenon
<1>4. t \in Seq(X) /\ Len(t) = 1 /\ t[1] = c
  BY <1>3, Single
<1>5. PICK u : u = <<a, b, c>>
  BY Zenon
<1>6. u \in Seq(X) /\ Len(u) = 3 /\ u[1] = a /\ u[2] = b /\ u[3] = c
  BY <1>5
<1>7. s \o << >> = s
  BY <1>2
<1>8. PICK j : j = s \o t
  BY Zenon
<1>9. j \in Seq(X) /\ IsJoin(j, s, t)
  <2>1. s \in Seq(X) /\ t \in Seq(X)
    BY <1>2, <1>4
  <2> QED BY <1>8, <2>1, JoinOf, Zenon
<1>10. Len(j) = 3 /\ j[1] = a /\ j[2] = b /\ j[3] = c
  <2>1. Len(j) = 3 /\ (\A i \in 1 .. 2 : j[i] = s[i]) /\ (\A i \in 1 .. 1 : j[2 + i] = t[i])
    BY <1>2, <1>4, <1>9 DEF IsJoin
  <2>2. 1 \in 1 .. 2 /\ 2 \in 1 .. 2 /\ 1 \in 1 .. 1 /\ 2 + 1 = 3
    OBVIOUS
  <2>3. j[2 + 1] = t[1]
    BY <2>1, <2>2
  <2> QED BY <1>2, <1>4, <2>1, <2>2, <2>3
<1>11. \A i \in 1 .. 3 : j[i] = u[i]
  <2>1. \A i \in 1 .. 3 : i = 1 \/ i = 2 \/ i = 3
    OBVIOUS
  <2> QED BY <1>6, <1>10, <2>1
<1>12. j = u
  BY <1>6, <1>9, <1>10, <1>11, SameSeq
<1> QED BY <1>1, <1>2, <1>3, <1>5, <1>6, <1>7, <1>8, <1>12

\* The parts that opty_send_frame gives to writev() are the frame.
LEMMA IovFacts ==
  ASSUME NEW m \in Message, version \in Byte, Sendable(version, m)
  PROVE  /\ Iov(m) \in Seq(Seq(Byte)) /\ Solid(Iov(m)) /\ Iov(m) # << >>
         /\ Flat(Iov(m)) \in Seq(Byte) /\ Total(Iov(m)) = Len(Flat(Iov(m)))
         /\ IsFrame(Flat(Iov(m)), 0, Len(Flat(Iov(m))), m.type, Payload(version, m))
<1>1. PICK p : p = Payload(version, m)
  BY Zenon
<1>2. p \in Seq(Byte) /\ m.type \in Byte
  <2>1. m \in FirstMessage \cup LaterMessage
    BY MessageFacts
  <2>2. Payload(version, m) \in Seq(Byte) /\ m.type \in 1 .. 10
    BY <2>1, RoundTrip
  <2>3. m.type \in 0 .. 10
    BY <2>2
  <2> QED BY <1>1, <2>2, <2>3, ByteFacts
<1>3. PICK l \in Nat : l = Len(p)
  BY <1>2
<1>4. PICK z \in Nat : z = PrefixLen /\ z > 0
  BY PrefixFacts
<1>5. PICK a : a = Put(PrefixLen, Len(p) + 1)
  BY Zenon
<1>6. a \in Seq(Byte) /\ Len(a) = z
  <2>1. l + 1 \in Nat
    OBVIOUS
  <2> QED BY <1>3, <1>4, <1>5, <2>1, PutFacts
<1>7. PICK b : b = <<m.type>>
  BY Zenon
<1>8. b \in Seq(Byte) /\ Len(b) = 1 /\ b[1] = m.type
  BY <1>2, <1>7, Single
<1>9. PICK v : v = Iov(m)
  BY Zenon
<1>10. v = <<a, b>> \o (IF p = << >> THEN << >> ELSE <<p>>)
  BY <1>1, <1>5, <1>7, <1>9 DEF Iov
<1>11. v = IF p = << >> THEN <<a, b>> ELSE <<a, b, p>>
  <2>1. <<a, b>> \o << >> = <<a, b>> /\ <<a, b>> \o <<p>> = <<a, b, p>>
    <3>1. a \in Seq(Byte) /\ b \in Seq(Byte) /\ p \in Seq(Byte)
      BY <1>2, <1>6, <1>8
    <3> QED BY <3>1, Three
  <2> QED BY <1>10, <2>1
<1>12. a # << >> /\ b # << >>
  <2>1. Len(<< >>) = 0
    OBVIOUS
  <2>2. Len(a) # 0 /\ Len(b) # 0
    BY <1>4, <1>6, <1>8
  <2> QED BY <2>1, <2>2, Zenon
<1>13. v \in Seq(Seq(Byte)) /\ Solid(v) /\ v # << >>
  <2>1. CASE p = << >>
    BY <1>6, <1>8, <1>11, <1>12, <2>1 DEF Solid
  <2>2. CASE p # << >>
    BY <1>2, <1>6, <1>8, <1>11, <1>12, <2>2 DEF Solid
  <2> QED BY <2>1, <2>2
<1>14. PICK c : c = a \o b
  BY Zenon
<1>15. c \in Seq(Byte) /\ Follows(c, a, b)
  <2>1. a \in Seq(Byte) /\ b \in Seq(Byte)
    BY <1>6, <1>8
  <2> QED BY <1>14, <2>1, FieldNext, Zenon
<1>16. PICK e : e = c \o p
  BY Zenon
<1>17. e \in Seq(Byte) /\ Follows(e, c, p)
  <2>1. p \in Seq(Byte)
    BY <1>2
  <2> QED BY <1>15, <1>16, <2>1, FieldNext, Zenon
<1>18. Flat(v) = e
  <2>1. PICK f \in [0 .. Len(v) -> Seq(Byte)] :
            /\ f[0] = << >>
            /\ \A i \in 1 .. Len(v) : f[i] = f[i - 1] \o v[i]
            /\ Flat(v) = f[Len(v)]
    BY <1>13, FlatRun
  <2>2. << >> \o a = a
    BY <1>6
  <2>3. CASE p = << >>
    <3>1. Len(v) = 2 /\ v[1] = a /\ v[2] = b
      BY <1>11, <2>3
    <3>2. f[1] = a
      <4>1. 1 \in 1 .. Len(v) /\ 1 - 1 = 0
        BY <3>1
      <4>2. f[1] = f[1 - 1] \o v[1]
        BY <2>1, <4>1
      <4> QED BY <2>1, <2>2, <3>1, <4>1, <4>2
    <3>3. f[2] = a \o b
      <4>1. 2 \in 1 .. Len(v) /\ 2 - 1 = 1
        BY <3>1
      <4>2. f[2] = f[2 - 1] \o v[2]
        BY <2>1, <4>1
      <4> QED BY <3>1, <3>2, <4>1, <4>2
    <3>4. e = c
      BY <1>15, <1>16, <2>3
    <3> QED BY <1>14, <2>1, <3>1, <3>3, <3>4
  <2>4. CASE p # << >>
    <3>1. Len(v) = 3 /\ v[1] = a /\ v[2] = b /\ v[3] = p
      BY <1>11, <2>4
    <3>2. f[1] = a
      <4>1. 1 \in 1 .. Len(v) /\ 1 - 1 = 0
        BY <3>1
      <4>2. f[1] = f[1 - 1] \o v[1]
        BY <2>1, <4>1
      <4> QED BY <2>1, <2>2, <3>1, <4>1, <4>2
    <3>3. f[2] = a \o b
      <4>1. 2 \in 1 .. Len(v) /\ 2 - 1 = 1
        BY <3>1
      <4>2. f[2] = f[2 - 1] \o v[2]
        BY <2>1, <4>1
      <4> QED BY <3>1, <3>2, <4>1, <4>2
    <3>4. f[3] = c \o p
      <4>1. 3 \in 1 .. Len(v) /\ 3 - 1 = 2
        BY <3>1
      <4>2. f[3] = f[3 - 1] \o v[3]
        BY <2>1, <4>1
      <4> QED BY <1>14, <3>1, <3>3, <4>1, <4>2
    <3> QED BY <1>16, <2>1, <3>1, <3>4
  <2> QED BY <2>3, <2>4
<1>19. Total(v) = Len(e)
  BY <1>13, <1>18, FlatFacts
<1>20. Len(c) = z + 1 /\ Len(e) = z + 1 + l
  BY <1>3, <1>6, <1>8, <1>15, <1>17 DEF Follows
<1>21. \A i \in 1 .. z + 1 : e[i] = c[i]
  BY <1>17, <1>20 DEF Follows
<1>22. \A i \in 1 .. z : e[0 + i] = a[i]
  <2>1. \A i \in 1 .. z : c[i] = a[i]
    BY <1>6, <1>15 DEF Follows
  <2>2. \A i \in 1 .. z : i \in 1 .. z + 1 /\ 0 + i = i
    OBVIOUS
  <2> QED BY <1>21, <2>1, <2>2
<1>23. e[0 + z + 1] = m.type
  <2>1. c[z + 1] = b[1]
    <3>1. 1 \in 1 .. Len(b)
      BY <1>8
    <3> QED BY <1>6, <1>15, <3>1 DEF Follows
  <2>2. z + 1 \in 1 .. z + 1 /\ 0 + z + 1 = z + 1
    OBVIOUS
  <2> QED BY <1>8, <1>21, <2>1, <2>2
<1>24. \A i \in 1 .. l : e[0 + z + 1 + i] = p[i]
  <2>1. \A i \in 1 .. l : e[(z + 1) + i] = p[i]
    BY <1>3, <1>17, <1>20 DEF Follows
  <2>2. \A i \in 1 .. l : 0 + z + 1 + i = (z + 1) + i
    OBVIOUS
  <2> QED BY <2>1, <2>2
<1>25. IsFrame(e, 0, Len(e), m.type, p)
  <2>1. Len(e) = 0 + z + 1 + l
    BY <1>20
  <2> QED BY <1>3, <1>4, <1>5, <1>22, <1>23, <1>24, <2>1 DEF IsFrame
<1> QED BY <1>1, <1>9, <1>13, <1>17, <1>18, <1>19, <1>25

\* S is the frames of the messages fs, of which number k ends at b[k].
IsStream(ver, fs, b, S) ==
    /\ b[0] = 0
    /\ b[Len(fs)] = Len(S)
    /\ \A j, k \in 0 .. Len(fs) : j < k => b[j] < b[k]
    /\ \A k \in 1 .. Len(fs) : Sendable(ver, fs[k])
    /\ \A k \in 1 .. Len(fs) : IsFrame(S, b[k - 1], b[k], fs[k].type, Payload(ver, fs[k]))

\* A longer stream holds the same frame.
LEMMA FrameStays ==
  ASSUME NEW S \in Seq(Byte), NEW T, \A i \in 1 .. Len(S) : T[i] = S[i],
         NEW from \in Nat, NEW to \in Nat, to <= Len(S), NEW ty, NEW p \in Seq(Byte),
         IsFrame(S, from, to, ty, p)
  PROVE  IsFrame(T, from, to, ty, p)
<1>1. PICK z \in Nat : z = PrefixLen
  BY PrefixFacts
<1>2. PICK l \in Nat : l = Len(p)
  OBVIOUS
<1>3. to = from + z + 1 + l
  BY <1>1, <1>2 DEF IsFrame
<1>4. /\ \A i \in 1 .. z : from + i \in 1 .. Len(S)
      /\ from + z + 1 \in 1 .. Len(S)
      /\ \A i \in 1 .. l : from + z + 1 + i \in 1 .. Len(S)
  BY <1>3
<1>5. \A i \in 1 .. z : T[from + i] = Put(PrefixLen, Len(p) + 1)[i]
  BY <1>1, <1>4 DEF IsFrame
<1>6. T[from + z + 1] = ty
  BY <1>1, <1>4 DEF IsFrame
<1>7. \A i \in 1 .. l : T[from + z + 1 + i] = p[i]
  BY <1>1, <1>2, <1>4 DEF IsFrame
<1> QED BY <1>1, <1>2, <1>3, <1>5, <1>6, <1>7 DEF IsFrame

\* A frame at the end of the stream.
LEMMA FrameMoves ==
  ASSUME NEW E \in Seq(Byte), NEW T, NEW at \in Nat, \A i \in 1 .. Len(E) : T[at + i] = E[i],
         NEW ty, NEW p \in Seq(Byte), IsFrame(E, 0, Len(E), ty, p)
  PROVE  IsFrame(T, at, at + Len(E), ty, p)
<1>1. PICK z \in Nat : z = PrefixLen
  BY PrefixFacts
<1>2. PICK l \in Nat : l = Len(p)
  OBVIOUS
<1>3. Len(E) = z + 1 + l
  BY <1>1, <1>2 DEF IsFrame
<1>4. /\ \A i \in 1 .. z : i \in 1 .. Len(E) /\ 0 + i = i
      /\ z + 1 \in 1 .. Len(E) /\ at + z + 1 = at + (z + 1) /\ 0 + z + 1 = z + 1
      /\ \A i \in 1 .. l : z + 1 + i \in 1 .. Len(E) /\ at + z + 1 + i = at + (z + 1 + i)
                           /\ 0 + z + 1 + i = z + 1 + i
  BY <1>3
<1>5. \A i \in 1 .. z : T[at + i] = Put(PrefixLen, Len(p) + 1)[i]
  <2>1. \A i \in 1 .. z : E[0 + i] = Put(PrefixLen, Len(p) + 1)[i]
    BY <1>1 DEF IsFrame
  <2> QED BY <1>4, <2>1
<1>6. T[at + z + 1] = ty
  <2>1. E[0 + z + 1] = ty
    BY <1>1 DEF IsFrame
  <2>2. T[at + (z + 1)] = E[z + 1]
    BY <1>4
  <2> QED BY <1>4, <2>1, <2>2
<1>7. \A i \in 1 .. l : T[at + z + 1 + i] = p[i]
  <2>1. \A i \in 1 .. l : E[0 + z + 1 + i] = p[i]
    BY <1>1, <1>2 DEF IsFrame
  <2>2. \A i \in 1 .. l : T[at + (z + 1 + i)] = E[z + 1 + i]
    BY <1>4
  <2> QED BY <1>4, <2>1, <2>2
<1>8. at + Len(E) = at + z + 1 + l
  BY <1>3
<1> QED BY <1>1, <1>2, <1>5, <1>6, <1>7, <1>8 DEF IsFrame

\* Before anything is sent.
LEMMA StreamEmpty ==
  ASSUME NEW ver
  PROVE  \E b \in [0 .. 0 -> Nat] : IsStream(ver, << >>, b, << >>)
<1>1. PICK b : b = [k \in 0 .. 0 |-> 0]
  BY Zenon
<1>2. b \in [0 .. 0 -> Nat] /\ b[0] = 0
  BY <1>1
<1>3. IsStream(ver, << >>, b, << >>)
  BY <1>2 DEF IsStream
<1> QED BY <1>2, <1>3

\* One more message, as SendLock adds one.
Longer(fs, b, S, d, T) ==
    /\ Len(T) >= Len(S)
    /\ \A i \in 1 .. Len(S) : T[i] = S[i]
    /\ \A k \in 0 .. Len(fs) : d[k] = b[k]

\* One more frame is appended.
LEMMA StreamExtends ==
  ASSUME NEW ver \in Byte, NEW fs \in Seq(Message), NEW b \in [0 .. Len(fs) -> Nat], NEW S \in Seq(Byte),
         IsStream(ver, fs, b, S), NEW m \in Message, Sendable(ver, m),
         NEW E \in Seq(Byte), IsFrame(E, 0, Len(E), m.type, Payload(ver, m)),
         NEW hs, hs = Append(fs, m), NEW T, T = S \o E
  PROVE  \E d \in [0 .. Len(hs) -> Nat] : IsStream(ver, hs, d, T) /\ Longer(fs, b, S, d, T)
<1>1. PICK n \in Nat : n = Len(fs)
  OBVIOUS
<1>2. hs \in Seq(Message) /\ Len(hs) = n + 1 /\ hs[n + 1] = m /\ \A k \in 1 .. n : hs[k] = fs[k]
  BY <1>1
<1>3. T \in Seq(Byte) /\ IsJoin(T, S, E)
  BY JoinOf, Zenon
<1>4. PICK s \in Nat : s = Len(S)
  OBVIOUS
<1>5. PICK e \in Nat : e = Len(E) /\ e > 0
  <2>1. PICK p : p = Payload(ver, m)
    BY Zenon
  <2>2. p \in Seq(Byte)
    <3>1. m \in FirstMessage \cup LaterMessage
      BY MessageFacts
    <3> QED BY <2>1, <3>1, RoundTrip
  <2>3. Len(E) = 0 + PrefixLen + 1 + Len(p)
    BY <2>1 DEF IsFrame
  <2>4. Len(E) \in Nat /\ Len(E) > 0
    BY <2>2, <2>3, PrefixFacts
  <2> QED BY <2>4
<1>6. /\ Len(T) = s + e
      /\ \A i \in 1 .. s : T[i] = S[i]
      /\ \A i \in 1 .. e : T[s + i] = E[i]
  BY <1>3, <1>4, <1>5 DEF IsJoin
<1>7. PICK d : d = [k \in 0 .. n + 1 |-> IF k = n + 1 THEN s + e ELSE b[k]]
  BY Zenon
<1>8. /\ d \in [0 .. n + 1 -> Nat]
      /\ d[n + 1] = s + e
      /\ \A k \in 0 .. n : d[k] = b[k]
  BY <1>1, <1>7
<1>9. b[n] = s /\ b[0] = 0 /\ \A j, k \in 0 .. n : j < k => b[j] < b[k]
  BY <1>1, <1>4 DEF IsStream
<1>10. d[0] = 0 /\ d[Len(hs)] = Len(T)
  BY <1>2, <1>6, <1>8, <1>9
<1>11. ASSUME NEW j \in 0 .. n + 1, NEW k \in 0 .. n + 1, j < k PROVE d[j] < d[k]
  <2>1. CASE k = n + 1
    <3>1. j \in 0 .. n /\ n \in 0 .. n
      BY <1>11, <2>1
    <3>2. PICK x \in Nat : x = b[j]
      BY <1>1, <3>1
    <3>3. x <= s
      <4>1. CASE j = n
        BY <1>9, <3>2, <4>1
      <4>2. CASE j # n
        <5>1. j < n
          BY <3>1, <4>2
        <5>2. b[j] < b[n]
          BY <1>9, <3>1, <5>1
        <5> QED BY <1>9, <3>2, <5>2
      <4> QED BY <4>1, <4>2
    <3> QED BY <1>5, <1>8, <2>1, <3>1, <3>2, <3>3
  <2>2. CASE k # n + 1
    <3>1. j \in 0 .. n /\ k \in 0 .. n
      BY <1>11, <2>2
    <3> QED BY <1>8, <1>9, <1>11, <3>1
  <2> QED BY <2>1, <2>2
<1>12. ASSUME NEW k \in 1 .. n + 1
       PROVE  Sendable(ver, hs[k]) /\ IsFrame(T, d[k - 1], d[k], hs[k].type, Payload(ver, hs[k]))
  <2>1. CASE k = n + 1
    <3>1. k - 1 = n /\ n \in 0 .. n
      BY <2>1
    <3>2. d[k - 1] = s /\ d[k] = s + e /\ hs[k] = m
      BY <1>2, <1>8, <1>9, <2>1, <3>1
    <3>3. PICK p : p = Payload(ver, m)
      BY Zenon
    <3>4. p \in Seq(Byte)
      <4>1. m \in FirstMessage \cup LaterMessage
        BY MessageFacts
      <4> QED BY <3>3, <4>1, RoundTrip
    <3>5. IsFrame(T, s, s + Len(E), m.type, p)
      <4>1. \A i \in 1 .. Len(E) : T[s + i] = E[i]
        BY <1>5, <1>6
      <4>2. IsFrame(E, 0, Len(E), m.type, p)
        BY <3>3
      <4> QED BY <3>4, <4>1, <4>2, FrameMoves
    <3> QED BY <1>5, <3>2, <3>3, <3>5
  <2>2. CASE k # n + 1
    <3>1. k \in 1 .. n /\ k - 1 \in 0 .. n /\ k \in 0 .. n /\ n \in 0 .. n
      BY <2>2
    <3>2. d[k - 1] = b[k - 1] /\ d[k] = b[k] /\ hs[k] = fs[k]
      BY <1>2, <1>8, <3>1
    <3>3. PICK x \in Nat : x = b[k - 1]
      BY <1>1, <3>1
    <3>4. PICK y \in Nat : y = b[k]
      BY <1>1, <3>1
    <3>5. y <= Len(S)
      <4>1. CASE k = n
        BY <1>4, <1>9, <3>4, <4>1
      <4>2. CASE k # n
        <5>1. k < n
          BY <3>1, <4>2
        <5>2. b[k] < b[n]
          BY <1>9, <3>1, <5>1
        <5> QED BY <1>4, <1>9, <3>4, <5>2
      <4> QED BY <4>1, <4>2
    <3>6. PICK f \in Message : f = fs[k]
      BY <1>1, <3>1, Element
    <3>7. Sendable(ver, f) /\ IsFrame(S, x, y, f.type, Payload(ver, f))
      BY <1>1, <3>1, <3>3, <3>4, <3>6 DEF IsStream
    <3>8. PICK p : p = Payload(ver, f)
      BY Zenon
    <3>9. p \in Seq(Byte)
      <4>1. f \in FirstMessage \cup LaterMessage
        BY MessageFacts
      <4> QED BY <3>7, <3>8, <4>1, RoundTrip
    <3>10. IsFrame(T, x, y, f.type, p)
      <4>1. \A i \in 1 .. Len(S) : T[i] = S[i]
        BY <1>4, <1>6
      <4>2. IsFrame(S, x, y, f.type, p)
        BY <3>7, <3>8
      <4> QED BY <3>5, <3>9, <4>1, <4>2, FrameStays
    <3> QED BY <3>2, <3>3, <3>4, <3>6, <3>7, <3>8, <3>10
  <2> QED BY <2>1, <2>2
<1>13. IsStream(ver, hs, d, T)
  BY <1>2, <1>10, <1>11, <1>12 DEF IsStream
<1>14. Longer(fs, b, S, d, T)
  BY <1>1, <1>4, <1>5, <1>6, <1>8 DEF Longer
<1> QED BY <1>2, <1>8, <1>13, <1>14

-----------------------------------------------------------------------------
(***************************************************************************)
(* The inductive invariant.  The bytes of a connection are a stream S of   *)
(* whole frames, of the messages fs: those whose send has succeeded and,   *)
(* while a frame is being written, the one it carries.  The receiver has   *)
(* read S up to r, the senders have written it up to w, and the socket     *)
(* holds what is between.                                                  *)
(***************************************************************************)

\* The sending threads: one at a time is in writev(), the owner of write_mu.
SendType ==
    /\ version \in {OPTY_VERSION, OPTY_VERSION + 1}
    /\ iov \in [Thread -> Seq(Seq(Byte))]
    /\ \A t \in Thread : Solid(iov[t])
    /\ msg \in [Thread -> Message \cup {None}]
    /\ \A t \in Thread : msg[t] # None => Sendable(version, msg[t])
    /\ write_mu \in Thread \cup {None}
    /\ \A t \in Thread : iov[t] # << >> <=> write_mu = t
    /\ \A t \in Thread : write_mu = t => msg[t] # None
    /\ sent \in Seq(Message)
    /\ begun \in Nat

\* The connection: a receiver that has left has closed it.
ConnType ==
    /\ conn \in {"open", "closed", "reset"}
    /\ cut => conn # "open"
    /\ ended # "open" => conn = "reset"
    /\ conn = "reset" /\ ended = "open" => chan = << >>

\* The receiver.
RecvType ==
    /\ chan \in Seq(Byte)
    /\ buf \in Seq(Byte)
    /\ got \in Seq(Message)
    /\ want \in {"prefix", "type", "payload"}

\* The client sends one message at a time and its intro first.
IntroFirst ==
    sender = "client" /\ conn = "open" =>
        /\ \A t, u \in Thread : msg[t] # None /\ msg[u] # None => t = u
        /\ begun = 0 => sent = << >> /\ \A t \in Thread : msg[t] = None
        /\ sent = << >> /\ begun # 0 => \E t \in Thread : msg[t] # None
        /\ sent = << >> => \A t \in Thread : msg[t] \in Intro \cup {None}

\* How much of the current frame is read.
Pos == IF want = "prefix" THEN Len(buf)
       ELSE IF want = "type" THEN PrefixLen
       ELSE PrefixLen + 1 + Len(buf)

\* The first frame to the server is an intro.
Starts(fs) == sender = "client" /\ Len(fs) > 0 => fs[1] \in Intro

\* Of the bytes S, r are read, and those up to w are written: the socket has
\* what is between.
Carries(S, r, w) ==
    /\ w <= Len(S)
    /\ r + Len(chan) = w
    /\ \A i \in 1 .. Len(chan) : chan[i] = S[r + i]

\* The receiver has the first messages of fs, and of the next frame what lies
\* between its start and r.
Reads(fs, b, S, r) ==
    /\ Len(got) <= Len(fs)
    /\ \A i \in 1 .. Len(got) : got[i] = fs[i]
    /\ r = b[Len(got)] + Pos
    /\ want = "prefix" => /\ Len(buf) < PrefixLen
                          /\ \A i \in 1 .. Len(buf) : buf[i] = S[b[Len(got)] + i]
    /\ want # "prefix" => len = Len(Payload(version, fs[Len(got) + 1]))
    /\ want = "type" => buf = << >>
    /\ want = "payload" => /\ type = fs[Len(got) + 1].type
                           /\ Len(buf) < len
                           /\ \A i \in 1 .. Len(buf) : buf[i] = S[b[Len(got)] + PrefixLen + 1 + i]

\* The thread t is writing: iov[t] is what is left of the last frame.
Holds(t, fs, S, w) ==
    /\ fs = Append(sent, msg[t])
    /\ w + Total(iov[t]) = Len(S)
    /\ \A i \in 1 .. Total(iov[t]) : Flat(iov[t])[i] = S[w + i]

\* The senders have written the frames of sent, and perhaps a part of one more.
Writes(fs, b, S, w) ==
    /\ Len(sent) <= Len(fs) /\ Len(fs) <= Len(sent) + 1
    /\ \A i \in 1 .. Len(sent) : sent[i] = fs[i]
    /\ b[Len(sent)] <= w
    /\ Len(sent) < Len(fs) => w < Len(S)
    /\ Half <=> b[Len(sent)] < w
    /\ conn = "open" => /\ write_mu = None => fs = sent
                        /\ \A t \in Thread : write_mu = t => Holds(t, fs, S, w)

\* fs are the messages written or being written, S is the bytes of their frames,
\* which end at the offsets b.
Flow(fs, b, S, r, w) ==
    /\ IsStream(version, fs, b, S)
    /\ Starts(fs)
    /\ Carries(S, r, w)
    /\ Reads(fs, b, S, r)
    /\ Writes(fs, b, S, w)

\* After a reset nothing more is read.
Stream == conn # "reset" =>
    \E fs \in Seq(Message) : \E b \in [0 .. Len(fs) -> Nat] : \E S \in Seq(Byte) :
        \E r, w \in Nat : Flow(fs, b, S, r, w)

\* The inductive invariant.
WireInv == SendType /\ ConnType /\ RecvType /\ IntroFirst /\ Stream /\ NeverRefused

\* A version is a byte.
LEMMA VersionFacts == SendType => version \in Byte
<1>1. SendType => version = 1 \/ version = 2
  BY DEF SendType, OPTY_VERSION
<1>2. 1 \in 0 .. 10 /\ 2 \in 0 .. 10
  OBVIOUS
<1> QED BY <1>1, <1>2, ByteFacts

\* The invariant holds when the connection is new.
LEMMA WireInit == Init => WireInv
<1> SUFFICES ASSUME Init PROVE WireInv
  OBVIOUS
<1>1. SendType
  <2>1. << >> \in Seq(Seq(Byte)) /\ Solid(<< >>) /\ << >> \in Seq(Message)
    BY DEF Solid
  <2>2. /\ iov \in [Thread -> Seq(Seq(Byte))]
        /\ \A t \in Thread : iov[t] = << >> /\ msg[t] = None
        /\ msg \in [Thread -> Message \cup {None}]
    BY <2>1 DEF Init
  <2>3. \A t \in Thread : None # t
    BY ThreadAssumption
  <2> QED BY <2>1, <2>2, <2>3 DEF Init, SendType
<1>2. ConnType /\ RecvType
  BY DEF Init, ConnType, RecvType
<1>3. IntroFirst
  BY DEF Init, IntroFirst
<1>4. NeverRefused
  BY DEF Init, NeverRefused
<1>5. Stream
  <2>1. PICK b \in [0 .. 0 -> Nat] : IsStream(version, << >>, b, << >>)
    BY StreamEmpty
  <2>2. PICK fs \in Seq(Message) : fs = << >>
    OBVIOUS
  <2>0. << >> \in Seq(Byte)
    OBVIOUS
  <2>3. PICK S \in Seq(Byte) : S = << >>
    BY <2>0, Zenon
  <2>4. Len(fs) = 0 /\ Len(S) = 0 /\ Len(sent) = 0 /\ Len(got) = 0 /\ Len(buf) = 0 /\ Len(chan) = 0
    BY <2>2, <2>3 DEF Init
  <2>5. b \in [0 .. Len(fs) -> Nat] /\ IsStream(version, fs, b, S) /\ b[0] = 0
    BY <2>1, <2>2, <2>3, <2>4 DEF IsStream
  <2>6. Starts(fs)
    BY <2>4 DEF Starts
  <2>7. Carries(S, 0, 0)
    BY <2>4 DEF Carries
  <2>8. Reads(fs, b, S, 0)
    BY <2>4, <2>5, PrefixFacts DEF Reads, Pos, Init
  <2>9. Writes(fs, b, S, 0)
    <3>1. ~Half
      BY DEF Half, HalfSent, Init
    <3>2. \A t \in Thread : None # t
      BY ThreadAssumption
    <3> QED BY <2>2, <2>4, <2>5, <3>1, <3>2 DEF Writes, Init
  <2>10. Flow(fs, b, S, 0, 0)
    BY <2>5, <2>6, <2>7, <2>8, <2>9 DEF Flow
  <2> QED BY <2>5, <2>10 DEF Stream
<1> QED BY <1>1, <1>2, <1>3, <1>4, <1>5 DEF WireInv

-----------------------------------------------------------------------------
(***************************************************************************)
(* The receiver.                                                           *)
(***************************************************************************)

\* The frame number g + 1 of a stream, which carries m.
Carrier(ver, S, from, to, m) ==
    /\ Payload(ver, m) \in Seq(Byte)
    /\ Len(Payload(ver, m)) <= MaxFrame - 1
    /\ m \in Intro => Len(Payload(ver, m)) <= MaxUnauth
    /\ IsFrame(S, from, to, m.type, Payload(ver, m))
    /\ to <= Len(S)
    /\ \/ Parse(OPTY_VERSION, m.type, Payload(ver, m)) = m
       \/ ver # OPTY_VERSION /\ Parse(OPTY_VERSION, m.type, Payload(ver, m)) = Malformed
    /\ m # Malformed

\* The frame the receiver is in, with what RoundTrip says of its message.
LEMMA FrameAt ==
  ASSUME NEW ver \in Byte, NEW fs \in Seq(Message), NEW b \in [0 .. Len(fs) -> Nat], NEW S \in Seq(Byte),
         IsStream(ver, fs, b, S), NEW g \in Nat, g < Len(fs), NEW m, m = fs[g + 1]
  PROVE  m \in Message /\ Carrier(ver, S, b[g], b[g + 1], m)
<1>1. PICK n \in Nat : n = Len(fs)
  OBVIOUS
<1>2. PICK k \in Nat : k = g + 1
  OBVIOUS
<1>3. k \in 1 .. n /\ k \in 0 .. n /\ n \in 0 .. n /\ k - 1 = g /\ g \in 0 .. n
  BY <1>1, <1>2
<1>4. m \in Message
  BY <1>1, <1>2, <1>3
<1>5. Sendable(ver, m) /\ IsFrame(S, b[g], b[k], m.type, Payload(ver, m))
  BY <1>1, <1>2, <1>3 DEF IsStream
<1>6. b[k] <= Len(S)
  <2>1. b[n] = Len(S) /\ b[k] \in Nat
    BY <1>1, <1>3 DEF IsStream
  <2>2. CASE k = n
    BY <2>1, <2>2
  <2>3. CASE k # n
    <3>1. k < n
      BY <1>3, <2>3
    <3>2. b[k] < b[n]
      BY <1>1, <1>3, <3>1 DEF IsStream
    <3> QED BY <2>1, <3>2
  <2> QED BY <2>2, <2>3
<1>7. m \in FirstMessage \cup LaterMessage /\ (m \in Intro => m \in FirstMessage)
  BY <1>4, MessageFacts
<1>8. /\ Payload(ver, m) \in Seq(Byte)
      /\ Parse(OPTY_VERSION, m.type, Payload(ver, m)) =
            (IF m \in LaterMessage \/ OPTY_VERSION = ver THEN m ELSE Malformed)
      /\ m # Malformed
      /\ m \in FirstMessage => Len(Payload(ver, m)) <= MaxUnauth
  BY <1>5, <1>7, RoundTrip
<1>9. Len(Payload(ver, m)) <= MaxFrame - 1
  BY <1>5 DEF Sendable, Fits
<1>10. \/ Parse(OPTY_VERSION, m.type, Payload(ver, m)) = m
       \/ ver # OPTY_VERSION /\ Parse(OPTY_VERSION, m.type, Payload(ver, m)) = Malformed
  BY <1>8, Zenon
<1>11. m \in Intro => Len(Payload(ver, m)) <= MaxUnauth
  BY <1>7, <1>8
<1>12. Carrier(ver, S, b[g], b[k], m)
  BY <1>5, <1>6, <1>8, <1>9, <1>10, <1>11 DEF Carrier
<1> QED BY <1>2, <1>4, <1>12

\* Where the receiver is.
LEMMA Where ==
  ASSUME RecvType, NEW fs \in Seq(Message), NEW b \in [0 .. Len(fs) -> Nat], NEW S \in Seq(Byte),
         NEW r \in Nat, NEW w \in Nat, Flow(fs, b, S, r, w),
         NEW g, g = Len(got)
  PROVE  /\ g \in Nat /\ g \in 0 .. Len(fs) /\ b[g] \in Nat
         /\ r = b[g] + Pos /\ r <= w /\ Pos \in Nat
         /\ Pos > 0 \/ r < w => g < Len(fs)
<1>1. g \in Nat /\ g \in 0 .. Len(fs)
  BY DEF RecvType, Flow, Reads
<1>2. PICK x \in Nat : x = b[g]
  BY <1>1
<1>3. PICK y \in Nat : y = Pos
  <2>1. PICK z \in Nat : z = PrefixLen
    BY PrefixFacts
  <2>2. Len(buf) \in Nat
    BY DEF RecvType
  <2>3. Pos \in Nat
    BY <2>1, <2>2 DEF Pos
  <2> QED BY <2>3
<1>4. r = x + y
  BY <1>2, <1>3 DEF Flow, Reads
<1>5. r <= w /\ w <= Len(S)
  <2>1. Len(chan) \in Nat
    BY DEF RecvType
  <2> QED BY <2>1 DEF Flow, Carries
<1>6. ASSUME y > 0 \/ r < w PROVE g < Len(fs)
  <2>1. g = Len(fs) => x = Len(S)
    BY <1>2 DEF Flow, IsStream
  <2> QED BY <1>1, <1>4, <1>5, <1>6, <2>1
<1> QED BY <1>1, <1>2, <1>3, <1>4, <1>5, <1>6

\* read() gives the next n bytes of the stream.
Gives(c, n, S, r) ==
    /\ SubSeq(c, 1, n) \in Seq(Byte)
    /\ Len(SubSeq(c, 1, n)) = n
    /\ \A i \in 1 .. n : SubSeq(c, 1, n)[i] = S[r + i]

\* read() takes the next bytes of the stream.
LEMMA ReadFacts ==
  ASSUME RecvType, NEW fs \in Seq(Message), NEW b \in [0 .. Len(fs) -> Nat], NEW S \in Seq(Byte),
         NEW r \in Nat, NEW w \in Nat, Flow(fs, b, S, r, w), NEW n \in Nat, n > 0, Read(n)
  PROVE  /\ chan' \in Seq(Byte)
         /\ Carries(S, r + n, w)'
         /\ Len(got) < Len(fs)
         /\ Gives(chan, n, S, r)
<1>1. PICK c \in Seq(Byte) : c = chan
  BY DEF RecvType
<1>2. PICK l \in Nat : l = Len(c) /\ n <= l
  <2>1. n <= Len(c) /\ Len(c) \in Nat
    BY <1>1 DEF Read
  <2> QED BY <2>1
<1>3. w <= Len(S) /\ r + l = w /\ \A i \in 1 .. l : c[i] = S[r + i]
  BY <1>1, <1>2 DEF Flow, Carries
<1>4. PICK d : d = From(c, n)
  BY Zenon
<1>5. d \in Seq(Byte) /\ Len(d) = l - n /\ \A i \in 1 .. l - n : d[i] = c[n + i]
  <2>1. n \in 0 .. Len(c)
    BY <1>2
  <2> QED BY <1>2, <1>4, <2>1, FromFacts
<1>6. chan' = d
  BY <1>1, <1>4 DEF Read
<1>7. ASSUME NEW i \in 1 .. l - n PROVE d[i] = S[r + n + i]
  <2>1. n + i \in 1 .. l /\ r + (n + i) = r + n + i
    BY <1>2
  <2>2. c[n + i] = S[r + (n + i)]
    BY <1>3, <2>1
  <2> QED BY <1>5, <2>1, <2>2
<1>8. Carries(S, r + n, w)'
  <2>0. PICK h \in Nat : h = l - n /\ h + n = l
    <3>1. l - n \in Nat /\ (l - n) + n = l
      BY <1>2
    <3> QED BY <3>1
  <2>1. r + n + Len(d) = w
    <3>1. Len(d) = h
      BY <1>5, <2>0
    <3>2. r + n + h = w
      BY <1>3, <2>0
    <3> QED BY <3>1, <3>2
  <2> QED BY <1>3, <1>5, <1>6, <1>7, <2>1 DEF Carries
<1>9. Len(got) < Len(fs)
  <2>1. r < w
    BY <1>2, <1>3
  <2> QED BY <2>1, Where
<1>10. /\ SubSeq(c, 1, n) \in Seq(Byte) /\ Len(SubSeq(c, 1, n)) = n
       /\ \A i \in 1 .. n : SubSeq(c, 1, n)[i] = c[i]
  <2>1. n \in 0 .. Len(c)
    BY <1>2
  <2> QED BY <2>1, FirstFacts
<1>11. \A i \in 1 .. n : SubSeq(c, 1, n)[i] = S[r + i]
  <2>1. \A i \in 1 .. n : i \in 1 .. l
    BY <1>2
  <2> QED BY <1>3, <1>10, <2>1
<1>12. Gives(chan, n, S, r)
  BY <1>1, <1>10, <1>11 DEF Gives
<1> QED BY <1>5, <1>6, <1>8, <1>9, <1>12

\* They follow what opty_read_full has read of the field.
Copied(e, k, S, o) == e \in Seq(Byte) /\ Len(e) = k /\ \A i \in 1 .. k : e[i] = S[o + i]

\* With those already in buf they are a longer part of it.
LEMMA BytesFacts ==
  ASSUME RecvType, NEW fs \in Seq(Message), NEW b \in [0 .. Len(fs) -> Nat], NEW S \in Seq(Byte),
         NEW r \in Nat, NEW w \in Nat, Flow(fs, b, S, r, w), NEW n \in Nat, n > 0, Read(n),
         NEW o \in Nat, NEW k \in Nat, r = o + k, Copied(buf, k, S, o)
  PROVE  Copied(Bytes(n), k + n, S, o)
<1>1. PICK u \in Seq(Byte) : u = buf
  BY DEF RecvType
<1>2. PICK q \in Seq(Byte) : q = SubSeq(chan, 1, n) /\ Len(q) = n /\ \A i \in 1 .. n : q[i] = S[r + i]
  <2>1. /\ SubSeq(chan, 1, n) \in Seq(Byte) /\ Len(SubSeq(chan, 1, n)) = n
        /\ \A i \in 1 .. n : SubSeq(chan, 1, n)[i] = S[r + i]
    <3>1. Gives(chan, n, S, r)
      BY ReadFacts, Zenon
    <3> QED BY <3>1 DEF Gives
  <2> QED BY <2>1
<1>3. PICK e : e = u \o q
  BY Zenon
<1>4. e \in Seq(Byte) /\ IsJoin(e, u, q)
  BY <1>3, JoinOf, Zenon
<1>5. PICK l \in Nat : l = Len(u) /\ l = k /\ \A i \in 1 .. l : u[i] = S[o + i]
  BY <1>1 DEF Copied
<1>6. Len(e) = l + n /\ (\A i \in 1 .. l : e[i] = u[i]) /\ \A i \in 1 .. n : e[l + i] = q[i]
  BY <1>2, <1>4, <1>5 DEF IsJoin
<1>7. ASSUME NEW i \in 1 .. l + n PROVE e[i] = S[o + i]
  <2>1. CASE i <= l
    <3>1. i \in 1 .. l
      BY <2>1
    <3> QED BY <1>1, <1>5, <1>6, <3>1
  <2>2. CASE ~(i <= l)
    <3>1. PICK j \in 1 .. n : i = l + j
      <4>1. i - l \in 1 .. n /\ i = l + (i - l)
        BY <2>2
      <4> QED BY <4>1
    <3>2. r + j = o + i
      BY <1>1, <1>5, <3>1
    <3> QED BY <1>2, <1>6, <3>1, <3>2
  <2> QED BY <2>1, <2>2
<1>8. Bytes(n) = e
  BY <1>1, <1>2, <1>3 DEF Bytes
<1> QED BY <1>4, <1>5, <1>6, <1>7, <1>8 DEF Copied

\* No step of the receiver is seen by the senders, as long as it stays.
LEMMA SenderStays ==
  ASSUME UNCHANGED <<sender, version, send_vars>>
  PROVE  /\ SendType => SendType'
         /\ conn' = conn \/ conn' = "reset" => (IntroFirst => IntroFirst')
         /\ \A fs : Starts(fs) => Starts(fs)'
         /\ \A fs, b, S, w : conn' = conn => (Writes(fs, b, S, w) => Writes(fs, b, S, w)')
         /\ \A fs, b, S : IsStream(version, fs, b, S) => IsStream(version, fs, b, S)'
<1>0. /\ sender' = sender /\ version' = version /\ iov' = iov /\ msg' = msg /\ write_mu' = write_mu
      /\ begun' = begun /\ sent' = sent /\ cut' = cut
  BY DEF send_vars
<1>1. SendType => SendType'
  BY <1>0 DEF SendType
<1>2. conn' = conn \/ conn' = "reset" => (IntroFirst => IntroFirst')
  BY <1>0 DEF IntroFirst
<1>3. \A fs : Starts(fs) => Starts(fs)'
  BY <1>0 DEF Starts
<1>4. \A t : HalfSent(t)' <=> HalfSent(t)
  BY <1>0 DEF HalfSent, Iov
<1>5. Half' <=> Half
  BY <1>0, <1>4 DEF Half
<1>6. \A t, fs, S, w : Holds(t, fs, S, w) => Holds(t, fs, S, w)'
  BY <1>0 DEF Holds
<1>7. ASSUME NEW fs, NEW b, NEW S, NEW w, conn' = conn, Writes(fs, b, S, w) PROVE Writes(fs, b, S, w)'
  BY <1>0, <1>5, <1>6, <1>7 DEF Writes
<1>8. \A fs, b, S : IsStream(version, fs, b, S) => IsStream(version, fs, b, S)'
  BY <1>0 DEF IsStream
<1> QED BY <1>1, <1>2, <1>3, <1>7, <1>8

\* The receiver gives up.
LEMMA Leaves ==
  ASSUME WireInv, UNCHANGED <<sender, version, send_vars>>, NEW how, how # "open", Leave(how),
         how \in {"refused", "malformed"} => version # OPTY_VERSION,
         chan' \in Seq(Byte), buf' \in Seq(Byte), want' \in {"prefix", "type", "payload"}
  PROVE  WireInv'
<1>1. ended' = how /\ conn' = "reset" /\ got' = got
  BY DEF Leave
<1>2. version' = version /\ cut' = cut
  BY DEF send_vars
<1>3. SendType' /\ IntroFirst'
  BY <1>1, SenderStays DEF WireInv
<1>4. ConnType'
  BY <1>1 DEF ConnType
<1>5. RecvType'
  BY <1>1 DEF WireInv, RecvType
<1>6. Stream'
  BY <1>1 DEF Stream
<1>7. NeverRefused'
  BY <1>1, <1>2 DEF NeverRefused
<1> QED BY <1>3, <1>4, <1>5, <1>6, <1>7 DEF WireInv

\* A step of the receiver that stays, and reads up to x.
LEMMA Stays ==
  ASSUME WireInv, UNCHANGED <<sender, version, send_vars>>, conn' = conn, ended' = ended, ended = "open",
         conn = "reset" => chan' = << >>,
         RecvType', NEW fs \in Seq(Message), NEW b \in [0 .. Len(fs) -> Nat], NEW S \in Seq(Byte),
         NEW r \in Nat, NEW w \in Nat, Flow(fs, b, S, r, w), NEW x \in Nat, Carries(S, x, w)',
         Reads(fs, b, S, x)'
  PROVE  WireInv'
<1>1. version' = version /\ cut' = cut
  BY DEF send_vars
<1>2. SendType' /\ IntroFirst'
  BY SenderStays DEF WireInv
<1>3. ConnType'
  BY <1>1 DEF WireInv, ConnType
<1>4. Starts(fs)' /\ Writes(fs, b, S, w)' /\ IsStream(version, fs, b, S)'
  BY SenderStays DEF Flow
<1>5. Flow(fs, b, S, x, w)'
  BY <1>4 DEF Flow
<1>6. Stream'
  BY <1>5 DEF Stream
<1>7. NeverRefused'
  BY <1>1 DEF WireInv, NeverRefused
<1> QED BY <1>2, <1>3, <1>6, <1>7 DEF WireInv

\* read() on a connection that was reset gives nothing.
LEMMA ReadAlive ==
  ASSUME WireInv, NEW n \in Nat, n > 0, Read(n)
  PROVE  /\ conn # "reset" /\ ended = "open"
         /\ \E fs \in Seq(Message) : \E b \in [0 .. Len(fs) -> Nat] : \E S \in Seq(Byte) :
              \E r, w \in Nat : Flow(fs, b, S, r, w)
<1>1. ended = "open" /\ Len(chan) # 0
  BY DEF WireInv, RecvType, Read
<1>2. conn # "reset"
  BY <1>1 DEF WireInv, ConnType
<1> QED BY <1>1, <1>2 DEF WireInv, Stream

\* opty_read_full goes round its loop.
LEMMA ReadPartStep ==
  ASSUME WireInv, NEW n \in Nat, n > 0, ReadPart(n)
  PROVE  WireInv'
<1>1. Read(n) /\ Len(Bytes(n)) < Need /\ buf' = Bytes(n) /\ UNCHANGED <<conn, want, len, type, got, ended>>
  BY DEF ReadPart
<1>2. conn # "reset" /\ ended = "open"
  BY <1>1, ReadAlive
<1>3. PICK fs \in Seq(Message) : \E b \in [0 .. Len(fs) -> Nat] : \E S \in Seq(Byte) :
              \E r, w \in Nat : Flow(fs, b, S, r, w)
  BY <1>1, ReadAlive
<1>4. PICK b \in [0 .. Len(fs) -> Nat] : \E S \in Seq(Byte) : \E r, w \in Nat : Flow(fs, b, S, r, w)
  BY <1>3
<1>5. PICK S \in Seq(Byte) : \E r, w \in Nat : Flow(fs, b, S, r, w)
  BY <1>4
<1>6. PICK r \in Nat, w \in Nat : Flow(fs, b, S, r, w)
  BY <1>5
<1>7. RecvType /\ UNCHANGED <<sender, version, send_vars>>
  BY <1>1 DEF WireInv, Read
<1>8. chan' \in Seq(Byte) /\ Carries(S, r + n, w)' /\ Len(got) < Len(fs)
  BY <1>1, <1>6, <1>7, ReadFacts
<1>9. PICK g \in Nat : g = Len(got)
  BY <1>7 DEF RecvType
<1>10. PICK x \in Nat : x = b[g] /\ r = x + Pos
  BY <1>6, <1>7, <1>9, Where
<1>11. PICK z \in Nat : z = PrefixLen
  BY PrefixFacts
<1>12. PICK l \in Nat : l = Len(buf)
  BY <1>7 DEF RecvType
<1>13. want \in {"prefix", "type", "payload"} /\ version' = version
  BY <1>7 DEF RecvType
<1>14. Reads(fs, b, S, r + n)' /\ buf' \in Seq(Byte)
  <2>1. CASE want = "prefix"
    <3>1. Pos = l /\ \A i \in 1 .. Len(buf) : buf[i] = S[x + i]
      BY <1>6, <1>9, <1>10, <1>12, <2>1 DEF Pos, Flow, Reads
    <3>2. /\ Bytes(n) \in Seq(Byte) /\ Len(Bytes(n)) = l + n
          /\ \A i \in 1 .. l + n : Bytes(n)[i] = S[x + i]
      <4>1. r = x + l
        BY <1>10, <3>1
      <4>2. Copied(buf, l, S, x)
        BY <1>7, <1>12, <3>1 DEF Copied, RecvType
      <4>3. Copied(Bytes(n), l + n, S, x)
        BY <1>1, <1>6, <1>7, <4>1, <4>2, BytesFacts, Zenon
      <4> QED BY <4>3 DEF Copied
    <3>3. Pos' = l + n /\ r + n = x + (l + n)
      BY <1>1, <1>10, <2>1, <3>1, <3>2 DEF Pos
    <3>4. l + n < PrefixLen
      BY <1>1, <2>1, <3>2 DEF Need
    <3> QED BY <1>1, <1>6, <1>9, <1>10, <2>1, <3>2, <3>3, <3>4 DEF Flow, Reads
  <2>2. CASE want = "type"
    <3>1. Need = 1 /\ Len(Bytes(n)) = l + n
      <4>0. PICK o \in Nat : o = x + z
        OBVIOUS
      <4>1. l = 0 /\ r = o + l
        BY <1>6, <1>10, <1>11, <1>12, <2>2, <4>0 DEF Pos, Flow, Reads
      <4>2. Copied(buf, l, S, o)
        BY <1>7, <1>12, <4>1 DEF Copied, RecvType
      <4>3. r = o + l
        BY <4>1
      <4>4. Copied(Bytes(n), l + n, S, o)
        BY <1>1, <1>6, <1>7, <4>2, <4>3, BytesFacts, Zenon
      <4> QED BY <2>2, <4>4 DEF Need, Copied
    <3> QED BY <1>1, <3>1
  <2>3. CASE want = "payload"
    <3>1. Pos = z + 1 + l /\ \A i \in 1 .. Len(buf) : buf[i] = S[x + z + 1 + i]
      BY <1>6, <1>9, <1>10, <1>11, <1>12, <2>3 DEF Pos, Flow, Reads
    <3>2. /\ Bytes(n) \in Seq(Byte) /\ Len(Bytes(n)) = l + n
          /\ \A i \in 1 .. l + n : Bytes(n)[i] = S[x + z + 1 + i]
      <4>0. PICK o \in Nat : o = x + z + 1
        OBVIOUS
      <4>a. Pos = z + 1 + l
        BY <3>1
      <4>b. r = x + (z + 1 + l)
        BY <1>10, <4>a
      <4>1. r = o + l
        BY <4>0, <4>b
      <4>2. Copied(buf, l, S, o)
        BY <1>7, <1>12, <3>1, <4>0 DEF Copied, RecvType
      <4>3. Copied(Bytes(n), l + n, S, o)
        BY <1>1, <1>6, <1>7, <4>1, <4>2, BytesFacts, Zenon
      <4> QED BY <4>0, <4>3 DEF Copied
    <3>3. Pos' = z + 1 + (l + n) /\ r + n = x + (z + 1 + (l + n))
      <4>1. Len(buf') = l + n /\ want' = want /\ Pos = z + 1 + l
        BY <1>1, <3>1, <3>2
      <4>2. Pos' = z + 1 + (l + n)
        BY <1>11, <2>3, <4>1 DEF Pos
      <4> QED BY <1>10, <4>1, <4>2
    <3>4. l + n < len
      BY <1>1, <2>3, <3>2 DEF Need
    <3> QED BY <1>1, <1>6, <1>9, <1>10, <1>11, <1>13, <2>3, <3>2, <3>3, <3>4 DEF Flow, Reads
  <2> QED BY <1>13, <2>1, <2>2, <2>3
<1>15. RecvType'
  BY <1>1, <1>7, <1>8, <1>14 DEF RecvType
<1>16. r + n \in Nat /\ conn' = conn /\ ended' = ended
  BY <1>1
<1> QED BY <1>2, <1>6, <1>7, <1>8, <1>14, <1>15, <1>16, Stays

\* The fields of a frame that are read whole.
LEMMA PrefixRead ==
  ASSUME NEW S, NEW from \in Nat, NEW to, NEW ty, NEW p \in Seq(Byte), IsFrame(S, from, to, ty, p),
         Len(p) <= MaxFrame - 1, NEW e, Copied(e, PrefixLen, S, from)
  PROVE  Get(e) = Len(p) + 1
<1>1. PICK z \in Nat : z = PrefixLen /\ MaxFrame < Power[z]
  BY PrefixFacts
<1>2. PICK v \in Nat : v = Len(p) + 1
  <2>1. Len(p) \in Nat
    OBVIOUS
  <2> QED BY <2>1
<1>3. v \in Unsigned(z)
  <2>1. PICK x \in Nat : x = MaxFrame
    BY WidthFacts
  <2>2. PICK y \in Nat : y = Power[z]
    BY PowerFacts
  <2>3. v <= x /\ x < y
    BY <1>1, <1>2, <2>1, <2>2
  <2>4. v \in 0 .. y - 1
    BY <2>3
  <2> QED BY <2>2, <2>4 DEF Unsigned
<1>4. PICK q : q = Put(z, v)
  BY Zenon
<1>5. q \in Seq(Byte) /\ Len(q) = z /\ Get(q) = v
  BY <1>3, <1>4, Field
<1>6. e \in Seq(Byte) /\ Len(e) = z /\ \A i \in 1 .. z : e[i] = S[from + i]
  BY <1>1 DEF Copied
<1>7. \A i \in 1 .. z : S[from + i] = q[i]
  BY <1>1, <1>2, <1>4 DEF IsFrame
<1>8. e = q
  BY <1>5, <1>6, <1>7, SameSeq
<1> QED BY <1>2, <1>5, <1>8

\* The bytes collected for the payload are the payload.
LEMMA PayloadRead ==
  ASSUME NEW S, NEW from \in Nat, NEW to, NEW ty, NEW p \in Seq(Byte), IsFrame(S, from, to, ty, p),
         NEW n \in Nat, n = Len(p), NEW e, Copied(e, n, S, from + PrefixLen + 1)
  PROVE  e = p
<1>1. e \in Seq(Byte) /\ Len(e) = n /\ \A i \in 1 .. n : e[i] = S[from + PrefixLen + 1 + i]
  BY DEF Copied
<1>2. \A i \in 1 .. n : e[i] = p[i]
  BY <1>1 DEF IsFrame
<1> QED BY <1>1, <1>2, SameSeq

\* The prefix is complete, and is that of a frame that is not too long.
LEMMA ReadPrefixStep ==
  ASSUME WireInv, NEW n \in Nat, n > 0, ReadPrefix(n)
  PROVE  WireInv' /\ got' = got /\ ended' = ended
<1>1. want = "prefix" /\ Read(n) /\ Len(Bytes(n)) = Need /\ buf' = << >> /\ type' = type
  BY DEF ReadPrefix
<1>2. conn # "reset" /\ ended = "open"
  BY <1>1, ReadAlive
<1>3. PICK fs \in Seq(Message) : \E b \in [0 .. Len(fs) -> Nat] : \E S \in Seq(Byte) :
              \E r, w \in Nat : Flow(fs, b, S, r, w)
  BY <1>1, ReadAlive
<1>4. PICK b \in [0 .. Len(fs) -> Nat] : \E S \in Seq(Byte) : \E r, w \in Nat : Flow(fs, b, S, r, w)
  BY <1>3
<1>5. PICK S \in Seq(Byte) : \E r, w \in Nat : Flow(fs, b, S, r, w)
  BY <1>4
<1>6. PICK r \in Nat, w \in Nat : Flow(fs, b, S, r, w)
  BY <1>5
<1>7. RecvType /\ SendType /\ UNCHANGED <<sender, version, send_vars>>
  BY <1>1 DEF WireInv, Read
<1>8. chan' \in Seq(Byte) /\ Carries(S, r + n, w)' /\ Len(got) < Len(fs)
  BY <1>1, <1>6, <1>7, ReadFacts
<1>9. PICK g \in Nat : g = Len(got)
  BY <1>7 DEF RecvType
<1>10. PICK x \in Nat : x = b[g] /\ r = x + Pos
  BY <1>6, <1>7, <1>9, Where
<1>11. PICK l \in Nat : l = Len(buf)
  BY <1>7 DEF RecvType
<1>12. Pos = l /\ \A i \in 1 .. Len(buf) : buf[i] = S[x + i]
  BY <1>1, <1>6, <1>9, <1>10, <1>11 DEF Pos, Flow, Reads
<1>13. PICK e : e = Bytes(n)
  BY Zenon
<1>14. Copied(e, l + n, S, x)
  <2>1. r = x + l
    BY <1>10, <1>12
  <2>2. Copied(buf, l, S, x)
    BY <1>7, <1>11, <1>12 DEF Copied, RecvType
  <2> QED BY <1>1, <1>6, <1>7, <1>13, <2>1, <2>2, BytesFacts, Zenon
<1>15. l + n = PrefixLen
  BY <1>1, <1>13, <1>14 DEF Need, Copied
<1>16. PICK m : m = fs[g + 1]
  BY Zenon
<1>17. version \in Byte
  BY <1>7, VersionFacts
<1>18. Carrier(version, S, b[g], b[g + 1], m)
  BY <1>6, <1>8, <1>9, <1>16, <1>17, FrameAt DEF Flow
<1>19. PICK p \in Seq(Byte) : p = Payload(version, m)
  BY <1>18 DEF Carrier
<1>20. IsFrame(S, x, b[g + 1], m.type, p) /\ Len(p) <= MaxFrame - 1 /\ (m \in Intro => Len(p) <= MaxUnauth)
  BY <1>10, <1>18, <1>19 DEF Carrier
<1>21. Get(e) = Len(p) + 1
  BY <1>14, <1>15, <1>20, PrefixRead
<1>22. Len(p) <= PayloadCap
  <2>1. CASE sender = "client" /\ got = << >>
    <3>1. g = 0 /\ Len(fs) > 0
      BY <1>8, <1>9, <2>1
    <3>2. fs[1] \in Intro
      BY <1>6, <2>1, <3>1 DEF Flow, Starts
    <3>3. m \in Intro
      BY <1>16, <3>1, <3>2
    <3> QED BY <1>20, <2>1, <3>3 DEF PayloadCap
  <2>2. CASE ~(sender = "client" /\ got = << >>)
    BY <1>20, <2>2 DEF PayloadCap
  <2> QED BY <2>1, <2>2
<1>23. PICK k \in Nat : k = Len(p)
  OBVIOUS
<1>24. ~TooLong(Get(e)) /\ Get(e) - 1 = k
  <2>1. Get(e) = k + 1 /\ k <= PayloadCap /\ k <= MaxFrame - 1
    BY <1>20, <1>21, <1>22, <1>23
  <2>2. ~(k + 1 < 1) /\ ~(k + 1 > MaxFrame) /\ k + 1 - 1 = k
    BY <2>1, WidthFacts
  <2>3. ~(k > PayloadCap)
    <3>1. MaxUnauth \in Nat
      BY WidthFacts DEF MaxUnauth
    <3>2. 2 * SeqLen <= MaxFrame - 1
      BY WidthAssumption
    <3>3. MaxFrame - 1 \in Nat
      BY <3>2, WidthFacts
    <3>4. PayloadCap \in Nat
      BY <3>1, <3>3 DEF PayloadCap
    <3> QED BY <2>1, <3>4
  <2> QED BY <2>1, <2>2, <2>3 DEF TooLong
<1>25. want' = "type" /\ len' = k /\ conn' = conn /\ got' = got /\ ended' = ended
  BY <1>13, <1>24 DEF ReadPrefix
<1>26. version' = version
  BY <1>7
<1>27. Reads(fs, b, S, r + n)'
  <2>1. r + n = x + PrefixLen
    BY <1>10, <1>12, <1>15, PrefixFacts
  <2>2. Pos' = PrefixLen
    BY <1>25 DEF Pos
  <2>3. len' = Len(Payload(version, fs[Len(got) + 1]))
    BY <1>9, <1>16, <1>19, <1>23, <1>25
  <2>4. /\ Len(got') <= Len(fs)
        /\ \A i \in 1 .. Len(got') : got'[i] = fs[i]
    BY <1>6, <1>25 DEF Flow, Reads
  <2> QED BY <1>1, <1>9, <1>10, <1>25, <1>26, <2>1, <2>2, <2>3, <2>4 DEF Reads
<1>28. RecvType'
  <2>1. << >> \in Seq(Byte)
    OBVIOUS
  <2> QED BY <1>1, <1>7, <1>8, <1>25, <2>1 DEF RecvType
<1>29. r + n \in Nat
  OBVIOUS
<1> QED BY <1>2, <1>6, <1>7, <1>8, <1>25, <1>27, <1>28, <1>29, Stays

\* What the delivery of a frame is to the queue of messages.
Delivery == \/ /\ ended' = ended /\ Len(got) < Len(sent)
               /\ got' = Append(got, sent[Len(got) + 1])
            \/ ended' \in {"malformed", "no_memory"} /\ got' = got

\* The last byte of a frame is read, and its message delivered.
LEMMA Delivered ==
  ASSUME WireInv, conn # "reset", NEW n \in Nat, n > 0, Read(n), NEW fs \in Seq(Message),
         NEW b \in [0 .. Len(fs) -> Nat], NEW S \in Seq(Byte), NEW r \in Nat, NEW w \in Nat,
         Flow(fs, b, S, r, w), NEW g \in Nat, g = Len(got), r + n = b[g + 1],
         NEW m, m = fs[g + 1], NEW p, p = Payload(version, m), Deliver(m.type, p)
  PROVE  WireInv' /\ Delivery
<1>1. RecvType /\ SendType /\ UNCHANGED <<sender, version, send_vars>> /\ ended = "open"
  BY DEF WireInv, Read
<1>2. chan' \in Seq(Byte) /\ Carries(S, r + n, w)' /\ Len(got) < Len(fs)
  BY <1>1, ReadFacts
<1>3. version \in Byte
  BY <1>1, VersionFacts
<1>4. m \in Message /\ Carrier(version, S, b[g], b[g + 1], m)
  BY <1>2, <1>3, FrameAt DEF Flow
<1>5. want' = "prefix" /\ len' = 0 /\ type' = 0 /\ buf' = << >>
  BY DEF Deliver
<1>6. << >> \in Seq(Byte)
  OBVIOUS
<1>7. CASE Parse(OPTY_VERSION, m.type, p) = Malformed
  <2>1. version # OPTY_VERSION
    BY <1>4, <1>7 DEF Carrier
  <2>2. Leave("malformed")
    BY <1>7 DEF Deliver
  <2>3. WireInv'
    BY <1>1, <1>2, <1>5, <1>6, <2>1, <2>2, Leaves
  <2> QED BY <2>2, <2>3 DEF Delivery, Leave
<1>8. CASE Parse(OPTY_VERSION, m.type, p) # Malformed
  <2>1. Parse(OPTY_VERSION, m.type, p) = m
    BY <1>4, <1>8 DEF Carrier
  <2>2. got' = Append(got, m) /\ conn' = conn /\ ended' = ended
    BY <1>8, <2>1 DEF Deliver
  <2>3. got \in Seq(Message) /\ got' \in Seq(Message) /\ Len(got') = g + 1
    BY <1>1, <1>4, <2>2 DEF RecvType
  <2>4. /\ got'[g + 1] = m
        /\ \A i \in 1 .. g : got'[i] = got[i]
    BY <2>2, <2>3
  <2>5. \A i \in 1 .. g + 1 : got'[i] = fs[i]
    <3>1. \A i \in 1 .. g : got[i] = fs[i]
      BY DEF Flow, Reads
    <3>2. \A i \in 1 .. g + 1 : i \in 1 .. g \/ i = g + 1
      OBVIOUS
    <3> QED BY <2>4, <3>1, <3>2
  <2>6. RecvType'
    BY <1>2, <1>5, <1>6, <2>3 DEF RecvType
  <2>7. g + 1 <= Len(fs)
    BY <1>2
  <2>8. Reads(fs, b, S, r + n)'
    <3>1. Len(buf') = 0
      BY <1>5
    <3>2. PICK y \in Nat : y = b[g + 1]
      <4>1. r + n \in Nat
        OBVIOUS
      <4> QED BY <4>1
    <3>3. Pos' = 0 /\ r + n = y + 0
      BY <1>5, <3>1, <3>2 DEF Pos
    <3> QED BY <1>5, <2>3, <2>5, <2>7, <3>1, <3>2, <3>3, PrefixFacts DEF Reads
  <2>9. r + n \in Nat
    OBVIOUS
  <2>10. WireInv'
    BY <1>1, <1>2, <2>2, <2>6, <2>8, <2>9, Stays
  <2>11. Len(got) < Len(sent) /\ m = sent[Len(got) + 1]
    <3>1. PICK s \in Nat : s = Len(sent)
      BY <1>1 DEF SendType
    <3>2. PICK f \in Nat : f = Len(fs)
      OBVIOUS
    <3>3. f <= s + 1 /\ (s < f => w < Len(S)) /\ \A i \in 1 .. s : sent[i] = fs[i]
      BY <3>1, <3>2 DEF Flow, Writes
    <3>4. r + n <= w
      <4>1. n <= Len(chan) /\ r + Len(chan) = w /\ Len(chan) \in Nat
        BY <1>1 DEF Flow, Carries, Read, RecvType
      <4> QED BY <4>1
    <3>5. g < s
      <4>1. ASSUME ~(g < s) PROVE FALSE
        <5>1. g + 1 = f /\ s < f
          BY <1>2, <3>2, <3>3, <4>1
        <5>2. b[f] = Len(S)
          BY <3>2 DEF Flow, IsStream
        <5>3. r + n = Len(S)
          BY <5>1, <5>2
        <5> QED BY <3>3, <3>4, <5>1, <5>3
      <4> QED BY <4>1
    <3>6. g + 1 \in 1 .. s
      BY <3>5
    <3> QED BY <3>1, <3>3, <3>5, <3>6
  <2> QED BY <2>2, <2>10, <2>11 DEF Delivery
<1> QED BY <1>7, <1>8

\* The sequence of length 0.
LEMMA NoBytes ==
  ASSUME NEW X, NEW s \in Seq(X), Len(s) = 0
  PROVE  s = << >>
OBVIOUS

\* The type is read.
LEMMA ReadTypeStep ==
  ASSUME WireInv, ReadType
  PROVE  WireInv' /\ (Delivery \/ (got' = got /\ ended' = ended))
<1>0. PICK n \in Nat : n = 1 /\ n > 0
  OBVIOUS
<1>1. want = "type" /\ Read(n)
  BY <1>0 DEF ReadType
<1>2. conn # "reset" /\ ended = "open"
  BY <1>0, <1>1, ReadAlive
<1>3. PICK fs \in Seq(Message) : \E b \in [0 .. Len(fs) -> Nat] : \E S \in Seq(Byte) :
              \E r, w \in Nat : Flow(fs, b, S, r, w)
  BY <1>0, <1>1, ReadAlive
<1>4. PICK b \in [0 .. Len(fs) -> Nat] : \E S \in Seq(Byte) : \E r, w \in Nat : Flow(fs, b, S, r, w)
  BY <1>3
<1>5. PICK S \in Seq(Byte) : \E r, w \in Nat : Flow(fs, b, S, r, w)
  BY <1>4
<1>6. PICK r \in Nat, w \in Nat : Flow(fs, b, S, r, w)
  BY <1>5
<1>7. RecvType /\ SendType /\ UNCHANGED <<sender, version, send_vars>>
  BY <1>1 DEF WireInv, Read
<1>8. chan' \in Seq(Byte) /\ Carries(S, r + n, w)' /\ Len(got) < Len(fs) /\ Gives(chan, n, S, r)
  BY <1>0, <1>1, <1>6, <1>7, ReadFacts
<1>9. PICK g \in Nat : g = Len(got)
  BY <1>7 DEF RecvType
<1>10. PICK z \in Nat : z = PrefixLen
  BY PrefixFacts
<1>11. PICK x \in Nat : x = b[g] /\ r = x + z
  <2>1. b[g] \in Nat /\ r = b[g] + Pos
    BY <1>6, <1>7, <1>9, Where
  <2>2. Pos = z
    BY <1>1, <1>10 DEF Pos
  <2> QED BY <2>1, <2>2
<1>12. PICK m : m = fs[g + 1]
  BY Zenon
<1>13. version \in Byte
  BY <1>7, VersionFacts
<1>14. Carrier(version, S, b[g], b[g + 1], m)
  BY <1>6, <1>8, <1>9, <1>12, <1>13, FrameAt DEF Flow
<1>15. PICK p \in Seq(Byte) : p = Payload(version, m)
  BY <1>14 DEF Carrier
<1>16. IsFrame(S, x, b[g + 1], m.type, p)
  BY <1>11, <1>14, <1>15 DEF Carrier
<1>17. chan[1] = m.type
  <2>1. S[x + z + 1] = m.type
    BY <1>10, <1>16 DEF IsFrame
  <2>2. 1 \in 1 .. n /\ 1 \in 1 .. Len(chan)
    BY <1>0, <1>1, <1>7 DEF Read, RecvType
  <2>3. chan[1] = S[r + 1]
    BY <1>6, <2>2 DEF Flow, Carries
  <2> QED BY <1>11, <2>1, <2>3
<1>18. len = Len(p) /\ buf = << >>
  BY <1>1, <1>6, <1>9, <1>12, <1>15 DEF Flow, Reads
<1>19. CASE len = 0 /\ Deliver(chan[1], << >>)
  <2>0. Len(p) = 0
    BY <1>18, <1>19
  <2>1. p = << >>
    BY <2>0, NoBytes
  <2>2. Deliver(m.type, p)
    BY <1>17, <1>19, <2>1
  <2>3. r + n = b[g + 1]
    <3>1. b[g + 1] = x + z + 1 + 0
      BY <1>10, <1>16, <1>18, <1>19 DEF IsFrame
    <3> QED BY <1>0, <1>11, <3>1
  <2> QED BY <1>0, <1>1, <1>2, <1>6, <1>9, <1>12, <1>15, <2>2, <2>3, Delivered
<1>20. CASE len > 0 /\ want' = "payload" /\ type' = chan[1] /\ UNCHANGED <<conn, len, buf, got, ended>>
  <2>1. version' = version /\ Len(buf') = 0 /\ buf' \in Seq(Byte)
    BY <1>7, <1>18, <1>20 DEF RecvType
  <2>2. RecvType'
    BY <1>7, <1>8, <1>20, <2>1 DEF RecvType
  <2>3. Pos' = z + 1 + 0
    BY <1>10, <1>20, <2>1 DEF Pos
  <2>4. Reads(fs, b, S, r + n)'
    <3>0. r = x + z /\ n = 1
      BY <1>0, <1>11
    <3>1. r + n = x + (z + 1 + 0)
      BY <3>0
    <3>2. /\ Len(got') <= Len(fs)
          /\ \A i \in 1 .. Len(got') : got'[i] = fs[i]
      BY <1>6, <1>20 DEF Flow, Reads
    <3>3. len' = Len(Payload(version', fs[Len(got') + 1])) /\ type' = fs[Len(got') + 1].type
      BY <1>9, <1>12, <1>15, <1>17, <1>18, <1>20, <2>1
    <3>4. Len(buf') < len'
      BY <1>20, <2>1
    <3> QED BY <1>9, <1>11, <1>20, <2>1, <2>3, <3>1, <3>2, <3>3, <3>4 DEF Reads
  <2>5. r + n \in Nat
    OBVIOUS
  <2>6. WireInv'
    BY <1>2, <1>6, <1>7, <1>8, <1>20, <2>2, <2>4, <2>5, Stays
  <2> QED BY <1>20, <2>6
<1>21. CASE len > 0 /\ Leave("no_memory") /\ UNCHANGED <<want, len, type, buf>>
  <2>1. buf' \in Seq(Byte) /\ want' \in {"prefix", "type", "payload"}
    BY <1>7, <1>21 DEF RecvType
  <2>2. WireInv'
    BY <1>7, <1>8, <1>21, <2>1, Leaves
  <2> QED BY <1>21, <2>2 DEF Delivery, Leave
<1> QED BY <1>19, <1>20, <1>21 DEF ReadType

\* The payload is complete.
LEMMA ReadPayloadStep ==
  ASSUME WireInv, NEW n \in Nat, n > 0, ReadPayload(n)
  PROVE  WireInv' /\ Delivery
<1>1. want = "payload" /\ Read(n) /\ Len(Bytes(n)) = Need /\ Deliver(type, Bytes(n))
  BY DEF ReadPayload
<1>2. conn # "reset"
  BY <1>1, ReadAlive
<1>3. PICK fs \in Seq(Message) : \E b \in [0 .. Len(fs) -> Nat] : \E S \in Seq(Byte) :
              \E r, w \in Nat : Flow(fs, b, S, r, w)
  BY <1>1, ReadAlive
<1>4. PICK b \in [0 .. Len(fs) -> Nat] : \E S \in Seq(Byte) : \E r, w \in Nat : Flow(fs, b, S, r, w)
  BY <1>3
<1>5. PICK S \in Seq(Byte) : \E r, w \in Nat : Flow(fs, b, S, r, w)
  BY <1>4
<1>6. PICK r \in Nat, w \in Nat : Flow(fs, b, S, r, w)
  BY <1>5
<1>7. RecvType /\ SendType
  BY DEF WireInv
<1>8. Len(got) < Len(fs)
  BY <1>1, <1>6, <1>7, ReadFacts
<1>9. PICK g \in Nat : g = Len(got)
  BY <1>7 DEF RecvType
<1>10. PICK x \in Nat : x = b[g] /\ r = x + Pos
  BY <1>6, <1>7, <1>9, Where
<1>11. PICK l \in Nat : l = Len(buf)
  BY <1>7 DEF RecvType
<1>12. PICK o \in Nat : o = x + PrefixLen + 1
  BY PrefixFacts
<1>13. r = o + l
  <2>1. Pos = PrefixLen + 1 + l
    BY <1>1, <1>11 DEF Pos
  <2>2. PICK z \in Nat : z = PrefixLen
    BY PrefixFacts
  <2>3. o = x + z + 1 /\ r = x + (z + 1 + l)
    BY <1>10, <1>12, <2>1, <2>2
  <2> QED BY <2>3
<1>14. Copied(buf, l, S, o)
  <2>1. \A i \in 1 .. l : buf[i] = S[o + i]
    BY <1>1, <1>6, <1>9, <1>10, <1>11, <1>12 DEF Flow, Reads
  <2> QED BY <1>7, <1>11, <2>1 DEF Copied, RecvType
<1>15. PICK e : e = Bytes(n)
  BY Zenon
<1>16. Copied(e, l + n, S, o)
  BY <1>1, <1>6, <1>7, <1>13, <1>14, <1>15, BytesFacts, Zenon
<1>17. PICK m : m = fs[g + 1]
  BY Zenon
<1>18. version \in Byte
  BY <1>7, VersionFacts
<1>19. Carrier(version, S, b[g], b[g + 1], m)
  BY <1>6, <1>8, <1>9, <1>17, <1>18, FrameAt DEF Flow
<1>20. PICK p \in Seq(Byte) : p = Payload(version, m)
  BY <1>19 DEF Carrier
<1>21. IsFrame(S, x, b[g + 1], m.type, p)
  BY <1>10, <1>19, <1>20 DEF Carrier
<1>22. len = Len(p) /\ type = m.type
  BY <1>1, <1>6, <1>9, <1>17, <1>20 DEF Flow, Reads
<1>23. PICK k \in Nat : k = Len(p) /\ k = l + n
  <2>1. Len(e) = l + n
    BY <1>16 DEF Copied
  <2>2. Len(e) = len
    BY <1>1, <1>15 DEF Need
  <2>3. l + n = Len(p) /\ l + n \in Nat
    BY <1>22, <2>1, <2>2
  <2> QED BY <2>3
<1>24. e = p
  <2>1. Copied(e, k, S, x + PrefixLen + 1)
    BY <1>12, <1>16, <1>23
  <2> QED BY <1>21, <1>23, <2>1, PayloadRead
<1>25. Deliver(m.type, p)
  BY <1>1, <1>15, <1>22, <1>24
<1>26. r + n = b[g + 1]
  <2>1. b[g + 1] = x + PrefixLen + 1 + k
    BY <1>21, <1>23 DEF IsFrame
  <2> QED BY <1>12, <1>13, <1>23, <2>1, PrefixFacts
<1> QED BY <1>1, <1>2, <1>6, <1>9, <1>17, <1>20, <1>25, <1>26, Delivered

\* An end of file is one only for a receiver that has everything.
LEMMA ReadEofStep ==
  ASSUME WireInv, ReadEof
  PROVE  /\ WireInv'
         /\ got' = got /\ ended' \in {"eof", "lost"} /\ ended = "open"
         /\ ended' = "eof" => got = sent /\ ~Half
<1>1. ReadEof => AtEof(want = "prefix" /\ buf = << >>)
  BY DEF ReadEof
<1>2. /\ ended = "open" /\ conn = "closed" /\ chan = << >>
      /\ Leave(IF want = "prefix" /\ buf = << >> THEN "eof" ELSE "lost")
      /\ UNCHANGED <<sender, version, send_vars, chan, want, len, type, buf>>
  BY <1>1 DEF AtEof
<1>3. PICK how : how = IF want = "prefix" /\ buf = << >> THEN "eof" ELSE "lost"
  BY Zenon
<1>4. how \in {"eof", "lost"} /\ Leave(how) /\ (how = "eof" => want = "prefix" /\ buf = << >>)
  BY <1>2, <1>3
<1>5. RecvType /\ SendType
  BY DEF WireInv
<1>6. WireInv'
  <2>1. chan' \in Seq(Byte) /\ buf' \in Seq(Byte) /\ want' \in {"prefix", "type", "payload"}
    BY <1>2, <1>5 DEF RecvType
  <2>2. UNCHANGED <<sender, version, send_vars>> /\ how # "open" /\ ~(how \in {"refused", "malformed"})
    BY <1>2, <1>4
  <2> QED BY <1>4, <2>1, <2>2, Leaves
<1>7. ASSUME how = "eof" PROVE got = sent /\ ~Half
  <2>1. conn # "reset"
    BY <1>2
  <2>3. PICK fs \in Seq(Message) : \E b \in [0 .. Len(fs) -> Nat] : \E S \in Seq(Byte) :
              \E r, w \in Nat : Flow(fs, b, S, r, w)
    BY <2>1 DEF WireInv, Stream
  <2>4. PICK b \in [0 .. Len(fs) -> Nat] : \E S \in Seq(Byte) : \E r, w \in Nat : Flow(fs, b, S, r, w)
    BY <2>3
  <2>5. PICK S \in Seq(Byte) : \E r, w \in Nat : Flow(fs, b, S, r, w)
    BY <2>4
  <2>6. PICK r \in Nat, w \in Nat : Flow(fs, b, S, r, w)
    BY <2>5
  <2>7. PICK g \in Nat : g = Len(got)
    BY <1>5 DEF RecvType
  <2>8. PICK x \in Nat : x = b[g] /\ g \in 0 .. Len(fs)
    BY <1>5, <2>6, <2>7, Where
  <2>9. r = x /\ w = x
    <3>1. Len(buf) = 0 /\ Len(chan) = 0
      BY <1>2, <1>4, <1>7
    <3>2. Pos = 0
      BY <1>4, <1>7, <3>1 DEF Pos
    <3>3. r = x + 0
      BY <2>6, <2>7, <2>8, <3>2 DEF Flow, Reads
    <3>4. r + 0 = w
      BY <2>6, <3>1 DEF Flow, Carries
    <3> QED BY <3>3, <3>4
  <2>10. PICK s \in Nat : s = Len(sent)
    BY <1>5 DEF SendType
  <2>11. PICK f \in Nat : f = Len(fs)
    OBVIOUS
  <2>12. /\ s <= f /\ f <= s + 1 /\ b[s] <= w /\ (s < f => w < Len(S)) /\ (Half <=> b[s] < w)
         /\ \A i \in 1 .. s : sent[i] = fs[i]
    BY <2>6, <2>10, <2>11 DEF Flow, Writes
  <2>13. /\ b[f] = Len(S)
         /\ \A j, k \in 0 .. f : j < k => b[j] < b[k]
    BY <2>6, <2>11 DEF Flow, IsStream
  <2>14. s \in 0 .. f /\ g \in 0 .. f /\ f \in 0 .. f
    BY <2>8, <2>11, <2>12
  <2>15. PICK y \in Nat : y = b[s]
    BY <2>11, <2>14
  <2>16. ~(g < s)
    <3>1. ASSUME g < s PROVE FALSE
      <4>1. b[g] < b[s]
        BY <2>13, <2>14, <3>1
      <4> QED BY <2>8, <2>9, <2>12, <2>15, <4>1
    <3> QED BY <3>1
  <2>17. ~(s < g)
    <3>1. ASSUME s < g PROVE FALSE
      <4>1. g = f /\ s < f
        BY <2>12, <2>14, <3>1
      <4>2. x = Len(S) /\ w < Len(S)
        BY <2>8, <2>12, <2>13, <4>1
      <4> QED BY <2>9, <4>2
    <3> QED BY <3>1
  <2>18. g = s
    BY <2>16, <2>17
  <2>19. \A i \in 1 .. g : got[i] = sent[i]
    BY <2>6, <2>7, <2>12, <2>18 DEF Flow, Reads
  <2>20. got = sent
    BY <1>5, <2>7, <2>10, <2>18, <2>19, SameSeq DEF RecvType, SendType
  <2>21. ~(b[s] < w)
    BY <2>8, <2>9, <2>18
  <2> QED BY <2>12, <2>20, <2>21
<1> QED BY <1>2, <1>4, <1>6, <1>7 DEF Leave

\* read() fails.
LEMMA ReadFailsStep ==
  ASSUME WireInv, ReadFails
  PROVE  WireInv' /\ got' = got /\ ended = "open" /\ ended' = "lost"
<1>1. Leave("lost") /\ UNCHANGED <<sender, version, send_vars, chan, want, len, type, buf>> /\ ended = "open"
  BY DEF ReadFails
<1>2. chan' \in Seq(Byte) /\ buf' \in Seq(Byte) /\ want' \in {"prefix", "type", "payload"}
  BY <1>1 DEF WireInv, RecvType
<1>3. UNCHANGED <<sender, version, send_vars>>
  BY <1>1
<1>4. WireInv'
  BY <1>1, <1>2, <1>3, Leaves
<1> QED BY <1>1, <1>4 DEF Leave

-----------------------------------------------------------------------------
(***************************************************************************)
(* The senders and the connection.                                         *)
(***************************************************************************)

\* No step of a sender is seen by the receiver but for the bytes in the socket.
LEMMA ReceiverStays ==
  ASSUME UNCHANGED <<sender, version, recv_vars>>
  PROVE  /\ \A fs, b, S, r : Reads(fs, b, S, r) => Reads(fs, b, S, r)'
         /\ \A fs : Starts(fs) => Starts(fs)'
         /\ \A fs, b, S : IsStream(version, fs, b, S) => IsStream(version, fs, b, S)'
         /\ NeverRefused => NeverRefused'
         /\ RecvType /\ chan' \in Seq(Byte) => RecvType'
         /\ \A S, r, w : chan' = chan => (Carries(S, r, w) => Carries(S, r, w)')
<1>0. /\ sender' = sender /\ version' = version /\ want' = want /\ len' = len /\ type' = type /\ buf' = buf
      /\ got' = got /\ ended' = ended
  BY DEF recv_vars
<1>1. ASSUME NEW fs, NEW b, NEW S, NEW r, Reads(fs, b, S, r) PROVE Reads(fs, b, S, r)'
  <2>1. Pos' = Pos
    BY <1>0 DEF Pos
  <2> QED BY <1>0, <1>1, <2>1 DEF Reads
<1>2. \A fs : Starts(fs) => Starts(fs)'
  BY <1>0 DEF Starts
<1>3. \A fs, b, S : IsStream(version, fs, b, S) => IsStream(version, fs, b, S)'
  BY <1>0 DEF IsStream
<1>4. NeverRefused => NeverRefused'
  BY <1>0 DEF NeverRefused
<1>5. RecvType /\ chan' \in Seq(Byte) => RecvType'
  BY <1>0 DEF RecvType
<1>6. \A S, r, w : chan' = chan => (Carries(S, r, w) => Carries(S, r, w)')
  BY DEF Carries
<1> QED BY <1>1, <1>2, <1>3, <1>4, <1>5, <1>6

\* A step of a sender that writes nothing and, if the connection is open, leaves
\* the mutex alone.
LEMMA NothingWritten ==
  ASSUME WireInv, UNCHANGED <<sender, version, recv_vars, chan, sent>>,
         Half' <=> Half, conn' = conn \/ (conn = "open" /\ conn' = "closed"),
         conn' = "open" => write_mu' = write_mu /\ iov' = iov,
         conn' = "open" => \A t \in Thread : write_mu = t => msg'[t] = msg[t]
  PROVE  Stream' /\ RecvType' /\ NeverRefused'
<1>0. UNCHANGED <<sender, version, recv_vars>> /\ chan' = chan /\ chan \in Seq(Byte)
  BY DEF WireInv, RecvType
<1>1. RecvType' /\ NeverRefused'
  BY <1>0, ReceiverStays DEF WireInv
<1>2. ASSUME conn' # "reset" PROVE Stream'
  <2>1. conn # "reset"
    BY <1>2
  <2>3. PICK fs \in Seq(Message) : \E b \in [0 .. Len(fs) -> Nat] : \E S \in Seq(Byte) :
              \E r, w \in Nat : Flow(fs, b, S, r, w)
    BY <2>1 DEF WireInv, Stream
  <2>4. PICK b \in [0 .. Len(fs) -> Nat] : \E S \in Seq(Byte) : \E r, w \in Nat : Flow(fs, b, S, r, w)
    BY <2>3
  <2>5. PICK S \in Seq(Byte) : \E r, w \in Nat : Flow(fs, b, S, r, w)
    BY <2>4
  <2>6. PICK r \in Nat, w \in Nat : Flow(fs, b, S, r, w)
    BY <2>5
  <2>7. Reads(fs, b, S, r)' /\ Starts(fs)' /\ IsStream(version, fs, b, S)' /\ Carries(S, r, w)'
    BY <1>0, <2>6, ReceiverStays DEF Flow
  <2>8. Writes(fs, b, S, w)'
    <3>1. Writes(fs, b, S, w)
      BY <2>6 DEF Flow
    <3>2. ASSUME conn' = "open", NEW t \in Thread, write_mu' = t PROVE Holds(t, fs, S, w)'
      <4>1. write_mu = t /\ conn = "open" /\ msg'[t] = msg[t] /\ iov' = iov /\ sent' = sent
        BY <3>2
      <4>2. Holds(t, fs, S, w)
        BY <3>1, <4>1 DEF Writes
      <4> QED BY <4>1, <4>2 DEF Holds
    <3>3. sent' = sent /\ (conn' = "open" => write_mu' = write_mu /\ conn = "open")
      OBVIOUS
    <3>4. conn' = "open" /\ write_mu' = None => fs = sent'
      BY <3>1, <3>3 DEF Writes
    <3> QED BY <3>1, <3>2, <3>3, <3>4 DEF Writes
  <2>9. Flow(fs, b, S, r, w)'
    BY <2>7, <2>8 DEF Flow
  <2> QED BY <2>9 DEF Stream
<1>3. conn' = "reset" => Stream'
  BY DEF Stream
<1> QED BY <1>1, <1>2, <1>3

\* A send begins.
LEMMA BeginSendStep ==
  ASSUME WireInv, NEW t \in Thread, NEW m \in Sends, BeginSend(t, m)
  PROVE  WireInv' /\ (Half' <=> Half)
<1>0. /\ conn = "open" /\ msg[t] = None /\ Sendable(version, m)
      /\ sender = "client" => \A u \in Thread : msg[u] = None
      /\ msg' = [msg EXCEPT ![t] = m] /\ begun' = begun + 1
      /\ UNCHANGED <<sender, version, iov, write_mu, sent, cut, conn, chan, recv_vars>>
  BY DEF BeginSend
<1>1. m \in Message /\ m # None
  BY MessageFacts DEF Sends, Message
<1>2. SendType /\ ConnType /\ IntroFirst
  BY DEF WireInv
<1>3. msg'[t] = m /\ \A u \in Thread : u # t => msg'[u] = msg[u]
  BY <1>0, <1>2 DEF SendType
<1>4. write_mu # t /\ iov[t] = << >>
  BY <1>0, <1>2 DEF SendType
<1>5. SendType'
  <2>1. msg' \in [Thread -> Message \cup {None}]
    BY <1>0, <1>1, <1>2 DEF SendType
  <2>2. \A u \in Thread : msg'[u] # None => Sendable(version, msg'[u])
    BY <1>0, <1>2, <1>3 DEF SendType
  <2>3. \A u \in Thread : write_mu = u => msg'[u] # None
    BY <1>2, <1>3, <1>4 DEF SendType
  <2> QED BY <1>0, <1>2, <2>1, <2>2, <2>3 DEF SendType
<1>6. ConnType'
  BY <1>0, <1>2 DEF ConnType, recv_vars
<1>7. IntroFirst'
  <2>1. ASSUME sender = "client"
        PROVE  /\ \A u, v \in Thread : msg'[u] # None /\ msg'[v] # None => u = v
               /\ msg'[t] # None
               /\ sent = << >> => m \in Intro
    <3>1. \A u \in Thread : msg[u] = None
      BY <1>0, <2>1
    <3>2. \A u \in Thread : u # t => msg'[u] = None
      BY <1>3, <3>1
    <3>3. sent = << >> => begun = 0
      BY <1>0, <1>2, <2>1, <3>1 DEF IntroFirst
    <3>4. begun = 0 => m \in Intro
      BY <2>1 DEF Sends
    <3> QED BY <1>1, <1>3, <3>2, <3>3, <3>4
  <2>2. begun' # 0
    BY <1>0, <1>2 DEF SendType
  <2>3. ASSUME sender = "client", sent = << >> PROVE \A u \in Thread : msg'[u] \in Intro \cup {None}
    BY <1>0, <1>3, <2>1, <2>3
  <2> QED BY <1>0, <2>1, <2>2, <2>3 DEF IntroFirst
<1>8. Half' <=> Half
  <2>1. ASSUME NEW u \in Thread PROVE HalfSent(u)' <=> HalfSent(u)
    <3>1. CASE u = t
      BY <1>0, <1>4, <3>1 DEF HalfSent
    <3>2. CASE u # t
      BY <1>0, <1>3, <3>2 DEF HalfSent, Iov
    <3> QED BY <3>1, <3>2
  <2> QED BY <1>0, <2>1 DEF Half
<1>9. Stream' /\ RecvType' /\ NeverRefused'
  <2>1. UNCHANGED <<sender, version, recv_vars, chan, sent, write_mu, iov>> /\ conn' = conn
    BY <1>0
  <2>2. \A u \in Thread : write_mu = u => msg'[u] = msg[u]
    BY <1>3, <1>4
  <2> QED BY <1>8, <2>1, <2>2, NothingWritten
<1> QED BY <1>5, <1>6, <1>7, <1>8, <1>9 DEF WireInv

\* The connection is closed.
LEMMA CloseStep ==
  ASSUME WireInv, Close
  PROVE  WireInv' /\ (Half' <=> Half)
<1>0. conn = "open" /\ conn' = "closed" /\ UNCHANGED <<sender, version, send_vars, chan, recv_vars>>
  BY DEF Close
<1>1. SendType' /\ IntroFirst'
  BY <1>0, SenderStays DEF WireInv, IntroFirst
<1>2. ConnType'
  BY <1>0 DEF WireInv, ConnType, recv_vars
<1>3. Half' <=> Half
  BY <1>0 DEF Half, HalfSent, Iov, send_vars
<1>4. Stream' /\ RecvType' /\ NeverRefused'
  <2>1. UNCHANGED <<sender, version, recv_vars, chan, sent, write_mu, iov>>
    BY <1>0 DEF send_vars
  <2> QED BY <1>0, <1>3, <2>1, NothingWritten
<1> QED BY <1>1, <1>2, <1>3, <1>4 DEF WireInv

\* The connection is reset.
LEMMA ResetStep ==
  ASSUME WireInv, Reset
  PROVE  WireInv' /\ (Half' <=> Half)
<1>0. conn' = "reset" /\ chan' = << >> /\ UNCHANGED <<sender, version, send_vars, recv_vars>>
  BY DEF Reset
<1>1. SendType' /\ IntroFirst'
  BY <1>0, SenderStays DEF WireInv, IntroFirst
<1>2. ConnType'
  BY <1>0 DEF WireInv, ConnType, recv_vars
<1>3. Half' <=> Half
  BY <1>0 DEF Half, HalfSent, Iov, send_vars
<1>4. Stream'
  BY <1>0 DEF Stream
<1>5. RecvType' /\ NeverRefused'
  <2>1. << >> \in Seq(Byte)
    OBVIOUS
  <2>2. UNCHANGED <<sender, version, recv_vars>>
    BY <1>0
  <2> QED BY <1>0, <2>1, <2>2, ReceiverStays DEF WireInv
<1> QED BY <1>1, <1>2, <1>3, <1>4, <1>5 DEF WireInv

\* A send fails; what it had written stays half a frame.
LEMMA WriteFailsStep ==
  ASSUME WireInv, NEW t \in Thread, WriteFails(t)
  PROVE  WireInv' /\ (Half' <=> Half)
<1>0. /\ conn # "open" /\ msg[t] # None
      /\ iov' = [iov EXCEPT ![t] = << >>]
      /\ msg' = [msg EXCEPT ![t] = None]
      /\ write_mu' = IF write_mu = t THEN None ELSE write_mu
      /\ cut' = (cut \/ HalfSent(t))
      /\ UNCHANGED <<sender, version, begun, sent, conn, chan, recv_vars>>
  BY DEF WriteFails
<1>1. SendType /\ ConnType
  BY DEF WireInv
<1>2. /\ iov'[t] = << >> /\ msg'[t] = None
      /\ \A u \in Thread : u # t => iov'[u] = iov[u] /\ msg'[u] = msg[u]
  BY <1>0, <1>1 DEF SendType
<1>3. \A u \in Thread : None # u
  BY ThreadAssumption
<1>4. SendType'
  <2>1. << >> \in Seq(Seq(Byte)) /\ Solid(<< >>)
    BY DEF Solid
  <2>2. iov' \in [Thread -> Seq(Seq(Byte))] /\ msg' \in [Thread -> Message \cup {None}]
    BY <1>0, <1>1, <2>1 DEF SendType
  <2>3. \A u \in Thread : Solid(iov'[u])
    BY <1>1, <1>2, <2>1 DEF SendType
  <2>4. \A u \in Thread : msg'[u] # None => Sendable(version, msg'[u])
    BY <1>1, <1>2 DEF SendType
  <2>5. \A u \in Thread : iov'[u] # << >> <=> write_mu' = u
    BY <1>0, <1>1, <1>2, <1>3 DEF SendType
  <2>6. \A u \in Thread : write_mu' = u => msg'[u] # None
    BY <1>0, <1>1, <1>2, <1>3 DEF SendType
  <2>7. write_mu' \in Thread \cup {None}
    BY <1>0, <1>1 DEF SendType
  <2> QED BY <1>0, <1>1, <2>2, <2>3, <2>4, <2>5, <2>6, <2>7 DEF SendType
<1>5. ConnType' /\ IntroFirst'
  BY <1>0, <1>1 DEF ConnType, IntroFirst, recv_vars
<1>6. Half' <=> Half
  <2>1. ~HalfSent(t)'
    BY <1>2 DEF HalfSent
  <2>2. ASSUME NEW u \in Thread, u # t PROVE HalfSent(u)' <=> HalfSent(u)
    BY <1>0, <1>2, <2>2 DEF HalfSent, Iov
  <2> QED BY <1>0, <2>1, <2>2 DEF Half
<1>7. Stream' /\ RecvType' /\ NeverRefused'
  <2>1. UNCHANGED <<sender, version, recv_vars, chan, sent>> /\ conn' = conn /\ conn' # "open"
    BY <1>0
  <2> QED BY <1>6, <2>1, NothingWritten
<1> QED BY <1>4, <1>5, <1>6, <1>7 DEF WireInv

\* The mutex is taken: the stream ends with one more frame, none of which is
\* written.
LEMMA SendLockStep ==
  ASSUME WireInv, NEW t \in Thread, SendLock(t)
  PROVE  WireInv' /\ (Half' <=> Half)
<1>0. /\ msg[t] # None /\ iov[t] = << >> /\ write_mu = None /\ write_mu' = t
      /\ iov' = [iov EXCEPT ![t] = Iov(msg[t])]
      /\ UNCHANGED <<sender, version, msg, begun, sent, cut, conn, chan, recv_vars>>
  BY DEF SendLock
<1>1. SendType /\ ConnType /\ IntroFirst /\ RecvType
  BY DEF WireInv
<1>2. iov'[t] = Iov(msg[t]) /\ \A u \in Thread : u # t => iov'[u] = iov[u]
  BY <1>0, <1>1 DEF SendType
<1>3. PICK m \in Message : m = msg[t] /\ Sendable(version, m)
  BY <1>0, <1>1 DEF SendType
<1>4. version \in Byte
  BY <1>1, VersionFacts
<1>5. PICK E : E = Flat(Iov(m))
  BY Zenon
<1>6. /\ Iov(m) \in Seq(Seq(Byte)) /\ Solid(Iov(m)) /\ Iov(m) # << >>
      /\ E \in Seq(Byte) /\ Total(Iov(m)) = Len(E)
      /\ IsFrame(E, 0, Len(E), m.type, Payload(version, m))
  BY <1>3, <1>4, <1>5, IovFacts
<1>7. SendType'
  <2>1. iov' \in [Thread -> Seq(Seq(Byte))]
    BY <1>0, <1>1, <1>3, <1>6 DEF SendType
  <2>2. \A u \in Thread : Solid(iov'[u])
    BY <1>1, <1>2, <1>3, <1>6 DEF SendType
  <2>3. \A u \in Thread : iov'[u] # << >> <=> write_mu' = u
    <3>1. \A u \in Thread : iov[u] = << >>
      BY <1>0, <1>1, ThreadAssumption DEF SendType
    <3> QED BY <1>0, <1>2, <1>3, <1>6, <3>1
  <2>4. \A u \in Thread : write_mu' = u => msg'[u] # None
    BY <1>0
  <2> QED BY <1>0, <1>1, <2>1, <2>2, <2>3, <2>4 DEF SendType
<1>8. ConnType' /\ IntroFirst'
  BY <1>0, <1>1 DEF ConnType, IntroFirst, recv_vars
<1>9. Half' <=> Half
  <2>1. ~HalfSent(t)
    BY <1>0 DEF HalfSent
  <2>2. ~HalfSent(t)'
    <3>1. PICK k \in Nat : k = Total(Iov(m))
      BY <1>6
    <3>2. iov'[t] = Iov(m) /\ msg'[t] = m /\ Iov(m)' = Iov(m)
      BY <1>0, <1>2, <1>3 DEF Iov
    <3>3. Iov(msg[t])' = Iov(m)
      BY <1>0, <1>3 DEF Iov
    <3>4. ~(Total(iov'[t]) < Total(Iov(msg[t])'))
      BY <3>1, <3>2, <3>3
    <3> QED BY <3>2, <3>3, <3>4 DEF HalfSent, Total, Before
  <2>3. ASSUME NEW u \in Thread, u # t PROVE HalfSent(u)' <=> HalfSent(u)
    BY <1>0, <1>2, <2>3 DEF HalfSent, Iov
  <2> QED BY <1>0, <2>1, <2>2, <2>3 DEF Half
<1>10. CASE conn # "open"
  <2>1. UNCHANGED <<sender, version, recv_vars, chan, sent>> /\ conn' = conn /\ conn' # "open"
    BY <1>0, <1>10
  <2>2. Stream' /\ RecvType' /\ NeverRefused'
    BY <1>9, <2>1, NothingWritten
  <2> QED BY <1>7, <1>8, <1>9, <2>2 DEF WireInv
<1>11. CASE conn = "open"
  <2>1. conn # "reset" /\ chan' = chan /\ chan \in Seq(Byte) /\ UNCHANGED <<sender, version, recv_vars>>
    BY <1>0, <1>1, <1>11 DEF RecvType
  <2>2. RecvType' /\ NeverRefused'
    BY <1>1, <2>1, ReceiverStays DEF WireInv
  <2>3. PICK fs \in Seq(Message) : \E b \in [0 .. Len(fs) -> Nat] : \E S \in Seq(Byte) :
              \E r, w \in Nat : Flow(fs, b, S, r, w)
    BY <2>1 DEF WireInv, Stream
  <2>4. PICK b \in [0 .. Len(fs) -> Nat] : \E S \in Seq(Byte) : \E r, w \in Nat : Flow(fs, b, S, r, w)
    BY <2>3
  <2>5. PICK S \in Seq(Byte) : \E r, w \in Nat : Flow(fs, b, S, r, w)
    BY <2>4
  <2>6. PICK r \in Nat, w \in Nat : Flow(fs, b, S, r, w)
    BY <2>5
  <2>7. Writes(fs, b, S, w) /\ fs = sent
    BY <1>0, <1>11, <2>6 DEF Flow, Writes
  <2>8. PICK f \in Nat : f = Len(fs)
    OBVIOUS
  <2>9. PICK s \in Nat : s = Len(S)
    OBVIOUS
  <2>10. b[f] = s /\ w = s
    <3>1. b[f] = s
      BY <2>6, <2>8, <2>9 DEF Flow, IsStream
    <3>2. b[f] <= w /\ w <= s
      BY <2>6, <2>7, <2>8, <2>9 DEF Flow, Writes, Carries
    <3> QED BY <3>1, <3>2
  <2>11. PICK hs : hs = Append(fs, m)
    BY Zenon
  <2>12. PICK T : T = S \o E
    BY Zenon
  <2>13. PICK d \in [0 .. Len(hs) -> Nat] : IsStream(version, hs, d, T) /\ Longer(fs, b, S, d, T)
    BY <1>3, <1>4, <1>6, <2>6, <2>11, <2>12, StreamExtends DEF Flow
  <2>14. hs \in Seq(Message) /\ Len(hs) = f + 1 /\ hs[f + 1] = m /\ \A i \in 1 .. f : hs[i] = fs[i]
    BY <2>8, <2>11
  <2>15. T \in Seq(Byte) /\ IsJoin(T, S, E)
    <3>1. E \in Seq(Byte)
      BY <1>6
    <3> QED BY <2>12, <3>1, JoinOf, Zenon
  <2>16. PICK e \in Nat : e = Len(E) /\ e > 0
    <3>1. Total(Iov(m)) # 0
      BY <1>6, TotalPositive
    <3>2. Len(E) \in Nat /\ Len(E) > 0
      BY <1>6, <3>1
    <3> QED BY <3>2
  <2>17. /\ Len(T) = s + e
         /\ \A i \in 1 .. e : T[s + i] = E[i]
         /\ \A i \in 1 .. s : T[i] = S[i]
    BY <2>9, <2>15, <2>16 DEF IsJoin
  <2>18. \A k \in 0 .. f : d[k] = b[k]
    BY <2>8, <2>13 DEF Longer
  <2>19. PICK g \in Nat : g = Len(got) /\ g <= f
    <3>1. Len(got) \in Nat /\ Len(got) <= f
      BY <1>1, <2>6, <2>8 DEF RecvType, Flow, Reads
    <3> QED BY <3>1
  <2>20. PICK x \in Nat : x = b[g] /\ r = x + Pos /\ d[g] = x
    <3>1. b[g] \in Nat /\ r = b[g] + Pos
      <4>1. g \in 0 .. Len(fs)
        BY <2>8, <2>19
      <4>2. b[g] \in Nat
        BY <4>1
      <4>3. r = b[g] + Pos
        BY <2>6, <2>19 DEF Flow, Reads
      <4> QED BY <4>2, <4>3
    <3>2. d[g] = b[g]
      BY <2>18, <2>19
    <3> QED BY <3>1, <3>2
  <2>21. r <= s
    BY <1>1, <2>6, <2>10, <2>19, Where
  <2>22. PICK z \in Nat : z = PrefixLen /\ z > 0
    BY PrefixFacts
  <2>23. PICK l \in Nat : l = Len(buf)
    BY <1>1 DEF RecvType
  <2>24. ASSUME want # "prefix" PROVE g < f
    <3>1. Pos > 0
      BY <2>22, <2>23, <2>24 DEF Pos
    <3> QED BY <1>1, <2>6, <2>8, <2>19, <3>1, Where
  <2>25. Reads(hs, d, T, r)
    <3>1. g <= Len(hs) /\ \A i \in 1 .. g : got[i] = hs[i]
      <4>1. \A i \in 1 .. g : got[i] = fs[i] /\ i \in 1 .. f
        BY <2>6, <2>19 DEF Flow, Reads
      <4> QED BY <2>14, <2>19, <4>1
    <3>2. r = d[g] + Pos
      BY <2>20
    <3>3. ASSUME want = "prefix"
          PROVE  l < PrefixLen /\ \A i \in 1 .. l : buf[i] = T[d[g] + i]
      <4>1. l < PrefixLen /\ \A i \in 1 .. l : buf[i] = S[x + i]
        BY <2>6, <2>19, <2>20, <2>23, <3>3 DEF Flow, Reads
      <4>2. r = x + l
        BY <2>20, <2>23, <3>3 DEF Pos
      <4>3. \A i \in 1 .. l : x + i \in 1 .. s
        BY <2>21, <4>2
      <4> QED BY <2>17, <2>20, <4>1, <4>3
    <3>4. ASSUME want # "prefix" PROVE hs[g + 1] = fs[g + 1]
      <4>1. g + 1 \in 1 .. f
        BY <2>24, <3>4
      <4> QED BY <2>14, <4>1
    <3>5. ASSUME want = "payload"
          PROVE  \A i \in 1 .. l : buf[i] = T[d[g] + PrefixLen + 1 + i]
      <4>1. \A i \in 1 .. l : buf[i] = S[x + z + 1 + i]
        BY <2>6, <2>19, <2>20, <2>22, <2>23, <3>5 DEF Flow, Reads
      <4>2. r = x + (z + 1 + l)
        BY <2>20, <2>22, <2>23, <3>5 DEF Pos
      <4>3. \A i \in 1 .. l : x + z + 1 + i \in 1 .. s
        BY <2>21, <4>2
      <4> QED BY <2>17, <2>20, <2>22, <4>1, <4>3
    <3>6. Reads(fs, b, S, r)
      BY <2>6 DEF Flow
    <3> QED BY <2>19, <2>23, <3>1, <3>2, <3>3, <3>4, <3>5, <3>6 DEF Reads
  <2>26. Starts(hs)
    <3>1. ASSUME sender = "client" PROVE hs[1] \in Intro
      <4>1. CASE f = 0
        <5>1. sent = << >>
          BY <2>7, <2>8, <4>1, NoBytes
        <5>2. m \in Intro
          BY <1>0, <1>1, <1>3, <1>11, <3>1, <5>1 DEF IntroFirst
        <5> QED BY <2>14, <4>1, <5>2
      <4>2. CASE f # 0
        <5>1. 1 \in 1 .. f
          BY <4>2
        <5>2. fs[1] \in Intro
          BY <2>6, <2>8, <3>1, <5>1 DEF Flow, Starts
        <5> QED BY <2>14, <5>1, <5>2
      <4> QED BY <4>1, <4>2
    <3> QED BY <3>1 DEF Starts
  <2>27. Carries(T, r, w)
    <3>1. Len(chan) \in Nat /\ r + Len(chan) = w /\ \A i \in 1 .. Len(chan) : chan[i] = S[r + i]
      BY <1>1, <2>6 DEF RecvType, Flow, Carries
    <3>2. \A i \in 1 .. Len(chan) : r + i \in 1 .. s
      BY <2>10, <3>1
    <3>3. w <= Len(T)
      BY <2>10, <2>17
    <3> QED BY <2>17, <3>1, <3>2, <3>3 DEF Carries
  <2>28. Holds(t, hs, T, w)'
    <3>1. sent' = sent /\ msg'[t] = m /\ iov'[t] = Iov(m) /\ msg' = msg
      BY <1>0, <1>2, <1>3
    <3>2. hs = Append(sent, m)
      BY <2>7, <2>11
    <3>3. w + e = Len(T) /\ Total(Iov(m)) = e /\ Flat(Iov(m)) = E
      BY <1>5, <1>6, <2>10, <2>16, <2>17
    <3>4. \A i \in 1 .. e : E[i] = T[w + i]
      BY <2>10, <2>17
    <3>5. /\ hs = Append(sent', msg'[t])
          /\ w + Total(iov'[t]) = Len(T)
          /\ \A i \in 1 .. Total(iov'[t]) : Flat(iov'[t])[i] = T[w + i]
      BY <3>1, <3>2, <3>3, <3>4
    <3> QED BY <3>5 DEF Holds, Total, Before, Flat
  <2>29. Writes(hs, d, T, w)'
    <3>1. sent' = sent /\ Len(sent) = f /\ fs = sent
      BY <1>0, <2>7, <2>8
    <3>2. d[f] = s /\ (Half <=> b[f] < w)
      BY <2>7, <2>8, <2>10, <2>18 DEF Writes
    <3>3. Half' <=> d[f] < w
      BY <1>9, <2>10, <3>2
    <3>4. f < Len(hs) => w < Len(T)
      BY <2>10, <2>16, <2>17
    <3>5. \A i \in 1 .. f : sent[i] = hs[i]
      BY <2>14, <3>1
    <3>6. write_mu' # None /\ \A u \in Thread : write_mu' = u => u = t
      BY <1>0, ThreadAssumption
    <3>7. f <= Len(hs) /\ Len(hs) <= f + 1 /\ d[f] <= w
      BY <2>10, <2>14, <3>2
    <3> QED BY <2>28, <3>1, <3>3, <3>4, <3>5, <3>6, <3>7 DEF Writes
  <2>30. Reads(hs, d, T, r)' /\ Starts(hs)' /\ IsStream(version, hs, d, T)' /\ Carries(T, r, w)'
    BY <2>1, <2>13, <2>25, <2>26, <2>27, ReceiverStays
  <2>31. Flow(hs, d, T, r, w)'
    BY <2>29, <2>30 DEF Flow
  <2>32. Stream'
    BY <2>14, <2>15, <2>31 DEF Stream
  <2> QED BY <1>7, <1>8, <1>9, <2>2, <2>32 DEF WireInv
<1> QED BY <1>10, <1>11

\* writev() takes n bytes; with the last of them the send has succeeded.
LEMMA WritevStep ==
  ASSUME WireInv, NEW t \in Thread, NEW n \in Nat, n > 0, Writev(t, n)
  PROVE  /\ WireInv'
         /\ ended = "open" /\ UNCHANGED <<got, ended>>
         /\ \/ Half' /\ sent' = sent
            \/ ~Half' /\ \E m \in Message : sent' = Append(sent, m)
<1>0. /\ iov[t] # << >> /\ conn = "open" /\ n <= Total(iov[t])
      /\ chan' = chan \o Gather(iov[t], n)
      /\ iov' = [iov EXCEPT ![t] = Advance(@, n)]
      /\ iov'[t] = << >> => /\ sent' = Append(sent, msg[t])
                            /\ msg' = [msg EXCEPT ![t] = None]
                            /\ write_mu' = None
      /\ iov'[t] # << >> => UNCHANGED <<sent, msg, write_mu>>
      /\ UNCHANGED <<sender, version, begun, cut, conn, recv_vars>>
  BY DEF Writev, Write
<1>1. SendType /\ ConnType /\ IntroFirst /\ RecvType
  BY DEF WireInv
<1>2. write_mu = t /\ msg[t] # None /\ \A u \in Thread : u # t => iov[u] = << >>
  BY <1>0, <1>1 DEF SendType
<1>3. PICK m \in Message : m = msg[t] /\ Sendable(version, m)
  BY <1>1, <1>2 DEF SendType
<1>4. version \in Byte /\ ended = "open" /\ ~cut
  BY <1>0, <1>1, VersionFacts DEF ConnType
<1>5. PICK v \in Seq(Seq(Byte)) : v = iov[t] /\ Solid(v)
  BY <1>1 DEF SendType
<1>6. PICK k \in Nat : k = Total(v) /\ n <= k
  <2>1. Total(v) \in Nat
    BY <1>5, TotalPositive
  <2>2. n <= Total(v)
    BY <1>0, <1>5
  <2> QED BY <2>1, <2>2
<1>7. PICK q : q = Advance(v, n)
  BY Zenon
<1>8. q \in Seq(Seq(Byte)) /\ Solid(q) /\ Total(q) = k - n /\ \A i \in 1 .. k - n : Flat(q)[i] = Flat(v)[n + i]
  <2>1. n <= Total(v)
    BY <1>6
  <2> QED BY <1>5, <1>6, <1>7, <2>1, AdvanceFacts
<1>9. iov'[t] = q /\ \A u \in Thread : u # t => iov'[u] = << >>
  BY <1>0, <1>1, <1>2, <1>5, <1>7 DEF SendType
<1>10. q = << >> <=> k - n = 0
  BY <1>8, TotalPositive
<1>11. q = << >> => msg'[t] = None /\ \A u \in Thread : u # t => msg'[u] = msg[u]
  BY <1>0, <1>1, <1>9 DEF SendType
<1>12. \A u \in Thread : None # u
  BY ThreadAssumption
<1>13. SendType'
  <2>1. iov' \in [Thread -> Seq(Seq(Byte))]
    BY <1>0, <1>1, <1>5, <1>7, <1>8 DEF SendType
  <2>2. Solid(<< >>)
    BY DEF Solid
  <2>3. \A u \in Thread : Solid(iov'[u])
    BY <1>8, <1>9, <2>2
  <2>4. CASE q = << >>
    <3>1. sent' = Append(sent, m) /\ msg' = [msg EXCEPT ![t] = None] /\ write_mu' = None
      BY <1>0, <1>3, <1>9, <2>4
    <3>2. sent' \in Seq(Message) /\ msg' \in [Thread -> Message \cup {None}]
      BY <1>1, <3>1 DEF SendType
    <3>3. \A u \in Thread : iov'[u] # << >> <=> write_mu' = u
      BY <1>9, <1>12, <2>4, <3>1
    <3>4. \A u \in Thread : msg'[u] # None => Sendable(version, msg'[u])
      BY <1>1, <1>11, <2>4 DEF SendType
    <3>5. \A u \in Thread : write_mu' = u => msg'[u] # None
      BY <1>12, <3>1
    <3> QED BY <1>0, <1>1, <2>1, <2>3, <3>1, <3>2, <3>3, <3>4, <3>5 DEF SendType
  <2>5. CASE q # << >>
    <3>1. sent' = sent /\ msg' = msg /\ write_mu' = write_mu
      BY <1>0, <1>9, <2>5
    <3>2. \A u \in Thread : iov'[u] # << >> <=> write_mu' = u
      BY <1>2, <1>9, <2>5, <3>1
    <3> QED BY <1>0, <1>1, <2>1, <2>3, <3>1, <3>2 DEF SendType
  <2> QED BY <2>4, <2>5
<1>14. ConnType'
  BY <1>0, <1>1, <1>4 DEF ConnType, recv_vars
<1>15. IntroFirst'
  <2>1. CASE q = << >>
    <3>1. sent' # << >>
      BY <1>0, <1>1, <1>9, <2>1 DEF SendType
    <3>2. \A u \in Thread : msg'[u] # None => msg[u] # None
      BY <1>2, <1>11, <2>1
    <3>3. sender = "client" => begun # 0
      BY <1>0, <1>1, <1>2 DEF IntroFirst
    <3> QED BY <1>0, <1>1, <3>1, <3>2, <3>3 DEF IntroFirst
  <2>2. CASE q # << >>
    BY <1>0, <1>1, <1>9, <2>2 DEF IntroFirst
  <2> QED BY <2>1, <2>2
<1>16. conn # "reset" /\ UNCHANGED <<sender, version, recv_vars>>
  BY <1>0
<1>17. PICK fs \in Seq(Message) : \E b \in [0 .. Len(fs) -> Nat] : \E S \in Seq(Byte) :
              \E r, w \in Nat : Flow(fs, b, S, r, w)
  BY <1>16 DEF WireInv, Stream
<1>18. PICK b \in [0 .. Len(fs) -> Nat] : \E S \in Seq(Byte) : \E r, w \in Nat : Flow(fs, b, S, r, w)
  BY <1>17
<1>19. PICK S \in Seq(Byte) : \E r, w \in Nat : Flow(fs, b, S, r, w)
  BY <1>18
<1>20. PICK r \in Nat, w \in Nat : Flow(fs, b, S, r, w)
  BY <1>19
<1>21. fs = Append(sent, m) /\ w + k = Len(S) /\ \A i \in 1 .. k : Flat(v)[i] = S[w + i]
  BY <1>0, <1>2, <1>3, <1>5, <1>6, <1>20 DEF Flow, Writes, Holds
<1>22. PICK s \in Nat : s = Len(sent)
  BY <1>1 DEF SendType
<1>23. Len(fs) = s + 1 /\ \A i \in 1 .. s : sent[i] = fs[i]
  BY <1>1, <1>21, <1>22 DEF SendType
<1>24. PICK y \in Nat : y = b[s] /\ y <= w
  <2>1. b[s] \in Nat /\ b[s] <= w
    <3>1. s \in 0 .. Len(fs)
      BY <1>23
    <3> QED BY <1>20, <1>22, <3>1 DEF Flow, Writes
  <2> QED BY <2>1
<1>25. b[s + 1] = Len(S)
  BY <1>20, <1>23 DEF Flow, IsStream
<1>26. PICK h \in Nat : h = k - n /\ h + n = k
  <2>1. k - n \in Nat /\ (k - n) + n = k
    BY <1>6
  <2> QED BY <2>1
<1>27. PICK x \in Nat : x = w + n
  OBVIOUS
<1>28. chan' \in Seq(Byte) /\ Carries(S, r, x)'
  <2>1. PICK c \in Seq(Byte) : c = chan
    BY <1>1 DEF RecvType
  <2>2. PICK a : a = SubSeq(Flat(v), 1, n)
    BY Zenon
  <2>3. a \in Seq(Byte) /\ Len(a) = n /\ \A i \in 1 .. n : a[i] = Flat(v)[i]
    <3>1. Flat(v) \in Seq(Byte) /\ n \in 0 .. Len(Flat(v))
      <4>1. Flat(v) \in Seq(Byte) /\ Len(Flat(v)) = k
        BY <1>5, <1>6, FlatFacts
      <4> QED BY <1>6, <4>1
    <3> QED BY <2>2, <3>1, FirstFacts
  <2>4. PICK e : e = c \o a
    BY Zenon
  <2>5. e \in Seq(Byte) /\ IsJoin(e, c, a)
    <3>1. a \in Seq(Byte)
      BY <2>3
    <3> QED BY <2>4, <3>1, JoinOf, Zenon
  <2>6. chan' = e
    BY <1>0, <1>5, <2>1, <2>2, <2>4 DEF Gather
  <2>7. PICK l \in Nat : l = Len(c) /\ r + l = w /\ \A i \in 1 .. l : c[i] = S[r + i]
    <3>1. Len(c) \in Nat /\ r + Len(c) = w /\ \A i \in 1 .. Len(c) : c[i] = S[r + i]
      BY <1>20, <2>1 DEF Flow, Carries
    <3> QED BY <3>1
  <2>8. Len(e) = l + n /\ (\A i \in 1 .. l : e[i] = c[i]) /\ \A i \in 1 .. n : e[l + i] = a[i]
    BY <2>3, <2>5, <2>7 DEF IsJoin
  <2>9. ASSUME NEW i \in 1 .. l + n PROVE e[i] = S[r + i]
    <3>1. CASE i <= l
      <4>1. i \in 1 .. l
        BY <3>1
      <4> QED BY <2>7, <2>8, <4>1
    <3>2. CASE ~(i <= l)
      <4>1. PICK j \in 1 .. n : i = l + j
        <5>1. i - l \in 1 .. n /\ i = l + (i - l)
          BY <3>2
        <5> QED BY <5>1
      <4>2. j \in 1 .. k /\ w + j = r + i
        <5>1. r + l = w
          BY <2>7
        <5>2. j \in Nat /\ j >= 1 /\ j <= n /\ i = l + j
          BY <1>26, <4>1
        <5> QED BY <1>26, <5>1, <5>2
      <4>3. e[i] = a[j] /\ a[j] = Flat(v)[j]
        BY <2>3, <2>8, <4>1
      <4>4. Flat(v)[j] = S[w + j]
        BY <1>21, <4>2
      <4> QED BY <4>2, <4>3, <4>4
    <3> QED BY <3>1, <3>2
  <2>10. x <= Len(S) /\ r + (l + n) = x
    <3>1. r + l = w
      BY <2>7
    <3>2. w + k = Len(S)
      BY <1>21
    <3> QED BY <1>26, <1>27, <3>1, <3>2
  <2> QED BY <2>5, <2>6, <2>8, <2>9, <2>10 DEF Carries
<1>29. Reads(fs, b, S, r)' /\ Starts(fs)' /\ IsStream(version, fs, b, S)' /\ RecvType' /\ NeverRefused'
  BY <1>1, <1>16, <1>20, <1>28, ReceiverStays DEF Flow, WireInv
<1>30. PICK e \in Nat : e = Total(Iov(m)) /\ y + e = Len(S)
  <2>1. PICK p : p = Payload(version, m)
    BY Zenon
  <2>2. PICK E : E = Flat(Iov(m))
    BY Zenon
  <2>3. E \in Seq(Byte) /\ Total(Iov(m)) = Len(E) /\ IsFrame(E, 0, Len(E), m.type, p)
    BY <1>3, <1>4, <2>1, <2>2, IovFacts
  <2>4. IsFrame(S, b[s], b[s + 1], m.type, p)
    <3>1. PICK j \in 1 .. Len(fs) : j = s + 1 /\ j - 1 = s
      <4>1. s + 1 \in 1 .. Len(fs) /\ s + 1 - 1 = s
        BY <1>23
      <4> QED BY <4>1
    <3>2. fs[j] = m
      BY <1>1, <1>21, <1>22, <3>1 DEF SendType
    <3>3. IsFrame(S, b[j - 1], b[j], fs[j].type, Payload(version, fs[j]))
      BY <1>20 DEF Flow, IsStream
    <3> QED BY <2>1, <3>1, <3>2, <3>3
  <2>5. Len(E) = 0 + PrefixLen + 1 + Len(p) /\ Len(S) = y + PrefixLen + 1 + Len(p)
    BY <1>24, <1>25, <2>3, <2>4 DEF IsFrame
  <2>6. p \in Seq(Byte)
    <3>1. m \in FirstMessage \cup LaterMessage
      BY MessageFacts
    <3> QED BY <1>3, <1>4, <2>1, <3>1, RoundTrip
  <2>7. Len(E) \in Nat /\ y + Len(E) = Len(S)
    BY <2>5, <2>6, PrefixFacts
  <2> QED BY <2>3, <2>7
<1>31. CASE q = << >>
  <2>1. x = Len(S)
    BY <1>10, <1>21, <1>26, <1>27, <1>31
  <2>2. sent' = fs /\ write_mu' = None
    BY <1>0, <1>3, <1>9, <1>21, <1>31
  <2>3. ~Half'
    <3>1. ~cut' /\ \A u \in Thread : iov'[u] = << >>
      BY <1>0, <1>4, <1>9, <1>31
    <3> QED BY <3>1 DEF Half, HalfSent
  <2>4. Writes(fs, b, S, x)'
    <3>1. Len(sent') = s + 1 /\ ~(x < x)
      BY <1>23, <2>2
    <3>2. Len(sent') <= Len(fs) /\ Len(fs) <= Len(sent') + 1 /\ ~(Len(sent') < Len(fs))
      BY <1>23, <3>1
    <3>3. b[Len(sent')] = x
      BY <1>25, <2>1, <3>1
    <3>4. \A u \in Thread : ~(write_mu' = u)
      BY <1>12, <2>2
    <3> QED BY <2>2, <2>3, <3>1, <3>2, <3>3, <3>4 DEF Writes
  <2>5. Flow(fs, b, S, r, x)'
    BY <1>28, <1>29, <2>4 DEF Flow
  <2>6. Stream'
    BY <2>5 DEF Stream
  <2>7. WireInv'
    BY <1>13, <1>14, <1>15, <1>29, <2>6 DEF WireInv
  <2> QED BY <1>0, <1>4, <1>21, <2>2, <2>3, <2>7 DEF recv_vars
<1>32. CASE q # << >>
  <2>1. sent' = sent /\ msg' = msg /\ write_mu' = write_mu
    BY <1>0, <1>9, <1>32
  <2>2. h > 0 /\ x < Len(S) /\ y < x /\ x + h = Len(S)
    <3>1. h # 0
      BY <1>10, <1>26, <1>32
    <3>2. w + k = Len(S)
      BY <1>21
    <3>3. n > 0
      BY <1>6
    <3>4. x + h = w + k
      BY <1>26, <1>27
    <3>5. y <= w
      BY <1>24
    <3>6. y < x
      BY <1>27, <3>3, <3>5
    <3>7. h > 0
      BY <3>1
    <3>8. x < x + h
      BY <3>7
    <3> QED BY <3>2, <3>4, <3>6, <3>7, <3>8
  <2>3. Half'
    <3>1. Iov(msg[t])' = Iov(m)
      BY <1>0, <1>3, <2>1 DEF Iov
    <3>2. Total(q) = h /\ h < e
      <4>1. Total(q) = h
        BY <1>8, <1>26
      <4>2. y + e = Len(S) /\ x + h = Len(S) /\ y < x
        BY <1>30, <2>2
      <4>3. y + e = x + h
        BY <4>2
      <4>4. y < x
        BY <4>2
      <4>5. h < e
        BY <4>3, <4>4
      <4> QED BY <4>1, <4>5
    <3>3. Total(iov[t])' = h /\ Total(Iov(msg[t]))' = e
      BY <1>9, <1>30, <3>1, <3>2 DEF Total, Before
    <3>4. HalfSent(t)'
      BY <1>9, <1>32, <3>2, <3>3 DEF HalfSent
    <3> QED BY <3>4 DEF Half
  <2>4. Holds(t, fs, S, x)'
    <3>1. \A i \in 1 .. h : Flat(q)[i] = S[x + i]
      <4>1. \A i \in 1 .. h : n + i \in 1 .. k /\ w + (n + i) = x + i
        BY <1>26, <1>27
      <4>2. \A i \in 1 .. h : Flat(q)[i] = Flat(v)[n + i]
        BY <1>8, <1>26
      <4> QED BY <1>21, <4>1, <4>2
    <3>2. Total(q) = h
      BY <1>8, <1>26
    <3>3. /\ fs = Append(sent', msg'[t])
          /\ x + Total(iov'[t]) = Len(S)
          /\ \A i \in 1 .. Total(iov'[t]) : Flat(iov'[t])[i] = S[x + i]
      BY <1>3, <1>9, <1>21, <2>1, <2>2, <3>1, <3>2
    <3> QED BY <3>3 DEF Holds, Total, Before, Flat
  <2>5. Writes(fs, b, S, x)'
    <3>1. b[s] = y /\ y <= x /\ y < x
      BY <1>24, <2>2
    <3>2. s <= Len(fs) /\ Len(fs) <= s + 1
      BY <1>23
    <3>3. write_mu' # None /\ \A u \in Thread : write_mu' = u => u = t
      BY <1>2, <1>12, <2>1
    <3> QED BY <1>22, <1>23, <2>1, <2>2, <2>3, <2>4, <3>1, <3>2, <3>3 DEF Writes
  <2>6. Flow(fs, b, S, r, x)'
    BY <1>28, <1>29, <2>5 DEF Flow
  <2>7. Stream'
    BY <2>6 DEF Stream
  <2>8. WireInv'
    BY <1>13, <1>14, <1>15, <1>29, <2>7 DEF WireInv
  <2> QED BY <1>0, <1>4, <2>1, <2>3, <2>8 DEF recv_vars
<1> QED BY <1>31, <1>32

-----------------------------------------------------------------------------
(***************************************************************************)
(* Every step keeps the invariant, and is a step of the queue of messages. *)
(***************************************************************************)

\* What a step of the model is to the queue: nothing; a part or the rest of a
\* frame is written; a message arrives; or the receiver leaves.
QueueStep ==
  \/ UNCHANGED <<sent, got, ended>> /\ (Half' <=> Half)
  \/ /\ ended = "open" /\ UNCHANGED <<got, ended>>
     /\ \/ Half' /\ sent' = sent
        \/ ~Half' /\ \E m \in Message : sent' = Append(sent, m)
  \/ /\ ended = "open" /\ UNCHANGED <<sent, ended>> /\ (Half' <=> Half)
     /\ Len(got) < Len(sent) /\ got' = Append(got, sent[Len(got) + 1])
  \/ /\ ended = "open" /\ UNCHANGED <<sent, got>> /\ (Half' <=> Half)
     /\ ended' \in {"eof", "lost", "malformed", "no_memory"}
     /\ ended' = "eof" => got = sent /\ ~Half

\* A step of the receiver leaves what is half written as it is.
LEMMA HalfStays ==
  ASSUME UNCHANGED <<version, send_vars>>
  PROVE  (Half' <=> Half) /\ sent' = sent
BY DEF Half, HalfSent, Iov, Total, Before, send_vars

\* A delivery is the arrival of a message, or the receiver leaves.
LEMMA DeliveryQueue ==
  ASSUME ended = "open", UNCHANGED <<version, send_vars>>, Delivery
  PROVE  QueueStep
<1>1. (Half' <=> Half) /\ sent' = sent
  BY HalfStays
<1>2. CASE ended' = ended /\ Len(got) < Len(sent) /\ got' = Append(got, sent[Len(got) + 1])
  BY <1>1, <1>2 DEF QueueStep
<1>3. CASE ended' \in {"malformed", "no_memory"} /\ got' = got
  BY <1>1, <1>3 DEF QueueStep
<1> QED BY <1>2, <1>3 DEF Delivery

\* The steps of the sending threads.
LEMMA SendingStep ==
  ASSUME WireInv, NEW t \in Thread, Sending(t) \/ \E m \in Sends : BeginSend(t, m)
  PROVE  WireInv' /\ QueueStep
<1>1. CASE SendLock(t)
  <2>1. UNCHANGED <<sent, got, ended>>
    BY <1>1 DEF SendLock, recv_vars
  <2> QED BY <1>1, <2>1, SendLockStep DEF QueueStep
<1>2. CASE WriteFails(t)
  <2>1. UNCHANGED <<sent, got, ended>>
    BY <1>2 DEF WriteFails, recv_vars
  <2> QED BY <1>2, <2>1, WriteFailsStep DEF QueueStep
<1>3. ASSUME NEW n \in 1 .. SockCap, Writev(t, n)
      PROVE  WireInv' /\ QueueStep
  <2>1. n \in Nat /\ n > 0
    BY BoundsAssumption
  <2> QED BY <1>3, <2>1, WritevStep DEF QueueStep
<1>4. ASSUME NEW m \in Sends, BeginSend(t, m)
      PROVE  WireInv' /\ QueueStep
  <2>1. UNCHANGED <<sent, got, ended>>
    BY <1>4 DEF BeginSend, recv_vars
  <2> QED BY <1>4, <2>1, BeginSendStep DEF QueueStep
<1> QED BY <1>1, <1>2, <1>3, <1>4 DEF Sending

\* The steps of the receiver.
LEMMA ReceivedStep ==
  ASSUME WireInv, Received
  PROVE  WireInv' /\ QueueStep
<1>1. ASSUME NEW n \in 1 .. SockCap, ReadPart(n) \/ ReadPrefix(n) \/ ReadPayload(n)
      PROVE  WireInv' /\ QueueStep
  <2>1. n \in Nat /\ n > 0
    BY BoundsAssumption
  <2>2. CASE ReadPart(n)
    <3>1. UNCHANGED <<version, send_vars>> /\ UNCHANGED <<got, ended>>
      BY <2>2 DEF ReadPart, Read
    <3>2. WireInv'
      BY <2>1, <2>2, ReadPartStep
    <3> QED BY <3>1, <3>2, HalfStays DEF QueueStep
  <2>3. CASE ReadPrefix(n)
    <3>1. UNCHANGED <<version, send_vars>>
      BY <2>3 DEF ReadPrefix, Read
    <3>2. WireInv' /\ got' = got /\ ended' = ended
      BY <2>1, <2>3, ReadPrefixStep
    <3> QED BY <3>1, <3>2, HalfStays DEF QueueStep
  <2>4. CASE ReadPayload(n)
    <3>1. ended = "open" /\ UNCHANGED <<version, send_vars>>
      BY <2>4 DEF ReadPayload, Read
    <3>2. WireInv' /\ Delivery
      BY <2>1, <2>4, ReadPayloadStep
    <3> QED BY <3>1, <3>2, DeliveryQueue
  <2> QED BY <1>1, <2>2, <2>3, <2>4
<1>2. CASE ReadType
  <2>1. ended = "open" /\ UNCHANGED <<version, send_vars>>
    BY <1>2 DEF ReadType, Read
  <2>2. WireInv' /\ (Delivery \/ (got' = got /\ ended' = ended))
    BY <1>2, ReadTypeStep
  <2>3. CASE Delivery
    BY <2>1, <2>2, <2>3, DeliveryQueue
  <2>4. CASE got' = got /\ ended' = ended
    BY <2>1, <2>2, <2>4, HalfStays DEF QueueStep
  <2> QED BY <2>2, <2>3, <2>4
<1>3. CASE ReadEof
  <2>1. UNCHANGED <<version, send_vars>>
    BY <1>3 DEF ReadEof, AtEof
  <2>2. /\ WireInv'
        /\ got' = got /\ ended' \in {"eof", "lost"} /\ ended = "open"
        /\ ended' = "eof" => got = sent /\ ~Half
    BY <1>3, ReadEofStep
  <2> QED BY <2>1, <2>2, HalfStays DEF QueueStep
<1>4. CASE ReadFails
  <2>1. UNCHANGED <<version, send_vars>>
    BY <1>4 DEF ReadFails
  <2>2. WireInv' /\ got' = got /\ ended = "open" /\ ended' = "lost"
    BY <1>4, ReadFailsStep
  <2> QED BY <2>1, <2>2, HalfStays DEF QueueStep
<1> QED BY <1>1, <1>2, <1>3, <1>4 DEF Received

\* A step that changes nothing.
LEMMA StutterStep ==
  ASSUME WireInv, UNCHANGED vars
  PROVE  WireInv' /\ QueueStep
<1>1. UNCHANGED <<sender, version, send_vars, conn, chan, recv_vars>>
  BY DEF vars
<1>2. UNCHANGED <<sent, got, ended>> /\ (Half' <=> Half)
  BY <1>1, HalfStays DEF recv_vars
<1>3. SendType' /\ IntroFirst'
  BY <1>1, SenderStays DEF WireInv, IntroFirst
<1>4. ConnType'
  BY <1>1 DEF WireInv, ConnType, send_vars, recv_vars
<1>5. Stream' /\ RecvType' /\ NeverRefused'
  <2>1. UNCHANGED <<sender, version, recv_vars, chan, sent, write_mu, iov, msg, conn>>
    BY <1>1 DEF send_vars
  <2> QED BY <1>2, <2>1, NothingWritten
<1> QED BY <1>2, <1>3, <1>4, <1>5 DEF WireInv, QueueStep

\* The steps that are left, and any step.
LEMMA WireNext == WireInv /\ [Next]_vars => WireInv' /\ QueueStep
<1> SUFFICES ASSUME WireInv, [Next]_vars PROVE WireInv' /\ QueueStep
  OBVIOUS
<1>1. CASE \E t \in Thread : Sending(t) \/ \E m \in Sends : BeginSend(t, m)
  BY <1>1, SendingStep
<1>2. CASE Close
  <2>1. UNCHANGED <<sent, got, ended>>
    BY <1>2 DEF Close, send_vars, recv_vars
  <2> QED BY <1>2, <2>1, CloseStep DEF QueueStep
<1>3. CASE Reset
  <2>1. UNCHANGED <<sent, got, ended>>
    BY <1>3 DEF Reset, send_vars, recv_vars
  <2> QED BY <1>3, <2>1, ResetStep DEF QueueStep
<1>4. CASE Received
  BY <1>4, ReceivedStep
<1>5. CASE Over \/ UNCHANGED vars
  BY <1>5, StutterStep DEF Over
<1> QED BY <1>1, <1>2, <1>3, <1>4, <1>5 DEF Next

\* The stream invariant holds in every state of every behaviour: wherever the
\* writev() and read() calls have stopped, the bytes of the frames of the
\* messages sent are split between what the receiver has taken, the socket and
\* what the sender still has to write, and the receiver stands in the field of
\* the frame that comes next.
THEOREM WireInvariant == Spec => []WireInv
<1>1. Init => WireInv
  BY WireInit
<1>2. WireInv /\ [Next]_vars => WireInv'
  BY WireNext
<1> QED BY <1>1, <1>2, PTL DEF Spec

\* opty_recv_frame_limited and opty_parse_* refuse nothing that opty_send_* of
\* the same version lets through, whatever the limits, the messages, the
\* number of sending threads and the size of the socket buffers.
THEOREM NothingRefused == Spec => []NeverRefused
<1>1. WireInv => NeverRefused
  BY DEF WireInv
<1> QED BY <1>1, WireInvariant, PTL

\* Wire's frames implement FrameChannel's queue of whole messages: nothing is
\* torn, mixed, reordered or repeated although opty_writev_full and
\* opty_read_full go byte by byte and several threads send, and an end of file
\* is reported only to a receiver that has every message sent, with no frame
\* cut off.
THEOREM WireImplementsChannel == Spec => ImplementsChannel
<1>1. Init => Channel!ChannelInit
  <2> SUFFICES ASSUME Init PROVE Channel!ChannelInit
    OBVIOUS
  <2>1. sent = << >> /\ got = << >> /\ Outcome = "open"
    BY DEF Init, Outcome
  <2>2. ~Half
    <3>1. cut = FALSE /\ \A t \in Thread : iov[t] = << >>
      BY DEF Init
    <3> QED BY <3>1 DEF Half, HalfSent
  <2> QED BY <2>1, <2>2 DEF Channel!ChannelInit
<1>2. QueueStep => [Channel!ChannelNext]_(Channel!channel)
  <2> SUFFICES ASSUME QueueStep PROVE [Channel!ChannelNext]_(Channel!channel)
    OBVIOUS
  <2>1. CASE UNCHANGED <<sent, got, ended>> /\ (Half' <=> Half)
    <3>1. Outcome' = Outcome
      BY <2>1 DEF Outcome
    <3>2. Half' = Half
      BY <2>1, Zenon
    <3>3. UNCHANGED Channel!channel
      BY <2>1, <3>1, <3>2 DEF Channel!channel
    <3> QED BY <3>3
  <2>2. CASE ended = "open" /\ UNCHANGED <<got, ended>> /\ Half' /\ sent' = sent
    <3>1. Outcome = "open" /\ Outcome' = "open"
      BY <2>2 DEF Outcome
    <3>2. Half' = TRUE
      BY <2>2, Zenon
    <3>3. Channel!Start
      BY <2>2, <3>1, <3>2 DEF Channel!Start
    <3> QED BY <3>3 DEF Channel!ChannelNext
  <2>3. ASSUME ended = "open", UNCHANGED <<got, ended>>, ~Half',
               NEW m \in Message, sent' = Append(sent, m)
        PROVE  Channel!ChannelNext
    <3>1. Outcome = "open" /\ Outcome' = "open"
      BY <2>3 DEF Outcome
    <3>2. Half' = FALSE
      <4>1. ~Half'
        BY <2>3
      <4> QED BY <4>1 DEF Half
    <3>3. Channel!Send(m)
      BY <2>3, <3>1, <3>2 DEF Channel!Send
    <3> QED BY <3>3 DEF Channel!ChannelNext
  <2>4. CASE /\ ended = "open" /\ UNCHANGED <<sent, ended>> /\ (Half' <=> Half)
             /\ Len(got) < Len(sent) /\ got' = Append(got, sent[Len(got) + 1])
    <3>1. Outcome = "open" /\ Outcome' = "open"
      BY <2>4 DEF Outcome
    <3>2. Half' = Half
      <4>1. Half' <=> Half
        BY <2>4
      <4> QED BY <4>1, Zenon
    <3>3. Channel!Receive
      BY <2>4, <3>1, <3>2 DEF Channel!Receive
    <3> QED BY <3>3 DEF Channel!ChannelNext
  <2>5. CASE /\ ended = "open" /\ UNCHANGED <<sent, got>> /\ (Half' <=> Half)
             /\ ended' \in {"eof", "lost", "malformed", "no_memory"}
             /\ ended' = "eof" => got = sent /\ ~Half
    <3>1. Outcome = "open"
      BY <2>5 DEF Outcome
    <3>2. Half' = Half
      <4>1. Half' <=> Half
        BY <2>5
      <4> QED BY <4>1, Zenon
    <3>3. CASE ended' = "eof"
      <4>1. Outcome' = "eof"
        BY <3>3 DEF Outcome
      <4>2. Channel!EndOfFile
        BY <2>5, <3>1, <3>2, <3>3, <4>1 DEF Channel!EndOfFile
      <4> QED BY <4>2 DEF Channel!ChannelNext
    <3>4. CASE ended' # "eof"
      <4>1. Outcome' = "lost"
        BY <2>5, <3>4 DEF Outcome
      <4>2. Channel!Lose
        BY <2>5, <3>1, <3>2, <4>1 DEF Channel!Lose
      <4> QED BY <4>2 DEF Channel!ChannelNext
    <3> QED BY <3>3, <3>4
  <2> QED BY <2>1, <2>2, <2>3, <2>4, <2>5 DEF QueueStep
<1>3. WireInv /\ [Next]_vars => [Channel!ChannelNext]_(Channel!channel)
  BY <1>2, WireNext
<1> QED BY <1>1, <1>3, WireInvariant, PTL DEF Spec, ImplementsChannel, Channel!ChannelSpec
=============================================================================
