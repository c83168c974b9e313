------------------------- MODULE SessionFileProofs -------------------------
(***************************************************************************)
(* Proofs about SessionFile: what is written is read back as it was meant  *)
(* (the encoding, by induction over the text; the record, line by line),   *)
(* no temporary file is left behind but by a process that was ended, and   *)
(* whatever was interrupted the session file is one whole record.          *)
(***************************************************************************)
EXTENDS SessionFile, FiniteSetTheorems, WellFoundedInduction, TLAPS

-----------------------------------------------------------------------------
(***************************************************************************)
(* Induction, and functions defined by recursion.  They are stated for     *)
(* sets and functions: an operator cannot be a parameter of a lemma here.  *)
(***************************************************************************)

\* A set of naturals that is not empty has a least element.
LEMMA Least ==
  ASSUME NEW T, T \subseteq Nat, T # {}
  PROVE  \E x \in T : \A y \in T : x <= y
<1>1. PICK R : R = OpToRel(<, Nat)
  BY Zenon
<1>2. IsWellFoundedOn(R, Nat)
  BY <1>1, NatLessThanWellFounded
<1>3. PICK x \in T : \A y \in T : ~ (<<y, x>> \in R)
  BY <1>2, WFMin
<1>4. ASSUME NEW y \in T PROVE x <= y
  <2>1. x \in Nat /\ y \in Nat
    OBVIOUS
  <2>2. <<y, x>> \notin {ss \in Nat \X Nat : ss[1] < ss[2]}
    BY <1>1, <1>3 DEF OpToRel
  <2>3. ~(y < x)
    BY <2>1, <2>2
  <2> QED BY <2>1, <2>3
<1> QED
  BY <1>4

\* A set that holds 0, and the successor of what it holds, holds every natural
\* up to a bound.
LEMMA Induction ==
  ASSUME NEW S, NEW n \in Nat, 0 \in S, \A i \in 0 .. n : i \in S /\ i # n => i + 1 \in S
  PROVE  \A i \in 0 .. n : i \in S
<1> SUFFICES ASSUME {i \in 0 .. n : i \notin S} # {} PROVE FALSE
  OBVIOUS
<1> DEFINE T == {i \in 0 .. n : i \notin S}
<1>1. T \subseteq Nat /\ T # {}
  OBVIOUS
<1>2. PICK x \in T : \A y \in T : x <= y
  BY <1>1, Least
<1>3. x \in 0 .. n /\ x \notin S /\ x # 0
  BY <1>2
<1>4. x - 1 \in 0 .. n /\ x - 1 # n /\ x - 1 + 1 = x /\ ~(x <= x - 1)
  BY <1>3
<1>5. x - 1 \in S
  BY <1>2, <1>4
<1> QED BY <1>3, <1>4, <1>5

Solves(f, n, b, step) == f[0] = b /\ \A i \in 1 .. n : f[i] = step[<<i, f[i - 1]>>]

\* A recursion over 1 .. n whose step stays in a set has a solution.
LEMMA Recursion ==
  ASSUME NEW X, NEW n \in Nat, NEW b \in X, NEW step \in [(1 .. n) \X X -> X]
  PROVE  \E f \in [0 .. n -> X] : Solves(f, n, b, step)
<1> USE DEF Solves
<1> DEFINE Good == {k \in 0 .. n : \E f \in [0 .. k -> X] : Solves(f, k, b, step)}
<1>1. 0 \in Good
  <2>1. PICK f : f = [i \in 0 .. 0 |-> b]
    BY Zenon
  <2>2. f \in [0 .. 0 -> X] /\ Solves(f, 0, b, step) /\ 0 \in 0 .. n
    BY <2>1
  <2> QED BY <2>2
<1>2. ASSUME NEW k \in 0 .. n, k \in Good, k # n PROVE k + 1 \in Good
  <2>1. PICK f \in [0 .. k -> X] : Solves(f, k, b, step)
    BY <1>2
  <2>2. f[k] \in X /\ k + 1 \in 1 .. n /\ k + 1 \in 0 .. n
    BY <1>2
  <2>3. step[<<k + 1, f[k]>>] \in X
    BY <2>2
  <2>4. PICK g : g = [i \in 0 .. k + 1 |-> IF i = k + 1 THEN step[<<k + 1, f[k]>>] ELSE f[i]]
    BY Zenon
  <2>5. \A i \in 0 .. k + 1 : i = k + 1 \/ i \in 0 .. k
    OBVIOUS
  <2>6. g \in [0 .. k + 1 -> X]
    BY <2>3, <2>4, <2>5
  <2>7. g[0] = b
    BY <2>1, <2>4
  <2>8. ASSUME NEW i \in 1 .. k + 1 PROVE g[i] = step[<<i, g[i - 1]>>]
    <3>1. i - 1 \in 0 .. k /\ i \in 0 .. k + 1 /\ i - 1 \in 0 .. k + 1 /\ i - 1 # k + 1
      OBVIOUS
    <3>2. g[i - 1] = f[i - 1]
      BY <2>4, <3>1
    <3>3. CASE i = k + 1
      BY <2>4, <3>1, <3>2, <3>3
    <3>4. CASE i \in 1 .. k
      <4>1. g[i] = f[i]
        BY <2>4, <3>1, <3>4
      <4> QED BY <2>1, <3>2, <3>4, <4>1
    <3> QED BY <3>3, <3>4
  <2> QED BY <2>2, <2>6, <2>7, <2>8
<1> HIDE DEF Good
<1>3. n \in Good
  <2>1. \A k \in 0 .. n : k \in Good
    BY <1>1, <1>2, Induction
  <2> QED BY <2>1
<1> QED BY <1>3 DEF Good

-----------------------------------------------------------------------------
(***************************************************************************)
(* The encoding.                                                           *)
(***************************************************************************)

\* A character becomes itself, or a backslash and the letter that stands for it.
LEMMA EscapedShape ==
  ASSUME NEW ch \in Char
  PROVE  \/ ch \notin {"LF", "CR", "TAB", "BS"} /\ Escaped(ch) = <<ch>>
         \/ \E c \in {"n", "r", "t", "BS"} : /\ Escaped(ch) = <<"BS", c>>
                                             /\ c \in DOMAIN Unescaped /\ Unescaped[c] = ch
<1>1. DOMAIN Unescaped = {"n", "r", "t", "BS"}
  BY DEF Unescaped
<1>2. Unescaped["n"] = "LF" /\ Unescaped["r"] = "CR" /\ Unescaped["t"] = "TAB" /\ Unescaped["BS"] = "BS"
  BY DEF Unescaped
<1>3. CASE ch = "LF"
  BY <1>1, <1>2, <1>3 DEF Escaped
<1>4. CASE ch = "CR"
  BY <1>1, <1>2, <1>4 DEF Escaped
<1>5. CASE ch = "TAB"
  BY <1>1, <1>2, <1>5 DEF Escaped
<1>6. CASE ch = "BS"
  BY <1>1, <1>2, <1>6 DEF Escaped
<1>7. CASE ch \notin {"LF", "CR", "TAB", "BS"}
  BY <1>7 DEF Escaped
<1> QED BY <1>3, <1>4, <1>5, <1>6, <1>7

\* The run of opty_escape_session_value over a text.
LEMMA EscapeRun ==
  ASSUME NEW v \in Text
  PROVE  \E f \in [0 .. Len(v) -> Text] :
            /\ f[0] = << >>
            /\ \A i \in 1 .. Len(v) : f[i] = f[i - 1] \o Escaped(v[i])
            /\ opty_escape_session_value(v) = f[Len(v)]
<1>0. Len(v) \in Nat /\ << >> \in Text /\ \A i \in 1 .. Len(v) : v[i] \in Char
  BY DEF Text
<1>1. \A ch \in Char : Escaped(ch) \in Text
  <2> SUFFICES ASSUME NEW ch \in Char PROVE Escaped(ch) \in Seq(Char)
    BY Zenon DEF Text
  <2>1. CASE Escaped(ch) = <<ch>>
    BY <2>1
  <2>2. CASE \E c \in {"n", "r", "t", "BS"} : Escaped(ch) = <<"BS", c>>
    <3>1. PICK c \in {"n", "r", "t", "BS"} : Escaped(ch) = <<"BS", c>>
      BY <2>2
    <3>2. c \in Char /\ "BS" \in Char
      BY DEF Char
    <3> QED BY <3>1, <3>2
  <2> QED BY <2>1, <2>2, EscapedShape, Zenon
<1>2. PICK n \in Nat : n = Len(v)
  BY <1>0
<1>3. PICK step : step = [x \in (1 .. n) \X Text |-> x[2] \o Escaped(v[x[1]])]
  BY Zenon
<1>4. ASSUME NEW i \in 1 .. n, NEW t \in Text
      PROVE  step[<<i, t>>] = t \o Escaped(v[i]) /\ t \o Escaped(v[i]) \in Text
  <2>1. Escaped(v[i]) \in Text
    BY <1>0, <1>1, <1>2
  <2>2. step[<<i, t>>] = t \o Escaped(v[i])
    BY <1>3
  <2> QED BY <2>1, <2>2 DEF Text
<1>5. step \in [(1 .. n) \X Text -> Text]
  <2>1. \A x \in (1 .. n) \X Text : x = <<x[1], x[2]>> /\ x[1] \in 1 .. n /\ x[2] \in Text
    OBVIOUS
  <2>2. \A x \in (1 .. n) \X Text : x[2] \o Escaped(v[x[1]]) \in Text
    BY <1>4, <2>1
  <2> QED BY <1>3, <2>2
<1> DEFINE P(f) == f = [i \in 0 .. Len(v) |-> IF i = 0 THEN << >> ELSE f[i - 1] \o Escaped(v[i])]
<1>6. \E f : P(f)
  <2>0. PICK b \in Text : b = << >>
    BY <1>0
  <2>p. PICK f \in [0 .. n -> Text] : Solves(f, n, b, step)
    BY <1>5, Recursion, Zenon
  <2>1. f[0] = << >> /\ \A i \in 1 .. n : f[i] = step[<<i, f[i - 1]>>]
    BY <2>0, <2>p DEF Solves
  <2>2. ASSUME NEW i \in 0 .. n PROVE f[i] = IF i = 0 THEN << >> ELSE f[i - 1] \o Escaped(v[i])
    <3>1. CASE i = 0
      BY <2>1, <3>1
    <3>2. CASE i # 0
      <4>1. i \in 1 .. n /\ f[i - 1] \in Text
        BY <3>2
      <4> QED BY <1>4, <2>1, <3>2, <4>1
    <3> QED BY <3>1, <3>2
  <2>3. P(f)
    BY <1>2, <2>2
  <2> QED BY <2>3, Zenon
<1>7. PICK f : f = CHOOSE g : P(g)
  BY Zenon
<1>8. P(f)
  BY <1>6, <1>7, Zenon
<1>9. f[0] = << >> /\ \A i \in 1 .. n : f[i] = f[i - 1] \o Escaped(v[i])
  <2>1. \A i \in 0 .. n : f[i] = IF i = 0 THEN << >> ELSE f[i - 1] \o Escaped(v[i])
    BY <1>2, <1>8
  <2>2. 0 \in 0 .. n /\ \A i \in 1 .. n : i \in 0 .. n /\ i # 0
    OBVIOUS
  <2> QED BY <2>1, <2>2
<1>10. \A i \in 0 .. n : f[i] \in Text
  <2> DEFINE S == {i \in 0 .. n : f[i] \in Text}
  <2>1. 0 \in S
    BY <1>0, <1>9
  <2>2. ASSUME NEW i \in 0 .. n, i \in S /\ i # n PROVE i + 1 \in S
    <3>1. PICK j \in 1 .. n : j = i + 1 /\ j \in 0 .. n /\ j - 1 = i
      BY <2>2
    <3>2. f[j] = f[j - 1] \o Escaped(v[j])
      BY <1>9, Zenon
    <3>3. f[i] \in Text
      BY <2>2
    <3>4. f[j] \in Text
      BY <1>4, <3>1, <3>2, <3>3
    <3> QED BY <3>1, <3>4
  <2> HIDE DEF S
  <2>3. \A i \in 0 .. n : i \in S
    BY <2>1, <2>2, Induction
  <2> QED BY <2>3 DEF S
<1>11. f \in [0 .. n -> Text]
  BY <1>2, <1>8, <1>10
<1>12. opty_escape_session_value(v) = f[Len(v)]
  BY <1>7 DEF opty_escape_session_value
<1> QED BY <1>2, <1>9, <1>11, <1>12

DecodeStates == [out : Text, esc : BOOLEAN, ok : BOOLEAN]

LEMMA DecodeNextType ==
  ASSUME NEW st \in DecodeStates, NEW ch \in Char
  PROVE  DecodeNext(st, ch) \in DecodeStates
<1>1. st.out \in Text /\ st.esc \in BOOLEAN /\ st.ok \in BOOLEAN
      /\ st = [out |-> st.out, esc |-> st.esc, ok |-> st.ok]
  BY DEF DecodeStates
<1>2. ASSUME NEW t \in Text, NEW c \in Char
      PROVE  Append(t, c) \in Text /\ t \o <<"BS", c>> \in Text
  <2>1. "BS" \in Char
    BY DEF Char
  <2>2. <<"BS", c>> \in Seq(Char)
    BY <2>1
  <2> QED BY <2>2 DEF Text
<1>3. CASE ~st.esc /\ ch = "BS"
  <2>1. DecodeNext(st, ch) = [st EXCEPT !.esc = TRUE]
    BY <1>3 DEF DecodeNext
  <2> QED BY <2>1 DEF DecodeStates
<1>4. CASE ~st.esc /\ ch # "BS"
  <2>1. DecodeNext(st, ch) = [st EXCEPT !.out = Append(@, ch)]
    BY <1>4 DEF DecodeNext
  <2>2. Append(st.out, ch) \in Text
    BY <1>1, <1>2
  <2> QED BY <2>1, <2>2 DEF DecodeStates
<1>5. CASE st.esc /\ ch \in DOMAIN Unescaped
  <2>1. DecodeNext(st, ch) = [out |-> Append(st.out, Unescaped[ch]), esc |-> FALSE, ok |-> st.ok]
    BY <1>5 DEF DecodeNext
  <2>2. Unescaped[ch] \in Char
    BY <1>5 DEF Unescaped, Char
  <2>3. Append(st.out, Unescaped[ch]) \in Text
    BY <1>1, <1>2, <2>2
  <2> QED BY <1>1, <2>1, <2>3 DEF DecodeStates
<1>6. CASE st.esc /\ ch \notin DOMAIN Unescaped
  <2>1. DecodeNext(st, ch) = [out |-> st.out \o <<"BS", ch>>, esc |-> FALSE, ok |-> FALSE]
    BY <1>6 DEF DecodeNext
  <2>2. st.out \o <<"BS", ch>> \in Text
    BY <1>1, <1>2
  <2> QED BY <2>1, <2>2 DEF DecodeStates
<1> QED BY <1>3, <1>4, <1>5, <1>6

\* The decoder on a character that no backslash precedes.
LEMMA DecodePlain ==
  ASSUME NEW o, NEW ch
  PROVE  DecodeNext([out |-> o, esc |-> FALSE, ok |-> TRUE], ch)
         = IF ch = "BS" THEN [out |-> o, esc |-> TRUE, ok |-> TRUE]
                        ELSE [out |-> Append(o, ch), esc |-> FALSE, ok |-> TRUE]
<1>1. PICK st : st = [out |-> o, esc |-> FALSE, ok |-> TRUE]
  BY Zenon
<1>2. st.out = o /\ ~st.esc
  BY <1>1
<1>3. [st EXCEPT !.esc = TRUE] = [out |-> o, esc |-> TRUE, ok |-> TRUE]
  <2>1. st \in [out : {o}, esc : BOOLEAN, ok : BOOLEAN]
    BY <1>1
  <2>2. PICK r : r = [st EXCEPT !.esc = TRUE]
    BY Zenon
  <2>3. r \in [out : {o}, esc : BOOLEAN, ok : BOOLEAN]
    BY <2>1, <2>2
  <2>4. r.out = o
    BY <1>1, <2>2
  <2>5. r.esc = TRUE
    BY <1>1, <2>2
  <2>6. r.ok = TRUE
    BY <1>1, <2>2
  <2>7. r = [out |-> r.out, esc |-> r.esc, ok |-> r.ok]
    BY <2>3
  <2> QED BY <2>2, <2>4, <2>5, <2>6, <2>7, Zenon
<1>4. [st EXCEPT !.out = Append(o, ch)] = [out |-> Append(o, ch), esc |-> FALSE, ok |-> TRUE]
  <2>1. PICK a : a = Append(o, ch)
    BY Zenon
  <2>2. st \in [out : {o, a}, esc : BOOLEAN, ok : BOOLEAN]
    BY <1>1
  <2>3. PICK r : r = [st EXCEPT !.out = a]
    BY Zenon
  <2>4. r \in [out : {o, a}, esc : BOOLEAN, ok : BOOLEAN]
    BY <2>2, <2>3
  <2>5. r.out = a
    BY <1>1, <2>3
  <2>6. r.esc = FALSE
    BY <1>1, <2>3
  <2>7. r.ok = TRUE
    BY <1>1, <2>3
  <2>8. r = [out |-> r.out, esc |-> r.esc, ok |-> r.ok]
    BY <2>4
  <2> QED BY <2>1, <2>3, <2>5, <2>6, <2>7, <2>8, Zenon
<1>5. DecodeNext(st, ch) = IF ch = "BS" THEN [st EXCEPT !.esc = TRUE]
                                        ELSE [st EXCEPT !.out = Append(o, ch)]
  BY <1>2 DEF DecodeNext
<1> QED BY <1>1, <1>3, <1>4, <1>5

\* The run of the decoder over a text.
LEMMA DecodeRun ==
  ASSUME NEW v \in Text
  PROVE  \E f : /\ f[0] = DecodeStart
                /\ \A i \in 1 .. Len(v) : f[i] = DecodeNext(f[i - 1], v[i])
                /\ DecodeAll(v) = f[Len(v)]
<1>0. Len(v) \in Nat /\ \A i \in 1 .. Len(v) : v[i] \in Char
  BY DEF Text
<1>1. DecodeStart \in DecodeStates
  <2>1. << >> \in Text
    BY DEF Text
  <2> QED BY <2>1 DEF DecodeStart, DecodeStates
<1>2. PICK n \in Nat : n = Len(v)
  BY <1>0
<1>3. PICK step : step = [x \in (1 .. n) \X DecodeStates |-> DecodeNext(x[2], v[x[1]])]
  BY Zenon
<1>4. ASSUME NEW i \in 1 .. n, NEW st \in DecodeStates
      PROVE  step[<<i, st>>] = DecodeNext(st, v[i]) /\ DecodeNext(st, v[i]) \in DecodeStates
  <2>1. step[<<i, st>>] = DecodeNext(st, v[i])
    BY <1>3
  <2>2. DecodeNext(st, v[i]) \in DecodeStates
    BY <1>0, <1>2, DecodeNextType
  <2> QED BY <2>1, <2>2
<1>5. step \in [(1 .. n) \X DecodeStates -> DecodeStates]
  <2>1. \A x \in (1 .. n) \X DecodeStates : x[1] \in 1 .. n /\ x[2] \in DecodeStates
    OBVIOUS
  <2>2. \A x \in (1 .. n) \X DecodeStates : DecodeNext(x[2], v[x[1]]) \in DecodeStates
    BY <1>4, <2>1
  <2> QED BY <1>3, <2>2
<1> DEFINE P(f) == f = [i \in 0 .. Len(v) |-> IF i = 0 THEN DecodeStart ELSE DecodeNext(f[i - 1], v[i])]
<1>6. \E f : P(f)
  <2>1. PICK f \in [0 .. n -> DecodeStates] : Solves(f, n, DecodeStart, step)
    BY <1>1, <1>5, Recursion, Zenon
  <2>2. f[0] = DecodeStart /\ \A i \in 1 .. n : f[i] = step[<<i, f[i - 1]>>]
    BY <2>1 DEF Solves
  <2>3. ASSUME NEW i \in 0 .. n
        PROVE  f[i] = IF i = 0 THEN DecodeStart ELSE DecodeNext(f[i - 1], v[i])
    <3>1. CASE i = 0
      BY <2>2, <3>1
    <3>2. CASE i # 0
      <4>1. i \in 1 .. n /\ f[i - 1] \in DecodeStates
        BY <3>2
      <4> QED BY <1>4, <2>2, <3>2, <4>1
    <3> QED BY <3>1, <3>2
  <2>4. P(f)
    BY <1>2, <2>3
  <2> QED BY <2>4, Zenon
<1>7. PICK f : f = CHOOSE g : P(g)
  BY Zenon
<1>8. P(f)
  BY <1>6, <1>7, Zenon
<1>9. \A i \in 0 .. n : f[i] = IF i = 0 THEN DecodeStart ELSE DecodeNext(f[i - 1], v[i])
  BY <1>2, <1>8
<1>10. 0 \in 0 .. n /\ \A i \in 1 .. n : i \in 0 .. n /\ i # 0
  OBVIOUS
<1>11. f[0] = DecodeStart /\ \A i \in 1 .. n : f[i] = DecodeNext(f[i - 1], v[i])
  BY <1>9, <1>10
<1>12. DecodeAll(v) = f[Len(v)]
  BY <1>7 DEF DecodeAll
<1> QED BY <1>2, <1>11, <1>12

\* The parts of a sequence, one element after the other.
LEMMA SubSeqNext ==
  ASSUME NEW S, NEW v \in Seq(S)
  PROVE  /\ SubSeq(v, 1, 0) = << >> /\ SubSeq(v, 1, Len(v)) = v
         /\ \A k \in 0 .. Len(v) : k # Len(v) => SubSeq(v, 1, k + 1) = Append(SubSeq(v, 1, k), v[k + 1])
<1>0. Len(v) \in Nat
  OBVIOUS
<1>1. SubSeq(v, 1, 0) = << >>
  OBVIOUS
<1>2. SubSeq(v, 1, Len(v)) = v
  OBVIOUS
<1>3. ASSUME NEW k \in 0 .. Len(v), k # Len(v)
      PROVE  SubSeq(v, 1, k + 1) = Append(SubSeq(v, 1, k), v[k + 1])
  <2>1. PICK a : a = SubSeq(v, 1, k)
    BY Zenon
  <2>2. PICK b : b = SubSeq(v, 1, k + 1)
    BY Zenon
  <2>3. k \in Nat /\ k + 1 \in 0 .. Len(v) /\ k + 1 \in 1 .. Len(v)
    BY <1>0, <1>3
  <2>4. a \in Seq(S) /\ Len(a) = k /\ \A i \in 1 .. k : a[i] = v[i]
    BY <2>1, <2>3
  <2>5. b \in Seq(S) /\ Len(b) = k + 1 /\ \A i \in 1 .. k + 1 : b[i] = v[i]
    BY <2>2, <2>3
  <2>6. v[k + 1] \in S
    BY <2>3
  <2>7. PICK c : c = Append(a, v[k + 1]) /\ c \in Seq(S)
    <3>1. Append(a, v[k + 1]) \in Seq(S)
      BY <2>4, <2>6
    <3> QED BY <3>1, Zenon
  <2>8. Len(c) = k + 1 /\ c[k + 1] = v[k + 1] /\ \A i \in 1 .. k : c[i] = a[i]
    BY <2>4, <2>6, <2>7
  <2>9. ASSUME NEW i \in 1 .. k + 1 PROVE b[i] = c[i]
    <3>1. i = k + 1 \/ i \in 1 .. k
      BY <2>3
    <3> QED BY <2>4, <2>5, <2>8, <3>1
  <2>10. b = c
    BY <2>5, <2>7, <2>8, <2>9
  <2> QED BY <2>1, <2>2, <2>7, <2>10
<1> QED BY <1>1, <1>2, <1>3

\* What the encoding promises: a value takes one line of the file, nothing in
\* it is trimmed when the line is read, and the decoder gives the value back.
LEMMA EscapedValue ==
  ASSUME NEW v \in Text
  PROVE  /\ opty_escape_session_value(v) \in Text
         /\ \A j \in 1 .. Len(opty_escape_session_value(v)) :
                opty_escape_session_value(v)[j] \notin {"LF", "CR"}
         /\ DecodeAll(opty_escape_session_value(v)) = [out |-> v, esc |-> FALSE, ok |-> TRUE]
<1>1. PICK f \in [0 .. Len(v) -> Text] :
            /\ f[0] = << >>
            /\ \A i \in 1 .. Len(v) : f[i] = f[i - 1] \o Escaped(v[i])
            /\ opty_escape_session_value(v) = f[Len(v)]
  BY EscapeRun
<1>2. PICK n \in Nat : n = Len(v)
  BY DEF Text
<1>3. PICK e \in Text : e = f[n]
  BY <1>2
<1>4. Len(e) \in Nat /\ \A k \in 0 .. n : Len(f[k]) \in Nat /\ f[k] \in Seq(Char)
  BY <1>2 DEF Text
<1>5. ASSUME NEW k \in 0 .. n, k # n
      PROVE  /\ k + 1 \in 1 .. n /\ k + 1 \in 0 .. n /\ v[k + 1] \in Char
             /\ f[k + 1] = f[k] \o Escaped(v[k + 1])
  <2>1. PICK j \in 1 .. n : j = k + 1 /\ j - 1 = k
    BY <1>5
  <2>2. f[j] = f[j - 1] \o Escaped(v[j])
    BY <1>1, <1>2, Zenon
  <2>3. v[j] \in Char
    BY <1>2 DEF Text
  <2>4. j \in 0 .. n
    BY <2>1
  <2> QED BY <2>1, <2>2, <2>3, <2>4
\* a step appends one character, or two
<1>6. ASSUME NEW k \in 0 .. n, k # n
      PROVE  /\ \A j \in 1 .. Len(f[k]) : f[k + 1][j] = f[k][j]
             /\ \/ /\ v[k + 1] \notin {"LF", "CR", "TAB", "BS"}
                   /\ Len(f[k + 1]) = Len(f[k]) + 1 /\ f[k + 1][Len(f[k]) + 1] = v[k + 1]
                \/ \E c \in {"n", "r", "t", "BS"} :
                      /\ Len(f[k + 1]) = Len(f[k]) + 2
                      /\ f[k + 1][Len(f[k]) + 1] = "BS" /\ f[k + 1][Len(f[k]) + 2] = c
                      /\ c \in DOMAIN Unescaped /\ Unescaped[c] = v[k + 1]
  <2>1. PICK a \in Seq(Char) : a = f[k]
    BY <1>4
  <2>2. PICK b : b = f[k + 1]
    BY Zenon
  <2>3. PICK ch \in Char : ch = v[k + 1]
    BY <1>5, <1>6
  <2>4. b = a \o Escaped(ch)
    BY <1>5, <1>6, <2>1, <2>2, <2>3, Zenon
  <2>5. CASE ch \notin {"LF", "CR", "TAB", "BS"} /\ Escaped(ch) = <<ch>>
    <3>1. b = a \o <<ch>>
      BY <2>4, <2>5
    <3>2. Len(b) = Len(a) + 1 /\ b[Len(a) + 1] = ch /\ \A j \in 1 .. Len(a) : b[j] = a[j]
      BY <3>1
    <3> QED BY <2>1, <2>2, <2>3, <2>5, <3>2
  <2>6. CASE \E c \in {"n", "r", "t", "BS"} : /\ Escaped(ch) = <<"BS", c>>
                                              /\ c \in DOMAIN Unescaped /\ Unescaped[c] = ch
    <3>1. PICK c \in {"n", "r", "t", "BS"} : /\ Escaped(ch) = <<"BS", c>>
                                             /\ c \in DOMAIN Unescaped /\ Unescaped[c] = ch
      BY <2>6
    <3>2. b = a \o <<"BS", c>> /\ <<"BS", c>> \in Seq(Char)
      BY <2>4, <3>1 DEF Char
    <3>3. Len(b) = Len(a) + 2 /\ b[Len(a) + 1] = "BS" /\ b[Len(a) + 2] = c
          /\ \A j \in 1 .. Len(a) : b[j] = a[j]
      BY <3>2
    <3> QED BY <2>1, <2>2, <2>3, <3>1, <3>3
  <2> QED BY <2>5, <2>6, EscapedShape, Zenon
<1>7. \A k \in 0 .. n : /\ Len(f[k]) <= Len(e)
                        /\ \A j \in 1 .. Len(f[k]) : e[j] = f[k][j]
  <2> DEFINE S == {l \in 0 .. n : \A k \in 0 .. l : /\ Len(f[k]) <= Len(f[l])
                                                    /\ \A j \in 1 .. Len(f[k]) : f[l][j] = f[k][j]}
  <2>1. 0 \in S
    <3>1. 0 \in 0 .. n /\ \A k \in 0 .. 0 : k = 0
      OBVIOUS
    <3>2. Len(f[0]) <= Len(f[0])
      BY <1>4, <3>1
    <3> QED BY <3>1, <3>2
  <2>2. ASSUME NEW l \in 0 .. n, l \in S /\ l # n PROVE l + 1 \in S
    <3>1. l + 1 \in 0 .. n /\ \A k \in 0 .. l + 1 : k = l + 1 \/ k \in 0 .. l
      BY <2>2
    <3>2. Len(f[l]) <= Len(f[l + 1]) /\ \A j \in 1 .. Len(f[l]) : f[l + 1][j] = f[l][j]
      <4>1. Len(f[l]) \in Nat
        BY <1>4
      <4>2. Len(f[l + 1]) = Len(f[l]) + 1 \/ Len(f[l + 1]) = Len(f[l]) + 2
        BY <1>6, <2>2
      <4> QED BY <1>6, <2>2, <4>1, <4>2
    <3>3. ASSUME NEW k \in 0 .. l + 1
          PROVE  /\ Len(f[k]) <= Len(f[l + 1])
                 /\ \A j \in 1 .. Len(f[k]) : f[l + 1][j] = f[k][j]
      <4>1. CASE k = l + 1
        <5>1. Len(f[l + 1]) \in Nat
          BY <1>4, <3>1
        <5> QED BY <4>1, <5>1
      <4>2. CASE k \in 0 .. l
        <5>1. k \in 0 .. n
          BY <4>2
        <5>2. Len(f[k]) \in Nat /\ Len(f[l]) \in Nat /\ Len(f[l + 1]) \in Nat
          BY <1>4, <3>1, <5>1
        <5>3. Len(f[k]) <= Len(f[l]) /\ \A j \in 1 .. Len(f[k]) : f[l][j] = f[k][j]
          BY <2>2, <4>2
        <5>4. \A j \in 1 .. Len(f[k]) : j \in 1 .. Len(f[l])
          BY <5>2, <5>3
        <5> QED BY <3>2, <5>2, <5>3, <5>4
      <4> QED BY <3>1, <4>1, <4>2
    <3> QED BY <3>1, <3>3
  <2> HIDE DEF S
  <2>3. \A l \in 0 .. n : l \in S
    BY <2>1, <2>2, Induction
  <2>4. n \in S
    BY <2>3
  <2> QED BY <1>3, <2>4 DEF S
<1>8. \A j \in 1 .. Len(e) : e[j] \notin {"LF", "CR"}
  <2> DEFINE S == {k \in 0 .. n : \A j \in 1 .. Len(f[k]) : f[k][j] \notin {"LF", "CR"}}
  <2>1. 0 \in S
    <3>1. 0 \in 0 .. n /\ Len(f[0]) = 0
      BY <1>1
    <3> QED BY <3>1
  <2>2. ASSUME NEW k \in 0 .. n, k \in S /\ k # n PROVE k + 1 \in S
    <3>1. k + 1 \in 0 .. n /\ Len(f[k]) \in Nat
      BY <1>4, <1>5, <2>2
    <3>2. \A j \in 1 .. Len(f[k]) : f[k + 1][j] \notin {"LF", "CR"}
      <4>1. \A j \in 1 .. Len(f[k]) : f[k + 1][j] = f[k][j]
        BY <1>6, <2>2
      <4> QED BY <2>2, <4>1
    <3>3. ASSUME NEW j \in 1 .. Len(f[k + 1]), j \notin 1 .. Len(f[k])
          PROVE  f[k + 1][j] \notin {"LF", "CR"}
      <4>1. CASE /\ v[k + 1] \notin {"LF", "CR", "TAB", "BS"}
                 /\ Len(f[k + 1]) = Len(f[k]) + 1 /\ f[k + 1][Len(f[k]) + 1] = v[k + 1]
        <5>1. j = Len(f[k]) + 1
          BY <3>1, <3>3, <4>1
        <5> QED BY <4>1, <5>1
      <4>2. CASE \E c \in {"n", "r", "t", "BS"} :
                      /\ Len(f[k + 1]) = Len(f[k]) + 2
                      /\ f[k + 1][Len(f[k]) + 1] = "BS" /\ f[k + 1][Len(f[k]) + 2] = c
        <5>1. PICK c \in {"n", "r", "t", "BS"} :
                      /\ Len(f[k + 1]) = Len(f[k]) + 2
                      /\ f[k + 1][Len(f[k]) + 1] = "BS" /\ f[k + 1][Len(f[k]) + 2] = c
          BY <4>2
        <5>2. j = Len(f[k]) + 1 \/ j = Len(f[k]) + 2
          BY <3>1, <3>3, <5>1
        <5>3. CASE j = Len(f[k]) + 1
          BY <5>1, <5>3
        <5>4. CASE j = Len(f[k]) + 2
          BY <5>1, <5>4
        <5> QED BY <5>2, <5>3, <5>4
      <4> QED BY <1>6, <2>2, <4>1, <4>2
    <3> QED BY <3>1, <3>2, <3>3
  <2> HIDE DEF S
  <2>3. \A k \in 0 .. n : k \in S
    BY <2>1, <2>2, Induction
  <2>4. n \in S
    BY <2>3
  <2> QED BY <1>3, <2>4 DEF S
<1>9. PICK d : /\ d[0] = DecodeStart
               /\ \A i \in 1 .. Len(e) : d[i] = DecodeNext(d[i - 1], e[i])
               /\ DecodeAll(e) = d[Len(e)]
  BY DecodeRun
<1>10. \A k \in 0 .. n : d[Len(f[k])] = [out |-> SubSeq(v, 1, k), esc |-> FALSE, ok |-> TRUE]
  <2> DEFINE S == {k \in 0 .. n : d[Len(f[k])] = [out |-> SubSeq(v, 1, k), esc |-> FALSE, ok |-> TRUE]}
  <2>0. /\ SubSeq(v, 1, 0) = << >>
        /\ \A k \in 0 .. n : k # n => SubSeq(v, 1, k + 1) = Append(SubSeq(v, 1, k), v[k + 1])
    BY <1>2, SubSeqNext DEF Text
  <2>1. 0 \in S
    <3>1. 0 \in 0 .. n /\ Len(f[0]) = 0
      BY <1>1
    <3> QED BY <1>9, <2>0, <3>1 DEF DecodeStart
  <2>2. ASSUME NEW k \in 0 .. n, k \in S /\ k # n PROVE k + 1 \in S
    <3>1. k + 1 \in 0 .. n
      BY <1>5, <2>2
    <3>2. PICK L \in Nat : L = Len(f[k])
      BY <1>4
    <3>3. PICK M \in Nat : M = Len(f[k + 1])
      BY <1>4, <3>1
    <3>4. PICK o : o = SubSeq(v, 1, k)
      BY Zenon
    <3>5. M <= Len(e) /\ \A j \in 1 .. M : e[j] = f[k + 1][j]
      BY <1>7, <3>1, <3>3
    <3>6. d[L] = [out |-> o, esc |-> FALSE, ok |-> TRUE]
      BY <2>2, <3>2, <3>4
    <3>7. SubSeq(v, 1, k + 1) = Append(o, v[k + 1])
      BY <2>0, <2>2, <3>4
    <3>8. d[M] = [out |-> Append(o, v[k + 1]), esc |-> FALSE, ok |-> TRUE]
      <4>1. CASE /\ v[k + 1] \notin {"LF", "CR", "TAB", "BS"}
                 /\ Len(f[k + 1]) = Len(f[k]) + 1 /\ f[k + 1][Len(f[k]) + 1] = v[k + 1]
        <5>1. M = L + 1 /\ M - 1 = L /\ M \in 1 .. M /\ M \in 1 .. Len(e)
          BY <1>4, <3>2, <3>3, <3>5, <4>1
        <5>2. e[M] = v[k + 1] /\ v[k + 1] # "BS"
          BY <3>2, <3>5, <4>1, <5>1
        <5>3. d[M] = DecodeNext(d[L], e[M])
          BY <1>9, <5>1
        <5> QED BY <3>6, <5>2, <5>3, DecodePlain
      <4>2. CASE \E c \in {"n", "r", "t", "BS"} :
                      /\ Len(f[k + 1]) = Len(f[k]) + 2
                      /\ f[k + 1][Len(f[k]) + 1] = "BS" /\ f[k + 1][Len(f[k]) + 2] = c
                      /\ c \in DOMAIN Unescaped /\ Unescaped[c] = v[k + 1]
        <5>1. PICK c \in {"n", "r", "t", "BS"} :
                      /\ Len(f[k + 1]) = Len(f[k]) + 2
                      /\ f[k + 1][Len(f[k]) + 1] = "BS" /\ f[k + 1][Len(f[k]) + 2] = c
                      /\ c \in DOMAIN Unescaped /\ Unescaped[c] = v[k + 1]
          BY <4>2
        <5>2. PICK N \in Nat : N = L + 1
          OBVIOUS
        <5>3. /\ M = L + 2 /\ N - 1 = L /\ M - 1 = N
              /\ N \in 1 .. M /\ M \in 1 .. M /\ N \in 1 .. Len(e) /\ M \in 1 .. Len(e)
          BY <1>4, <3>2, <3>3, <3>5, <5>1, <5>2
        <5>4. e[N] = "BS" /\ e[M] = c
          BY <3>2, <3>5, <5>1, <5>2, <5>3
        <5>5. d[N] = DecodeNext(d[L], "BS") /\ d[M] = DecodeNext(d[N], c)
          BY <1>9, <5>3, <5>4
        <5>6. d[N] = [out |-> o, esc |-> TRUE, ok |-> TRUE]
          BY <3>6, <5>5, DecodePlain
        <5>7. DecodeNext([out |-> o, esc |-> TRUE, ok |-> TRUE], c)
              = [out |-> Append(o, Unescaped[c]), esc |-> FALSE, ok |-> TRUE]
          BY <5>1 DEF DecodeNext
        <5> QED BY <5>1, <5>5, <5>6, <5>7
      <4> QED BY <1>6, <2>2, <4>1, <4>2
    <3> QED BY <3>1, <3>3, <3>7, <3>8
  <2> HIDE DEF S
  <2>3. \A k \in 0 .. n : k \in S
    BY <2>1, <2>2, Induction
  <2> QED BY <2>3 DEF S
<1>11. DecodeAll(e) = [out |-> v, esc |-> FALSE, ok |-> TRUE]
  <2>1. SubSeq(v, 1, n) = v /\ n \in 0 .. n
    BY <1>2, SubSeqNext DEF Text
  <2> QED BY <1>3, <1>9, <1>10, <2>1
<1>12. opty_escape_session_value(v) = e
  BY <1>1, <1>2, <1>3
<1> QED BY <1>8, <1>11, <1>12

\* Trimming leaves a text that does not end in a carriage return, and printing
\* one without a newline, as they are.
LEMMA ChompKeeps ==
  ASSUME NEW v \in Text, v # << >> => v[Len(v)] # "CR"
  PROVE  opty_chomp(v) = v
<1>0. Len(v) \in Nat /\ DOMAIN v = 1 .. Len(v) /\ (v = << >> <=> Len(v) = 0)
  BY DEF Text
<1>1. PICK kept : kept = {i \in DOMAIN v : v[i] # "CR"}
  BY Zenon
<1>2. opty_chomp(v) = IF kept = {} THEN << >> ELSE SubSeq(v, 1, Max(kept))
  BY <1>1 DEF opty_chomp
<1>3. CASE v = << >>
  <2>1. kept = {}
    BY <1>0, <1>1, <1>3
  <2> QED BY <1>2, <1>3, <2>1
<1>4. CASE v # << >>
  <2>1. Len(v) \in kept /\ kept \subseteq 1 .. Len(v)
    BY <1>0, <1>1, <1>4
  <2>2. \A y \in kept : Len(v) >= y
    BY <1>0, <2>1
  <2>3. PICK m : m = Max(kept)
    BY Zenon
  <2>4. m \in kept /\ \A y \in kept : m >= y
    BY <2>1, <2>2, <2>3 DEF Max
  <2>5. m = Len(v)
    <3>1. m \in 1 .. Len(v)
      BY <2>1, <2>4, Zenon
    <3>2. m >= Len(v)
      BY <2>1, <2>4, Zenon
    <3>3. PICK n \in Nat : n = Len(v)
      BY <1>0
    <3>4. m \in 1 .. n /\ m >= n
      BY <3>1, <3>2, <3>3, Zenon
    <3>5. m = n
      BY <3>4
    <3> QED BY <3>3, <3>5
  <2>6. kept # {}
    BY <2>1
  <2> QED BY <1>2, <2>3, <2>5, <2>6, SubSeqNext DEF Text
<1> QED BY <1>3, <1>4

LEMMA PrintedKeeps ==
  ASSUME NEW v \in Text, \A i \in 1 .. Len(v) : v[i] # "LF"
  PROVE  Printed(v) = v
<1>1. DOMAIN v = 1 .. Len(v)
  BY DEF Text
<1>2. {i \in DOMAIN v : v[i] = "LF"} = {}
  BY <1>1
<1> QED BY <1>2 DEF Printed

\* Every text survives opty_escape_session_value, the line of the file, the trim
\* and either decoder: MCSessionFile!RoundTrip for texts of any length.
THEOREM ValueRoundTrip ==
  ASSUME NEW v \in Text
  PROVE  LET e == opty_escape_session_value(v)
         IN  /\ opty_decode_session_value(opty_chomp(e)) = v
             /\ opty_decode_graceful_input(opty_chomp(e)) = v
             /\ opty_chomp(e) = e
             /\ Printed(e) = e
<1>1. PICK e : e = opty_escape_session_value(v)
  BY Zenon
<1>2. /\ e \in Text
      /\ \A j \in 1 .. Len(e) : e[j] \notin {"LF", "CR"}
      /\ DecodeAll(e) = [out |-> v, esc |-> FALSE, ok |-> TRUE]
  BY <1>1, EscapedValue
<1>3. opty_chomp(e) = e
  <2>1. e # << >> => Len(e) \in 1 .. Len(e)
    BY <1>2 DEF Text
  <2> QED BY <1>2, <2>1, ChompKeeps
<1>4. Printed(e) = e
  BY <1>2, PrintedKeeps
<1>5. opty_decode_session_value(e) = v
  BY <1>2 DEF opty_decode_session_value
<1>6. opty_decode_graceful_input(e) = v
  BY <1>2 DEF opty_decode_graceful_input
<1> QED BY <1>1, <1>3, <1>4, <1>5, <1>6

\* The line that a start writes for graceful_input is the default, escaped.
LEMMA DefaultIsEscaped == opty_escape_session_value(DefaultInput) = DefaultLine /\ DefaultInput \in Text
<1>1. PICK v \in Text : v = DefaultInput
  <2>1. "a" \in Char /\ "LF" \in Char
    BY DEF Char
  <2>2. <<"a", "LF">> \in Seq(Char)
    BY <2>1
  <2> QED BY <2>2 DEF DefaultInput, Text
<1>2. Len(v) = 2 /\ v[1] = "a" /\ v[2] = "LF"
  BY <1>1 DEF DefaultInput
<1>3. PICK f \in [0 .. Len(v) -> Text] :
            /\ f[0] = << >>
            /\ \A i \in 1 .. Len(v) : f[i] = f[i - 1] \o Escaped(v[i])
            /\ opty_escape_session_value(v) = f[Len(v)]
  BY EscapeRun
<1>4. Escaped("a") = <<"a">> /\ Escaped("LF") = <<"BS", "n">>
  BY DEF Escaped
<1>5. f[1] = f[0] \o Escaped(v[1]) /\ f[2] = f[1] \o Escaped(v[2])
  <2>1. 1 \in 1 .. Len(v) /\ 2 \in 1 .. Len(v) /\ 1 - 1 = 0 /\ 2 - 1 = 1
    BY <1>2
  <2> QED BY <1>3, <2>1
<1>6. f[1] = <<"a">>
  BY <1>2, <1>3, <1>4, <1>5
<1>7. f[2] = <<"a", "BS", "n">>
  <2>1. <<"a">> \o <<"BS", "n">> = <<"a", "BS", "n">>
    OBVIOUS
  <2> QED BY <1>2, <1>4, <1>5, <1>6, <2>1
<1> QED BY <1>1, <1>2, <1>3, <1>7 DEF DefaultLine

-----------------------------------------------------------------------------
(***************************************************************************)
(* The record of a start: the lines of its file, and what is read of them. *)
(***************************************************************************)
Jobs == [id : Nat, argv : Seq(Text), cwd : Text, input : Text]

Keys == {"port", "control_token", "graceful_input", "argc", "argv_encoding", "argv", "cwd"}

Lines == [key : Keys, index : Nat, value : Nat \cup Text \cup {"escape"}]

CwdLines(s) == IF s.cwd = << >> THEN 0 ELSE 1

\* The file says what start s put there, and the input that a user chose.
Whole(lines, s) ==
    /\ lines \in Seq(Lines)
    /\ Len(lines) = 5 + Len(s.argv) + CwdLines(s)
    /\ lines[1] = [key |-> "port", index |-> 0, value |-> s.id]
    /\ lines[2] = [key |-> "control_token", index |-> 0, value |-> s.id]
    /\ lines[3] = [key |-> "graceful_input", index |-> 0, value |-> opty_escape_session_value(s.input)]
    /\ lines[4] = [key |-> "argc", index |-> 0, value |-> Len(s.argv)]
    /\ lines[5] = [key |-> "argv_encoding", index |-> 0, value |-> "escape"]
    /\ \A i \in 1 .. Len(s.argv) :
          lines[5 + i] = [key |-> "argv", index |-> i, value |-> opty_escape_session_value(s.argv[i])]
    /\ s.cwd # << >> =>
          lines[6 + Len(s.argv)] = [key |-> "cwd", index |-> 0, value |-> Printed(s.cwd)]

\* The directory's line gives the directory back.
Printable(c) == opty_chomp(Printed(c)) = c

\* Five lines one after the other.
Five(a, b, c, d, e) == <<a>> \o <<b>> \o <<c>> \o <<d>> \o <<e>>

AreFive(h, a, b, c, d, e) == Len(h) = 5 /\ h[1] = a /\ h[2] = b /\ h[3] = c /\ h[4] = d /\ h[5] = e

LEMMA Singles ==
  ASSUME NEW S, NEW a \in S, NEW b \in S, NEW c \in S, NEW d \in S, NEW e \in S
  PROVE  Five(a, b, c, d, e) \in Seq(S) /\ AreFive(Five(a, b, c, d, e), a, b, c, d, e)
<1>1. PICK ya : ya = <<a>>
  BY Zenon
<1>2. PICK yb : yb = <<b>>
  BY Zenon
<1>3. PICK yc : yc = <<c>>
  BY Zenon
<1>4. PICK yd : yd = <<d>>
  BY Zenon
<1>5. PICK ye : ye = <<e>>
  BY Zenon
<1>6. PICK h2 : h2 = ya \o yb
  BY Zenon
<1>7. PICK h3 : h3 = h2 \o yc
  BY Zenon
<1>8. PICK h4 : h4 = h3 \o yd
  BY Zenon
<1>9. PICK h5 : h5 = h4 \o ye
  BY Zenon
<1>10. ya \in Seq(S) /\ Len(ya) = 1 /\ ya[1] = a
  BY <1>1
<1>11. h2 \in Seq(S) /\ Len(h2) = 2 /\ h2[1] = a /\ h2[2] = b
  <2>1. PICK k : k = Len(ya)
    BY Zenon
  <2>2. PICK l : l = Len(yb)
    BY Zenon
  <2>3. ya \in Seq(S) /\ yb \in Seq(S)
    BY <1>2, <1>10
  <2>4. k = 1 /\ l = 1 /\ yb[1] = b
    BY <1>2, <1>10, <2>1, <2>2
  <2>5. /\ h2 \in Seq(S) /\ Len(h2) = k + l
        /\ \A i \in 1 .. k : h2[i] = ya[i]
        /\ \A i \in 1 .. l : h2[k + i] = yb[i]
    BY <1>6, <2>1, <2>2, <2>3
  <2> QED BY <1>10, <2>4, <2>5
<1>12. h3 \in Seq(S) /\ Len(h3) = 3 /\ h3[1] = a /\ h3[2] = b /\ h3[3] = c
  <2>1. PICK k : k = Len(h2)
    BY Zenon
  <2>2. PICK l : l = Len(yc)
    BY Zenon
  <2>3. h2 \in Seq(S) /\ yc \in Seq(S)
    BY <1>3, <1>11
  <2>4. k = 2 /\ l = 1 /\ yc[1] = c
    BY <1>3, <1>11, <2>1, <2>2
  <2>5. /\ h3 \in Seq(S) /\ Len(h3) = k + l
        /\ \A i \in 1 .. k : h3[i] = h2[i]
        /\ \A i \in 1 .. l : h3[k + i] = yc[i]
    BY <1>7, <2>1, <2>2, <2>3
  <2> QED BY <1>11, <2>4, <2>5
<1>13. h4 \in Seq(S) /\ Len(h4) = 4 /\ h4[1] = a /\ h4[2] = b /\ h4[3] = c /\ h4[4] = d
  <2>1. PICK k : k = Len(h3)
    BY Zenon
  <2>2. PICK l : l = Len(yd)
    BY Zenon
  <2>3. h3 \in Seq(S) /\ yd \in Seq(S)
    BY <1>4, <1>12
  <2>4. k = 3 /\ l = 1 /\ yd[1] = d
    BY <1>4, <1>12, <2>1, <2>2
  <2>5. /\ h4 \in Seq(S) /\ Len(h4) = k + l
        /\ \A i \in 1 .. k : h4[i] = h3[i]
        /\ \A i \in 1 .. l : h4[k + i] = yd[i]
    BY <1>8, <2>1, <2>2, <2>3
  <2> QED BY <1>12, <2>4, <2>5
<1>14. h5 \in Seq(S) /\ Len(h5) = 5 /\ h5[1] = a /\ h5[2] = b /\ h5[3] = c /\ h5[4] = d /\ h5[5] = e
  <2>1. PICK k : k = Len(h4)
    BY Zenon
  <2>2. PICK l : l = Len(ye)
    BY Zenon
  <2>3. h4 \in Seq(S) /\ ye \in Seq(S)
    BY <1>5, <1>13
  <2>4. k = 4 /\ l = 1 /\ ye[1] = e
    BY <1>5, <1>13, <2>1, <2>2
  <2>5. /\ h5 \in Seq(S) /\ Len(h5) = k + l
        /\ \A i \in 1 .. k : h5[i] = h4[i]
        /\ \A i \in 1 .. l : h5[k + i] = ye[i]
    BY <1>9, <2>1, <2>2, <2>3
  <2> QED BY <1>13, <2>4, <2>5
<1>15. Five(a, b, c, d, e) = h5
  BY <1>1, <1>2, <1>3, <1>4, <1>5, <1>6, <1>7, <1>8, <1>9, Zenon DEF Five
<1> QED BY <1>14, <1>15, Zenon DEF AreFive

LEMMA LineType ==
  ASSUME NEW key \in Keys, NEW i \in Nat, NEW v \in Nat \cup Text \cup {"escape"}
  PROVE  [key |-> key, index |-> i, value |-> v] \in Lines
BY DEF Lines

\* What opty_write_session writes is the record of the start.
LEMMA ContentWhole ==
  ASSUME NEW s \in Jobs, s.input = DefaultInput, Printed(s.cwd) \in Text
  PROVE  Whole(Content(s), s)
<1>0. s.id \in Nat /\ s.argv \in Seq(Text) /\ Len(s.argv) \in Nat /\ s.cwd \in Text
  BY DEF Jobs
<1>1. PICK n \in Nat : n = Len(s.argv)
  BY <1>0
<1>2. DefaultLine \in Text
  BY DefaultIsEscaped, EscapedValue
<1> DEFINE V == Nat \cup Text \cup {"escape"}
<1>3. /\ "port" \in Keys /\ "control_token" \in Keys /\ "graceful_input" \in Keys /\ "argc" \in Keys
      /\ "argv_encoding" \in Keys /\ "argv" \in Keys /\ "cwd" \in Keys
  BY DEF Keys
<1>v. s.id \in V /\ DefaultLine \in V /\ n \in V /\ "escape" \in V /\ Printed(s.cwd) \in V /\ 0 \in Nat
  BY <1>0, <1>2
<1>4. PICK r1 \in Lines : r1 = [key |-> "port", index |-> 0, value |-> s.id]
  <2>1. [key |-> "port", index |-> 0, value |-> s.id] \in Lines
    BY <1>3, <1>v, LineType
  <2> QED BY <2>1, Zenon
<1>5. PICK r2 \in Lines : r2 = [key |-> "control_token", index |-> 0, value |-> s.id]
  <2>1. [key |-> "control_token", index |-> 0, value |-> s.id] \in Lines
    BY <1>3, <1>v, LineType
  <2> QED BY <2>1, Zenon
<1>6. PICK r3 \in Lines : r3 = [key |-> "graceful_input", index |-> 0, value |-> DefaultLine]
  <2>1. [key |-> "graceful_input", index |-> 0, value |-> DefaultLine] \in Lines
    BY <1>3, <1>v, LineType
  <2> QED BY <2>1, Zenon
<1>7. PICK r4 \in Lines : r4 = [key |-> "argc", index |-> 0, value |-> n]
  <2>1. [key |-> "argc", index |-> 0, value |-> n] \in Lines
    BY <1>3, <1>v, LineType
  <2> QED BY <2>1, Zenon
<1>8. PICK r5 \in Lines : r5 = [key |-> "argv_encoding", index |-> 0, value |-> "escape"]
  <2>1. [key |-> "argv_encoding", index |-> 0, value |-> "escape"] \in Lines
    BY <1>3, <1>v, LineType
  <2> QED BY <2>1, Zenon
<1>9. PICK A : A = ArgvLines(s.argv)
  BY Zenon
<1>10. \A i \in 1 .. n : /\ A[i] = [key |-> "argv", index |-> i, value |-> opty_escape_session_value(s.argv[i])]
                         /\ A[i] \in Lines
  <2>1. ASSUME NEW i \in 1 .. n
        PROVE  A[i] = [key |-> "argv", index |-> i, value |-> opty_escape_session_value(s.argv[i])]
    BY <1>1, <1>9 DEF ArgvLines
  <2>2. ASSUME NEW i \in 1 .. n PROVE A[i] \in Lines
    <3>1. s.argv[i] \in Text
      BY <1>0, <1>1
    <3>2. PICK e : e = opty_escape_session_value(s.argv[i])
      BY Zenon
    <3>3. e \in V /\ i \in Nat
      BY <3>1, <3>2, EscapedValue
    <3>4. [key |-> "argv", index |-> i, value |-> e] \in Lines
      BY <1>3, <3>3, LineType
    <3> QED BY <2>1, <3>2, <3>4, Zenon
  <2> QED BY <2>1, <2>2, Zenon
<1>11. A \in Seq(Lines) /\ Len(A) = n
  <2>1. \E B : A = [i \in 1 .. n |-> B[i]]
    <3>1. A = [i \in 1 .. n |-> A[i]]
      BY <1>1, <1>9 DEF ArgvLines
    <3> QED BY <3>1, Zenon
  <2>2. \A i \in 1 .. n : A[i] \in Lines
    BY <1>10, Zenon
  <2>3. A \in [1 .. n -> Lines]
    BY <2>1, <2>2
  <2> QED BY <2>3
<1>12. PICK C : C = CwdLine(s)
  BY Zenon
<1>13. C \in Seq(Lines) /\ Len(C) = CwdLines(s)
  <2>1. CASE s.cwd = << >>
    BY <1>12, <2>1 DEF CwdLine, CwdLines
  <2>2. CASE s.cwd # << >>
    <3>1. PICK r6 \in Lines : r6 = [key |-> "cwd", index |-> 0, value |-> Printed(s.cwd)]
      <4>1. [key |-> "cwd", index |-> 0, value |-> Printed(s.cwd)] \in Lines
        BY <1>3, <1>v, LineType
      <4> QED BY <4>1, Zenon
    <3>2. C = <<r6>>
      BY <1>12, <2>2, <3>1 DEF CwdLine, Line
    <3>3. CwdLines(s) = 1
      BY <2>2 DEF CwdLines
    <3> QED BY <3>2, <3>3
  <2> QED BY <2>1, <2>2
<1>14. s.cwd # << >> => C = <<[key |-> "cwd", index |-> 0, value |-> Printed(s.cwd)]>>
  BY <1>12 DEF CwdLine, Line
<1>15. PICK h : h = Five(r1, r2, r3, r4, r5)
  BY Zenon
<1>16. h \in Seq(Lines) /\ Len(h) = 5 /\ h[1] = r1 /\ h[2] = r2 /\ h[3] = r3 /\ h[4] = r4 /\ h[5] = r5
  <2>1. h \in Seq(Lines) /\ AreFive(h, r1, r2, r3, r4, r5)
    BY <1>15, Singles, Zenon
  <2> QED BY <2>1, Zenon DEF AreFive
<1>17. h = Fields(s) \o Line("argv_encoding", "escape")
  BY <1>1, <1>4, <1>5, <1>6, <1>7, <1>8, <1>15, Zenon DEF Fields, Line, Five
<1>18. PICK m : m = h \o A
  BY Zenon
<1>19. /\ m \in Seq(Lines) /\ Len(m) = 5 + n
       /\ \A i \in 1 .. 5 : m[i] = h[i]
       /\ \A i \in 1 .. n : m[5 + i] = A[i]
  <2>1. PICK k : k = Len(h)
    BY Zenon
  <2>2. PICK l : l = Len(A)
    BY Zenon
  <2>3. h \in Seq(Lines) /\ A \in Seq(Lines)
    BY <1>11, <1>16
  <2>4. k = 5 /\ l = n
    BY <1>11, <1>16, <2>1, <2>2
  <2>5. /\ m \in Seq(Lines) /\ Len(m) = k + l
        /\ \A i \in 1 .. k : m[i] = h[i]
        /\ \A i \in 1 .. l : m[k + i] = A[i]
    BY <1>18, <2>1, <2>2, <2>3
  <2> QED BY <2>4, <2>5
<1>20. PICK c \in {0, 1} : c = CwdLines(s)
  BY DEF CwdLines
<1>21. PICK l : l = m \o C
  BY Zenon
<1>22. /\ l \in Seq(Lines) /\ Len(l) = 5 + n + c
       /\ \A i \in 1 .. 5 + n : l[i] = m[i]
       /\ \A i \in 1 .. c : l[5 + n + i] = C[i]
  <2>1. PICK k : k = Len(m)
    BY Zenon
  <2>2. PICK j : j = Len(C)
    BY Zenon
  <2>3. m \in Seq(Lines) /\ C \in Seq(Lines)
    BY <1>13, <1>19
  <2>4. k = 5 + n /\ j = c
    BY <1>13, <1>19, <1>20, <2>1, <2>2
  <2>5. /\ l \in Seq(Lines) /\ Len(l) = k + j
        /\ \A i \in 1 .. k : l[i] = m[i]
        /\ \A i \in 1 .. j : l[k + i] = C[i]
    BY <1>21, <2>1, <2>2, <2>3
  <2> QED BY <2>4, <2>5
<1>23. Content(s) = l
  BY <1>9, <1>12, <1>17, <1>18, <1>21, Zenon DEF Content
<1>24. 1 \in 1 .. 5 /\ 2 \in 1 .. 5 /\ 3 \in 1 .. 5 /\ 4 \in 1 .. 5 /\ 5 \in 1 .. 5
       /\ (\A i \in 1 .. 5 : i \in 1 .. 5 + n) /\ \A i \in 1 .. n : 5 + i \in 1 .. 5 + n
  OBVIOUS
<1>25. l[1] = r1 /\ l[2] = r2 /\ l[3] = r3 /\ l[4] = r4 /\ l[5] = r5
  BY <1>16, <1>19, <1>22, <1>24
<1>26. \A i \in 1 .. n : l[5 + i] = A[i]
  BY <1>19, <1>22, <1>24
<1>27. s.cwd # << >> => l[6 + n] = [key |-> "cwd", index |-> 0, value |-> Printed(s.cwd)]
  <2> SUFFICES ASSUME s.cwd # << >> PROVE l[6 + n] = [key |-> "cwd", index |-> 0, value |-> Printed(s.cwd)]
    OBVIOUS
  <2>1. c = 1
    BY <1>20 DEF CwdLines
  <2>2. 1 \in 1 .. c /\ 5 + n + 1 = 6 + n
    BY <2>1
  <2>3. l[6 + n] = C[1]
    BY <1>22, <2>2
  <2> QED BY <1>14, <2>3
<1>28. opty_escape_session_value(s.input) = DefaultLine
  BY DefaultIsEscaped
<1>29. l \in Seq(Lines) /\ Len(l) = 5 + Len(s.argv) + CwdLines(s)
  BY <1>1, <1>20, <1>22
<1>30. \A i \in 1 .. Len(s.argv) :
          l[5 + i] = [key |-> "argv", index |-> i, value |-> opty_escape_session_value(s.argv[i])]
  BY <1>1, <1>10, <1>26, Zenon
<1> QED BY <1>1, <1>4, <1>5, <1>6, <1>7, <1>8, <1>23, <1>25, <1>27, <1>28, <1>29, <1>30, Zenon DEF Whole

\* What has been read of a start's record after i lines.
InfoKeys == {"port", "control_token", "graceful_input", "argc", "escaped", "argv", "cwd"}

ArgvAfter(s, i) == [j \in 1 .. MaxArgc |-> IF j <= Len(s.argv) /\ 5 + j <= i THEN s.argv[j] ELSE None]

InfoAfter(s, i) ==
    [port |-> IF i >= 1 THEN s.id ELSE None,
     control_token |-> IF i >= 2 THEN s.id ELSE None,
     graceful_input |-> IF i >= 3 THEN opty_escape_session_value(s.input) ELSE DefaultLine,
     argc |-> IF i >= 4 THEN Len(s.argv) ELSE 0,
     escaped |-> IF i >= 5 THEN 1 ELSE 0,
     argv |-> ArgvAfter(s, i),
     cwd |-> IF i = 6 + Len(s.argv) THEN s.cwd ELSE << >>]

LEMMA InfoShape ==
  ASSUME NEW s, NEW i
  PROVE  InfoAfter(s, i) = [k \in InfoKeys |-> InfoAfter(s, i)[k]]
<1>1. PICK a : a = InfoAfter(s, i)
  BY Zenon
<1>2. DOMAIN a = InfoKeys
  BY <1>1 DEF InfoAfter, InfoKeys
<1>3. a = [k \in DOMAIN a |-> a[k]]
  BY <1>1 DEF InfoAfter
<1> QED BY <1>1, <1>2, <1>3

LEMMA Update ==
  ASSUME NEW a, NEW b, NEW f \in InfoKeys, NEW v,
         a = [k \in InfoKeys |-> a[k]], b = [k \in InfoKeys |-> b[k]],
         b[f] = v, \A k \in InfoKeys : k # f => b[k] = a[k]
  PROVE  [a EXCEPT ![f] = v] = b
<1>1. PICK r : r = [a EXCEPT ![f] = v]
  BY Zenon
<1>2. DOMAIN a = InfoKeys
  BY Zenon
<1>3. r = [k \in InfoKeys |-> r[k]]
  BY <1>1, <1>2
<1>4. ASSUME NEW k \in InfoKeys PROVE r[k] = b[k]
  BY <1>1, <1>2
<1> QED BY <1>1, <1>3, <1>4

LEMMA InfoFields ==
  ASSUME NEW s, NEW i
  PROVE  /\ InfoAfter(s, i).port = IF i >= 1 THEN s.id ELSE None
         /\ InfoAfter(s, i).control_token = IF i >= 2 THEN s.id ELSE None
         /\ InfoAfter(s, i).graceful_input = IF i >= 3 THEN opty_escape_session_value(s.input) ELSE DefaultLine
         /\ InfoAfter(s, i).argc = IF i >= 4 THEN Len(s.argv) ELSE 0
         /\ InfoAfter(s, i).escaped = IF i >= 5 THEN 1 ELSE 0
         /\ InfoAfter(s, i).argv = ArgvAfter(s, i)
         /\ InfoAfter(s, i).cwd = IF i = 6 + Len(s.argv) THEN s.cwd ELSE << >>
BY DEF InfoAfter

\* A header or the directory leaves the arguments alone, and an argument's line
\* adds the argument.
LEMMA ArgvNext ==
  ASSUME NEW s \in Jobs, Len(s.argv) <= MaxArgc, NEW i \in Nat, i >= 1
  PROVE  /\ i <= 5 \/ i = 6 + Len(s.argv) => ArgvAfter(s, i) = ArgvAfter(s, i - 1)
         /\ i > 5 /\ i <= 5 + Len(s.argv) =>
               ArgvAfter(s, i) = [ArgvAfter(s, i - 1) EXCEPT ![i - 5] = s.argv[i - 5]]
<1>0. MaxArgc \in Nat
  BY BoundsAssumption
<1>1. PICK n \in Nat : n = Len(s.argv)
  BY DEF Jobs
<1>2. PICK x : x = ArgvAfter(s, i - 1)
  BY Zenon
<1>3. PICK y : y = ArgvAfter(s, i)
  BY Zenon
<1>4. x = [j \in 1 .. MaxArgc |-> IF j <= n /\ 5 + j <= i - 1 THEN s.argv[j] ELSE None]
  BY <1>1, <1>2 DEF ArgvAfter
<1>5. y = [j \in 1 .. MaxArgc |-> IF j <= n /\ 5 + j <= i THEN s.argv[j] ELSE None]
  BY <1>1, <1>3 DEF ArgvAfter
<1>6. ASSUME i <= 5 \/ i = 6 + n PROVE y = x
  <2>1. \A j \in 1 .. MaxArgc : (j <= n /\ 5 + j <= i - 1) <=> (j <= n /\ 5 + j <= i)
    BY <1>0, <1>6
  <2>2. \A j \in 1 .. MaxArgc : x[j] = y[j]
    BY <1>4, <1>5, <2>1
  <2> QED BY <1>4, <1>5, <2>2
<1>7. ASSUME i > 5, i <= 5 + n PROVE y = [x EXCEPT ![i - 5] = s.argv[i - 5]]
  <2>1. PICK m \in 1 .. MaxArgc : m = i - 5 /\ m <= n /\ 5 + m = i
    BY <1>0, <1>1, <1>7
  <2>2. \A j \in 1 .. MaxArgc : j # m => ((j <= n /\ 5 + j <= i - 1) <=> (j <= n /\ 5 + j <= i))
    BY <1>0, <2>1
  <2>3. y[m] = s.argv[m]
    BY <1>5, <2>1
  <2>4. \A j \in 1 .. MaxArgc : j # m => x[j] = y[j]
    BY <1>4, <1>5, <2>2
  <2>5. y = [x EXCEPT ![m] = s.argv[m]]
    BY <1>4, <1>5, <2>3, <2>4
  <2> QED BY <2>1, <2>5
<1> QED BY <1>1, <1>2, <1>3, <1>6, <1>7

LEMMA ReadNext ==
  ASSUME NEW s \in Jobs, Len(s.argv) <= MaxArgc, Printable(s.cwd),
         NEW lines, Whole(lines, s), NEW i \in 1 .. Len(lines)
  PROVE  ReadLine(InfoAfter(s, i - 1), lines[i]) = InfoAfter(s, i)
<1>1. PICK n \in Nat : n = Len(s.argv)
  BY DEF Jobs
<1>2. i \in Nat /\ i >= 1 /\ i <= Len(lines) /\ Len(lines) = 5 + n + CwdLines(s)
      /\ CwdLines(s) = (IF s.cwd = << >> THEN 0 ELSE 1)
  <2>1. Len(lines) = 5 + n + CwdLines(s)
    BY <1>1, Zenon DEF Whole
  <2>2. CwdLines(s) = (IF s.cwd = << >> THEN 0 ELSE 1)
    BY DEF CwdLines
  <2> QED BY <2>1, <2>2
<1>3. PICK a :
               /\ a = InfoAfter(s, i - 1)
               /\ a.port = IF i - 1 >= 1 THEN s.id ELSE None
               /\ a.control_token = IF i - 1 >= 2 THEN s.id ELSE None
               /\ a.graceful_input = IF i - 1 >= 3 THEN opty_escape_session_value(s.input) ELSE DefaultLine
               /\ a.argc = IF i - 1 >= 4 THEN n ELSE 0
               /\ a.escaped = IF i - 1 >= 5 THEN 1 ELSE 0
               /\ a.argv = ArgvAfter(s, i - 1)
               /\ a.cwd = IF i - 1 = 6 + n THEN s.cwd ELSE << >>
  <2>1. PICK a : a = InfoAfter(s, i - 1)
    BY Zenon
  <2>2. PICK i1 : i1 = i - 1
    BY Zenon
  <2>3. a = InfoAfter(s, i1)
    BY <2>1, <2>2
  <2> QED BY <1>1, <2>2, <2>3, InfoFields
<1>4. PICK b :
               /\ b = InfoAfter(s, i)
               /\ b.port = IF i >= 1 THEN s.id ELSE None
               /\ b.control_token = IF i >= 2 THEN s.id ELSE None
               /\ b.graceful_input = IF i >= 3 THEN opty_escape_session_value(s.input) ELSE DefaultLine
               /\ b.argc = IF i >= 4 THEN n ELSE 0
               /\ b.escaped = IF i >= 5 THEN 1 ELSE 0
               /\ b.argv = ArgvAfter(s, i)
               /\ b.cwd = IF i = 6 + n THEN s.cwd ELSE << >>
  BY <1>1, InfoFields
<1>5. a = [k \in InfoKeys |-> a[k]] /\ b = [k \in InfoKeys |-> b[k]]
  BY <1>3, <1>4, InfoShape, Zenon
<1>6. PICK l : l = lines[i]
  BY Zenon
<1>7. i <= 5 \/ i = 6 + n => b.argv = a.argv
  <2>1. i <= 5 \/ i = 6 + n => ArgvAfter(s, i) = ArgvAfter(s, i - 1)
    BY <1>1, <1>2, ArgvNext
  <2> QED BY <1>3, <1>4, <2>1
<1>8. /\ lines[1] = [key |-> "port", index |-> 0, value |-> s.id]
      /\ lines[2] = [key |-> "control_token", index |-> 0, value |-> s.id]
      /\ lines[3] = [key |-> "graceful_input", index |-> 0, value |-> opty_escape_session_value(s.input)]
      /\ lines[4] = [key |-> "argc", index |-> 0, value |-> n]
      /\ lines[5] = [key |-> "argv_encoding", index |-> 0, value |-> "escape"]
  BY <1>1, Zenon DEF Whole
<1>9. CASE i = 1
  <2>1. l.key = "port" /\ l.value = s.id
    BY <1>6, <1>8, <1>9
  <2>2. ReadLine(a, l) = [a EXCEPT !["port"] = s.id]
    BY <2>1 DEF ReadLine
  <2>3. b["port"] = s.id
    BY <1>2, <1>4, <1>9
  <2>4. \A k \in InfoKeys : k # "port" => b[k] = a[k]
    BY <1>2, <1>3, <1>4, <1>7, <1>9 DEF InfoKeys
  <2>5. "port" \in InfoKeys
    BY DEF InfoKeys
  <2>6. [a EXCEPT !["port"] = s.id] = b
    BY <1>5, <2>3, <2>4, <2>5, Update, Zenon
  <2> QED BY <1>3, <1>4, <1>6, <2>2, <2>6, Zenon
<1>10. CASE i = 2
  <2>1. l.key = "control_token" /\ l.value = s.id
    BY <1>6, <1>8, <1>10
  <2>2. ReadLine(a, l) = [a EXCEPT !["control_token"] = s.id]
    BY <2>1 DEF ReadLine
  <2>3. b["control_token"] = s.id
    BY <1>2, <1>4, <1>10
  <2>4. \A k \in InfoKeys : k # "control_token" => b[k] = a[k]
    BY <1>2, <1>3, <1>4, <1>7, <1>10 DEF InfoKeys
  <2>5. "control_token" \in InfoKeys
    BY DEF InfoKeys
  <2>6. [a EXCEPT !["control_token"] = s.id] = b
    BY <1>5, <2>3, <2>4, <2>5, Update, Zenon
  <2> QED BY <1>3, <1>4, <1>6, <2>2, <2>6, Zenon
<1>11. CASE i = 3
  <2>1. l.key = "graceful_input" /\ l.value = opty_escape_session_value(s.input)
    BY <1>6, <1>8, <1>11
  <2>2. ReadLine(a, l) = [a EXCEPT !["graceful_input"] = opty_escape_session_value(s.input)]
    <3>1. s.input \in Text
      BY DEF Jobs
    <3>2. opty_chomp(opty_escape_session_value(s.input)) = opty_escape_session_value(s.input)
      BY <3>1, ValueRoundTrip
    <3>3. ReadLine(a, l) = [a EXCEPT !["graceful_input"] = opty_chomp(l.value)]
      BY <2>1 DEF ReadLine
    <3> QED BY <2>1, <3>2, <3>3
  <2>3. b["graceful_input"] = opty_escape_session_value(s.input)
    BY <1>2, <1>4, <1>11
  <2>4. \A k \in InfoKeys : k # "graceful_input" => b[k] = a[k]
    BY <1>2, <1>3, <1>4, <1>7, <1>11 DEF InfoKeys
  <2>5. "graceful_input" \in InfoKeys
    BY DEF InfoKeys
  <2>6. [a EXCEPT !["graceful_input"] = opty_escape_session_value(s.input)] = b
    BY <1>5, <2>3, <2>4, <2>5, Update, Zenon
  <2> QED BY <1>3, <1>4, <1>6, <2>2, <2>6, Zenon
<1>12. CASE i = 4
  <2>1. l.key = "argc" /\ l.value = n
    BY <1>6, <1>8, <1>12
  <2>2. ReadLine(a, l) = [a EXCEPT !["argc"] = n]
    BY <2>1 DEF ReadLine
  <2>3. b["argc"] = n
    BY <1>2, <1>4, <1>12
  <2>4. \A k \in InfoKeys : k # "argc" => b[k] = a[k]
    BY <1>2, <1>3, <1>4, <1>7, <1>12 DEF InfoKeys
  <2>5. "argc" \in InfoKeys
    BY DEF InfoKeys
  <2>6. [a EXCEPT !["argc"] = n] = b
    BY <1>5, <2>3, <2>4, <2>5, Update, Zenon
  <2> QED BY <1>3, <1>4, <1>6, <2>2, <2>6, Zenon
<1>13. CASE i = 5
  <2>1. l.key = "argv_encoding" /\ l.value = "escape"
    BY <1>6, <1>8, <1>13
  <2>2. ReadLine(a, l) = [a EXCEPT !["escaped"] = 1]
    BY <2>1 DEF ReadLine
  <2>3. b["escaped"] = 1
    BY <1>2, <1>4, <1>13
  <2>4. \A k \in InfoKeys : k # "escaped" => b[k] = a[k]
    BY <1>2, <1>3, <1>4, <1>7, <1>13 DEF InfoKeys
  <2>5. "escaped" \in InfoKeys
    BY DEF InfoKeys
  <2>6. [a EXCEPT !["escaped"] = 1] = b
    BY <1>5, <2>3, <2>4, <2>5, Update, Zenon
  <2> QED BY <1>3, <1>4, <1>6, <2>2, <2>6, Zenon
<1>14. CASE i > 5 /\ i <= 5 + n
  <2>1. PICK m \in 1 .. n : m = i - 5 /\ 5 + m = i
    BY <1>2, <1>14
  <2>2. PICK t \in Text : t = s.argv[m]
    BY <1>1 DEF Jobs
  <2>3. lines[5 + m] = [key |-> "argv", index |-> m, value |-> opty_escape_session_value(s.argv[m])]
    BY <1>1, Zenon DEF Whole
  <2>4. l.key = "argv" /\ l.index = m /\ l.value = opty_escape_session_value(t)
    BY <1>6, <2>1, <2>2, <2>3
  <2>5. opty_decode_session_value(opty_chomp(opty_escape_session_value(t))) = t
    BY ValueRoundTrip
  <2>6. a.escaped = 1
    BY <1>2, <1>3, <1>14
  <2>7. ReadLine(a, l) = [a EXCEPT !.argv[l.index] = opty_decode_session_value(opty_chomp(l.value))]
    BY <2>4, <2>6 DEF ReadLine
  <2>8. PICK x : x = [a.argv EXCEPT ![m] = t]
    BY Zenon
  <2>9. ReadLine(a, l) = [a EXCEPT !["argv"] = x]
    BY <2>4, <2>5, <2>7, <2>8
  <2>10. b["argv"] = x
    <3>1. ArgvAfter(s, i) = [ArgvAfter(s, i - 1) EXCEPT ![i - 5] = s.argv[i - 5]]
      BY <1>1, <1>2, <1>14, ArgvNext
    <3> QED BY <1>3, <1>4, <2>1, <2>2, <2>8, <3>1
  <2>11. \A k \in InfoKeys : k # "argv" => b[k] = a[k]
    BY <1>2, <1>3, <1>4, <1>14 DEF InfoKeys
  <2>12. "argv" \in InfoKeys
    BY DEF InfoKeys
  <2>13. [a EXCEPT !["argv"] = x] = b
    BY <1>5, <2>10, <2>11, <2>12, Update, Zenon
  <2> QED BY <1>3, <1>4, <1>6, <2>9, <2>13, Zenon
<1>15. CASE i = 6 + n
  <2>1. s.cwd # << >>
    BY <1>2, <1>15
  <2>2. l = [key |-> "cwd", index |-> 0, value |-> Printed(s.cwd)]
    BY <1>1, <1>6, <1>15, <2>1 DEF Whole
  <2>3. ReadLine(a, l) = [a EXCEPT !["cwd"] = opty_chomp(Printed(s.cwd))]
    BY <2>2 DEF ReadLine
  <2>4. opty_chomp(Printed(s.cwd)) = s.cwd
    BY DEF Printable
  <2>5. b["cwd"] = s.cwd
    BY <1>4, <1>15
  <2>6. \A k \in InfoKeys : k # "cwd" => b[k] = a[k]
    BY <1>2, <1>3, <1>4, <1>7, <1>15 DEF InfoKeys
  <2>7. "cwd" \in InfoKeys
    BY DEF InfoKeys
  <2>8. [a EXCEPT !["cwd"] = s.cwd] = b
    BY <1>5, <2>5, <2>6, <2>7, Update, Zenon
  <2> QED BY <1>3, <1>4, <1>6, <2>3, <2>4, <2>8, Zenon
<1>16. i = 1 \/ i = 2 \/ i = 3 \/ i = 4 \/ i = 5 \/ (i > 5 /\ i <= 5 + n) \/ i = 6 + n
  BY <1>2
<1> QED BY <1>9, <1>10, <1>11, <1>12, <1>13, <1>14, <1>15, <1>16

LEMMA InfoStart ==
  ASSUME NEW s \in Jobs
  PROVE  InfoAfter(s, 0) = opty_session_info_init
<1>1. PICK n \in Nat : n = Len(s.argv)
  BY DEF Jobs
<1>2. ArgvAfter(s, 0) = [j \in 1 .. MaxArgc |-> None]
  <2>1. \A j \in 1 .. MaxArgc : ~(5 + j <= 0)
    BY BoundsAssumption
  <2> QED BY <2>1 DEF ArgvAfter
<1>3. 0 # 6 + n
  OBVIOUS
<1>4. PICK a : a = InfoAfter(s, 0)
  BY Zenon
<1>5. PICK b : b = opty_session_info_init
  BY Zenon
<1>6. b = [k \in InfoKeys |-> b[k]]
  <2>1. DOMAIN b = InfoKeys
    BY <1>5 DEF opty_session_info_init, InfoKeys
  <2>2. b = [k \in DOMAIN b |-> b[k]]
    BY <1>5 DEF opty_session_info_init
  <2> QED BY <2>1, <2>2
<1>7. /\ a.port = None /\ a.control_token = None /\ a.graceful_input = DefaultLine /\ a.argc = 0
      /\ a.escaped = 0 /\ a.argv = ArgvAfter(s, 0) /\ a.cwd = << >>
  <2>1. a.cwd = << >>
    BY <1>1, <1>3, <1>4, InfoFields
  <2> QED BY <1>4, <2>1, InfoFields
<1>8. \A k \in InfoKeys : a[k] = b[k]
  <2>1. b.argv = ArgvAfter(s, 0)
    BY <1>2, <1>5, Zenon DEF opty_session_info_init
  <2>2. /\ b.port = None /\ b.control_token = None /\ b.graceful_input = DefaultLine /\ b.argc = 0
        /\ b.escaped = 0 /\ b.cwd = << >>
    BY <1>5, Zenon DEF opty_session_info_init
  <2> QED BY <1>7, <2>1, <2>2 DEF InfoKeys
<1>9. a = [k \in InfoKeys |-> a[k]]
  BY <1>4, InfoShape, Zenon
<1>10. a = b
  BY <1>6, <1>8, <1>9
<1> QED BY <1>4, <1>5, <1>10

LEMMA ReadWhole ==
  ASSUME NEW s \in Jobs, Len(s.argv) <= MaxArgc, Printable(s.cwd), NEW lines, Whole(lines, s)
  PROVE  opty_read_session_info(lines) = InfoAfter(s, Len(lines))
<1>1. PICK N \in Nat : N = Len(lines)
  BY DEF Whole
<1> DEFINE P(f) == f = [i \in 0 .. Len(lines) |->
                            IF i = 0 THEN opty_session_info_init ELSE ReadLine(f[i - 1], lines[i])]
<1>2. \E f : P(f)
  <2>1. PICK r : r = [i \in 0 .. N |-> InfoAfter(s, i)]
    BY Zenon
  <2>2. ASSUME NEW i \in 0 .. N
        PROVE  r[i] = IF i = 0 THEN opty_session_info_init ELSE ReadLine(r[i - 1], lines[i])
    <3>1. CASE i = 0
      BY <2>1, <3>1, InfoStart
    <3>2. CASE i # 0
      <4>1. i \in 1 .. N /\ i - 1 \in 0 .. N
        BY <3>2
      <4>2. r[i - 1] = InfoAfter(s, i - 1) /\ r[i] = InfoAfter(s, i)
        BY <2>1, <4>1
      <4>3. ReadLine(InfoAfter(s, i - 1), lines[i]) = InfoAfter(s, i)
        BY <1>1, <4>1, ReadNext, Zenon
      <4> QED BY <3>2, <4>2, <4>3
    <3> QED BY <3>1, <3>2
  <2>3. P(r)
    BY <1>1, <2>1, <2>2
  <2> QED BY <2>3, Zenon
<1>3. PICK f : f = CHOOSE g : P(g)
  BY Zenon
<1>4. P(f)
  BY <1>2, <1>3, Zenon
<1>5. \A i \in 0 .. N : f[i] = IF i = 0 THEN opty_session_info_init ELSE ReadLine(f[i - 1], lines[i])
  BY <1>1, <1>4
<1>6. \A i \in 0 .. N : f[i] = InfoAfter(s, i)
  <2> DEFINE S == {i \in 0 .. N : f[i] = InfoAfter(s, i)}
  <2>1. 0 \in S
    <3>1. 0 \in 0 .. N
      OBVIOUS
    <3> QED BY <1>5, <3>1, InfoStart
  <2>2. ASSUME NEW i \in 0 .. N, i \in S /\ i # N PROVE i + 1 \in S
    <3>1. PICK j \in 1 .. N : j = i + 1 /\ j \in 0 .. N /\ j # 0 /\ j - 1 = i
      BY <2>2
    <3>2. f[j] = ReadLine(f[j - 1], lines[j])
      BY <1>5, <3>1
    <3>3. f[j - 1] = InfoAfter(s, j - 1)
      BY <2>2, <3>1
    <3>4. ReadLine(InfoAfter(s, j - 1), lines[j]) = InfoAfter(s, j)
      BY <1>1, ReadNext, Zenon
    <3>5. f[j] = InfoAfter(s, j)
      BY <3>2, <3>3, <3>4
    <3> QED BY <3>1, <3>5
  <2> HIDE DEF S
  <2>3. \A i \in 0 .. N : i \in S
    BY <2>1, <2>2, Induction
  <2> QED BY <2>3 DEF S
<1>7. N \in 0 .. N
  OBVIOUS
<1>8. opty_read_session_info(lines) = f[N]
  BY <1>1, <1>3 DEF opty_read_session_info
<1> QED BY <1>1, <1>6, <1>7, <1>8

\* Restart and stop get from a whole record exactly what was started: its token,
\* argv, directory and input, for any argv and any input.
THEOREM RecordReadBack ==
  ASSUME NEW s \in Jobs, Len(s.argv) <= MaxArgc, Printable(s.cwd), NEW lines, Whole(lines, s)
  PROVE  Understood(lines) = s
<1>1. PICK n \in Nat : n = Len(s.argv)
  BY DEF Jobs
<1>2. PICK N : N = Len(lines)
  BY Zenon
<1>3. /\ N = (IF s.cwd = << >> THEN 5 + n ELSE 6 + n)
      /\ N \in Nat /\ N >= 5 + n
  <2>1. N = 5 + n + CwdLines(s)
    BY <1>1, <1>2, Zenon DEF Whole
  <2>2. CwdLines(s) = (IF s.cwd = << >> THEN 0 ELSE 1)
    BY DEF CwdLines
  <2> QED BY <2>1, <2>2
<1>4. PICK info : info = InfoAfter(s, N)
  BY Zenon
<1>5. opty_read_session_info(lines) = info
  BY <1>2, <1>4, ReadWhole, Zenon
<1>6. s.id \in Nat /\ s.argv \in Seq(Text) /\ s.input \in Text
      /\ s = [id |-> s.id, argv |-> s.argv, cwd |-> s.cwd, input |-> s.input]
  BY DEF Jobs
<1>7. /\ info.port = s.id /\ info.control_token = s.id
      /\ info.graceful_input = opty_escape_session_value(s.input) /\ info.argc = n
  BY <1>1, <1>3, <1>4, InfoFields
<1>8. info.cwd = s.cwd
  BY <1>1, <1>3, <1>4, InfoFields
<1>9. PICK x : x = info.argv
  BY Zenon
<1>10. x = [j \in 1 .. MaxArgc |-> IF j <= n THEN s.argv[j] ELSE None]
  <2>1. x = [j \in 1 .. MaxArgc |-> IF j <= Len(s.argv) /\ 5 + j <= N THEN s.argv[j] ELSE None]
    BY <1>4, <1>9, InfoFields DEF ArgvAfter
  <2>2. \A j \in 1 .. MaxArgc : (j <= n /\ 5 + j <= N) <=> j <= n
    BY <1>3, BoundsAssumption
  <2> QED BY <1>1, <2>1, <2>2
<1>11. \A j \in 1 .. n : x[j] = s.argv[j] /\ s.argv[j] \in Text /\ j \in 1 .. MaxArgc
  <2>1. MaxArgc \in Nat /\ n <= MaxArgc
    BY <1>1, BoundsAssumption
  <2>2. \A j \in 1 .. n : j \in 1 .. MaxArgc /\ j <= n
    BY <2>1
  <2>3. \A j \in 1 .. n : s.argv[j] \in Text
    BY <1>1, <1>6
  <2> QED BY <1>10, <2>2, <2>3
<1>12. Valid(info)
  <2>1. info.port # None
    BY <1>6, <1>7, NoneAssumption
  <2>2. \A j \in 1 .. n : x[j] # None
    BY <1>11, NoneAssumption
  <2> QED BY <1>7, <1>9, <2>1, <2>2 DEF Valid
<1>13. SubSeq(x, 1, n) = s.argv
  <2>1. PICK T : T = Text \cup {None}
    BY Zenon
  <2>2. MaxArgc \in Nat /\ n <= MaxArgc
    BY <1>1, BoundsAssumption
  <2>3. \A j \in 1 .. MaxArgc : x[j] \in T
    <3>1. ASSUME NEW j \in 1 .. MaxArgc PROVE x[j] \in T
      <4>1. CASE j <= n
        <5>1. j \in 1 .. n
          BY <2>2, <4>1
        <5> QED BY <1>11, <2>1, <5>1
      <4>2. CASE ~(j <= n)
        BY <1>10, <2>1, <4>2
      <4> QED BY <4>1, <4>2
    <3> QED BY <3>1
  <2>4. x \in [1 .. MaxArgc -> T]
    BY <1>10, <2>3
  <2>5. x \in Seq(T) /\ Len(x) = MaxArgc
    BY <2>2, <2>4
  <2>6. PICK y : y = SubSeq(x, 1, n)
    BY Zenon
  <2>7. y \in Seq(T) /\ Len(y) = n /\ \A j \in 1 .. n : y[j] = x[j]
    BY <2>2, <2>5, <2>6
  <2>8. \A j \in 1 .. n : y[j] = s.argv[j]
    BY <1>11, <2>7
  <2>9. y = s.argv
    BY <1>1, <1>6, <2>7, <2>8
  <2> QED BY <2>6, <2>9
<1>14. opty_decode_graceful_input(info.graceful_input) = s.input
  <2>1. opty_decode_graceful_input(opty_escape_session_value(s.input)) = s.input
    BY <1>6, ValueRoundTrip
  <2> QED BY <1>7, <2>1
<1>15. Understood(lines) = [id |-> info.control_token, argv |-> SubSeq(info.argv, 1, info.argc),
                           cwd |-> info.cwd, input |-> opty_decode_graceful_input(info.graceful_input)]
  BY <1>5, <1>12 DEF Understood
<1> QED BY <1>6, <1>7, <1>8, <1>9, <1>13, <1>14, <1>15, Zenon

-----------------------------------------------------------------------------
(***************************************************************************)
(* The type invariant.                                                     *)
(***************************************************************************)

\* What is printed of a text is a text.
LEMMA PrintedText ==
  ASSUME NEW v \in Text
  PROVE  Printed(v) \in Text
<1>1. PICK cut : cut = {i \in DOMAIN v : v[i] = "LF"}
  BY Zenon
<1>2. Printed(v) = IF cut = {} THEN v ELSE SubSeq(v, 1, Min(cut) - 1)
  BY <1>1 DEF Printed
<1>3. CASE cut = {}
  BY <1>2, <1>3
<1>4. CASE cut # {}
  <2>1. cut \subseteq 1 .. Len(v) /\ cut \subseteq Nat
    BY <1>1 DEF Text
  <2>2. PICK x \in cut : \A y \in cut : x <= y
    BY <1>4, <2>1, Least, Zenon
  <2>3. PICK m : m = Min(cut)
    BY Zenon
  <2>4. m \in cut
    BY <2>2, <2>3 DEF Min
  <2>5. m \in 1 .. Len(v)
    BY <2>1, <2>4, Zenon
  <2>6. SubSeq(v, 1, m - 1) \in Seq(Char)
    BY <2>5 DEF Text
  <2> QED BY <1>2, <1>4, <2>3, <2>6 DEF Text
<1> QED BY <1>3, <1>4

Made == made \subseteq [id : 1 .. MaxStarts, argv : Argv, cwd : Cwd, input : Input \cup {DefaultInput}]

Places == pc \in [Pid -> {"idle", "open", "write", "rename"}]

\* A process has something to write while it is at work, and only then.
Busy == \A p \in Pid : (pc[p] = "idle" <=> job[p] = None)

\* What it writes is a start that was made, with the default input.
Own == \A p \in Pid : pc[p] # "idle" => job[p] \in made /\ job[p].input = DefaultInput

Partial == \A p \in Pid : pc[p] \in {"write", "rename"} => tmp[p] \in Prefixes(Content(job[p]))

Functions == tmp = [p \in Pid |-> tmp[p]] /\ job = [p \in Pid |-> job[p]] /\ synced \in [Pid -> BOOLEAN]

SInv == Made /\ Places /\ Busy /\ Own /\ Partial /\ Functions /\ killed \subseteq Pid

LEMMA SInvTypeOK == SInv => TypeOK
BY Zenon DEF SInv, Made, Places, Busy, Own, Partial, Functions, TypeOK

LEMMA MadeJobs ==
  ASSUME Made, NEW s \in made
  PROVE  s \in Jobs
<1>1. /\ s.id \in 1 .. MaxStarts /\ s.argv \in Argv /\ s.cwd \in Cwd
      /\ s.input \in Input \cup {DefaultInput}
      /\ s = [id |-> s.id, argv |-> s.argv, cwd |-> s.cwd, input |-> s.input]
  BY DEF Made
<1>2. s.id \in Nat
  BY <1>1, BoundsAssumption
<1>3. s.argv \in Seq(Text)
  BY <1>1, ArgvAssumption
<1>4. s.cwd \in Text
  BY <1>1, TextAssumption
<1>5. s.input \in Text
  BY <1>1, TextAssumption, DefaultIsEscaped
<1> QED BY <1>1, <1>2, <1>3, <1>4, <1>5 DEF Jobs

LEMMA JobContent ==
  ASSUME SInv, NEW p \in Pid, pc[p] # "idle"
  PROVE  Whole(Content(job[p]), job[p]) /\ Content(job[p]) \in Seq(Lines)
<1>1. PICK s : s = job[p]
  BY Zenon
<1>2. s \in made /\ s.input = DefaultInput
  BY <1>1, Zenon DEF SInv, Own
<1>3. s \in Jobs
  BY <1>2, MadeJobs, Zenon DEF SInv
<1>4. Printed(s.cwd) \in Text
  <2>1. s.cwd \in Text
    BY <1>3 DEF Jobs
  <2> QED BY <2>1, PrintedText, Zenon
<1>5. Whole(Content(s), s)
  BY <1>2, <1>3, <1>4, ContentWhole, Zenon
<1> QED BY <1>1, <1>5, Zenon DEF Whole

LEMMA SInvInit == Init => SInv
<1> SUFFICES ASSUME Init PROVE SInv
  OBVIOUS
<1>1. Made /\ Places /\ Busy /\ Own /\ Partial /\ killed \subseteq Pid
  BY DEF Init, Made, Places, Busy, Own, Partial
<1>2. Functions
  <2>1. tmp = [p \in Pid |-> tmp[p]] /\ job = [p \in Pid |-> job[p]]
    BY DEF Init
  <2>2. synced \in [Pid -> BOOLEAN]
    BY DEF Init
  <2> QED BY <2>1, <2>2 DEF Functions
<1> QED BY <1>1, <1>2 DEF SInv

\* The number of the starts, and that of the next one.
LEMMA NextId ==
  ASSUME Made, Cardinality(Starts) < MaxStarts
  PROVE  Cardinality(Starts) + 1 \in 1 .. MaxStarts
<1>1. Starts \subseteq 1 .. MaxStarts
  BY DEF Made, Starts
<1>2. IsFiniteSet(1 .. MaxStarts)
  BY BoundsAssumption, FS_Interval
<1>3. IsFiniteSet(Starts)
  BY <1>1, <1>2, FS_Subset
<1>4. Cardinality(Starts) \in Nat
  BY <1>3, FS_CardinalityType
<1> QED BY <1>4, BoundsAssumption

LEMMA SInvStart ==
  ASSUME SInv, NEW p \in Pid, NEW argv \in Argv, NEW cwd \in Cwd, Start(p, argv, cwd)
  PROVE  SInv'
<1>1. PICK s : s = [id |-> Cardinality(Starts) + 1, argv |-> argv, cwd |-> cwd, input |-> DefaultInput]
  BY Zenon
<1>2. /\ pc[p] = "idle" /\ pc' = [pc EXCEPT ![p] = "open"]
      /\ job' = [job EXCEPT ![p] = s] /\ made' = made \cup {s}
      /\ tmp' = tmp /\ synced' = synced /\ killed' = killed
  BY <1>1 DEF Start, Goto
<1>3. Cardinality(Starts) + 1 \in 1 .. MaxStarts
  BY NextId DEF SInv, Start
<1>4. s \in [id : 1 .. MaxStarts, argv : Argv, cwd : Cwd, input : Input \cup {DefaultInput}]
      /\ s.input = DefaultInput
  BY <1>1, <1>3
<1>5. Made'
  BY <1>2, <1>4 DEF SInv, Made
<1>6. s # None
  <2>1. s \in made'
    BY <1>2
  <2>2. s \in Jobs
    <3>1. s.id \in Nat /\ s.argv \in Seq(Text) /\ s.cwd \in Text
      BY <1>4, BoundsAssumption, ArgvAssumption, TextAssumption
    <3>2. s.input \in Text
      BY <1>4, DefaultIsEscaped
    <3> QED BY <1>1, <3>1, <3>2 DEF Jobs
  <2> QED BY <2>2, NoneAssumption DEF Jobs
<1>7. DOMAIN pc = Pid /\ DOMAIN job = Pid
  <2>1. DOMAIN pc = Pid
    BY DEF SInv, Places
  <2>2. job = [q \in Pid |-> job[q]]
    BY DEF SInv, Functions
  <2>3. DOMAIN job = Pid
    BY <2>2
  <2> QED BY <2>1, <2>3
<1>8. \A q \in Pid : /\ pc'[q] = (IF q = p THEN "open" ELSE pc[q])
                     /\ job'[q] = (IF q = p THEN s ELSE job[q])
  BY <1>2, <1>7
<1>9. Places'
  BY <1>2 DEF SInv, Places
<1>10. Busy'
  BY <1>6, <1>8 DEF SInv, Busy
<1>11. Own'
  BY <1>2, <1>4, <1>8 DEF SInv, Own
<1>12. Partial'
  BY <1>2, <1>8 DEF SInv, Partial
<1>13. Functions'
  <2>1. job' = [q \in Pid |-> job'[q]]
    BY <1>2, <1>7
  <2> QED BY <1>2, <2>1 DEF SInv, Functions
<1> QED BY <1>2, <1>5, <1>9, <1>10, <1>11, <1>12, <1>13 DEF SInv

\* A process that ends: the other ones stay where they are.
LEMMA SInvEnds ==
  ASSUME SInv, NEW p \in Pid, pc' = [pc EXCEPT ![p] = "idle"], job' = [job EXCEPT ![p] = None],
         NEW x, tmp' = [tmp EXCEPT ![p] = x], synced' = synced, made' = made, killed' \subseteq Pid
  PROVE  SInv'
<1>1. DOMAIN pc = Pid /\ DOMAIN job = Pid /\ DOMAIN tmp = Pid
  <2>1. DOMAIN pc = Pid
    BY DEF SInv, Places
  <2>2. job = [q \in Pid |-> job[q]] /\ tmp = [q \in Pid |-> tmp[q]]
    BY DEF SInv, Functions
  <2> QED BY <2>1, <2>2
<1>2. \A q \in Pid : /\ pc'[q] = (IF q = p THEN "idle" ELSE pc[q])
                     /\ job'[q] = (IF q = p THEN None ELSE job[q])
                     /\ q # p => tmp'[q] = tmp[q]
  BY <1>1
<1>3. Made' /\ Places'
  BY DEF SInv, Made, Places
<1>4. Busy'
  BY <1>2 DEF SInv, Busy
<1>5. Own'
  BY <1>2 DEF SInv, Own
<1>6. Partial'
  BY <1>2 DEF SInv, Partial
<1>7. Functions'
  <2>1. job' = [q \in Pid |-> job'[q]] /\ tmp' = [q \in Pid |-> tmp'[q]]
    BY <1>1
  <2> QED BY <2>1, Zenon DEF SInv, Functions
<1> QED BY <1>3, <1>4, <1>5, <1>6, <1>7, Zenon DEF SInv

\* A process that goes on, with a part of its record in its temporary file.
LEMMA SInvGoes ==
  ASSUME SInv, NEW p \in Pid, pc[p] # "idle",
         NEW to \in {"write", "rename"}, pc' = [pc EXCEPT ![p] = to],
         NEW x \in Prefixes(Content(job[p])), tmp' = [tmp EXCEPT ![p] = x],
         synced' \in [Pid -> BOOLEAN], job' = job, made' = made, killed' = killed
  PROVE  SInv'
<1>1. DOMAIN pc = Pid /\ DOMAIN tmp = Pid
  <2>1. DOMAIN pc = Pid
    BY DEF SInv, Places
  <2>2. tmp = [q \in Pid |-> tmp[q]]
    BY DEF SInv, Functions
  <2> QED BY <2>1, <2>2
<1>2. \A q \in Pid : /\ pc'[q] = (IF q = p THEN to ELSE pc[q])
                     /\ tmp'[q] = (IF q = p THEN x ELSE tmp[q])
  BY <1>1
<1>3. Made' /\ Places'
  BY DEF SInv, Made, Places
<1>4. Busy'
  BY <1>2 DEF SInv, Busy
<1>5. Own'
  BY <1>2 DEF SInv, Own
<1>6. Partial'
  BY <1>2 DEF SInv, Partial
<1>7. Functions'
  <2>1. tmp' = [q \in Pid |-> tmp'[q]]
    BY <1>1
  <2> QED BY <2>1, Zenon DEF SInv, Functions
<1> QED BY <1>3, <1>4, <1>5, <1>6, <1>7, Zenon DEF SInv

LEMMA TmpSame ==
  ASSUME SInv, NEW p \in Pid
  PROVE  tmp = [tmp EXCEPT ![p] = tmp[p]]
<1>1. tmp = [q \in Pid |-> tmp[q]]
  BY DEF SInv, Functions
<1> QED BY <1>1

LEMMA SInvOpen ==
  ASSUME SInv, NEW p \in Pid, Open(p) PROVE SInv'
<1>1. /\ pc[p] = "open" /\ pc' = [pc EXCEPT ![p] = "write"] /\ tmp' = [tmp EXCEPT ![p] = << >>]
      /\ synced' = [synced EXCEPT ![p] = FALSE] /\ job' = job /\ made' = made /\ killed' = killed
  BY DEF Open, OpenAt, Goto
<1>2. PICK c \in Seq(Lines) : c = Content(job[p])
  BY <1>1, JobContent
<1>3. 0 \in 0 .. Len(c) /\ SubSeq(c, 1, 0) = << >>
  BY SubSeqNext
<1>4. PICK x \in Prefixes(Content(job[p])) : x = << >>
  BY <1>2, <1>3 DEF Prefixes
<1>5. synced' \in [Pid -> BOOLEAN]
  BY <1>1 DEF SInv, Functions
<1>6. tmp' = [tmp EXCEPT ![p] = x]
  BY <1>1, <1>4, Zenon
<1>7. pc[p] # "idle" /\ "write" \in {"write", "rename"}
  BY <1>1
<1> QED BY <1>1, <1>5, <1>6, <1>7, SInvGoes, Zenon

LEMMA SInvWrite ==
  ASSUME SInv, NEW p \in Pid, Write(p) PROVE SInv'
<1>1. PICK n \in Len(tmp[p]) + 1 .. Len(Content(job[p])) :
         tmp' = [tmp EXCEPT ![p] = SubSeq(Content(job[p]), 1, n)]
  BY DEF Write
<1>2. /\ pc[p] = "write" /\ pc' = pc /\ synced' = synced /\ job' = job /\ made' = made
      /\ killed' = killed
  BY DEF Write
<1>3. PICK c \in Seq(Lines) : c = Content(job[p])
  BY <1>2, JobContent
<1>4. Len(tmp[p]) \in Nat
  <2>1. tmp[p] \in Prefixes(c)
    BY <1>2, <1>3 DEF SInv, Partial
  <2>2. PICK l \in 0 .. Len(c) : tmp[p] = SubSeq(c, 1, l)
    BY <2>1 DEF Prefixes
  <2>3. SubSeq(c, 1, l) \in Seq(Lines)
    OBVIOUS
  <2> QED BY <2>2, <2>3
<1>5. n \in 0 .. Len(c)
  BY <1>3, <1>4
<1>6. PICK x \in Prefixes(Content(job[p])) : x = SubSeq(Content(job[p]), 1, n)
  BY <1>3, <1>5 DEF Prefixes
<1>7. tmp' = [tmp EXCEPT ![p] = x]
  BY <1>1, <1>6, Zenon
<1>8. pc' = [pc EXCEPT ![p] = "write"]
  BY <1>2 DEF SInv, Places
<1>9. synced' \in [Pid -> BOOLEAN]
  BY <1>2, Zenon DEF SInv, Functions
<1>10. pc[p] # "idle" /\ "write" \in {"write", "rename"}
  BY <1>2
<1> QED BY <1>2, <1>7, <1>8, <1>9, <1>10, SInvGoes, Zenon

LEMMA SInvSync ==
  ASSUME SInv, NEW p \in Pid, Sync(p) PROVE SInv'
<1>1. /\ pc[p] = "write" /\ pc' = [pc EXCEPT ![p] = "rename"] /\ tmp' = tmp
      /\ synced' = [synced EXCEPT ![p] = TRUE] /\ job' = job /\ made' = made /\ killed' = killed
  BY DEF Sync, SyncTo, Goto
<1>2. PICK x \in Prefixes(Content(job[p])) : x = tmp[p]
  BY <1>1 DEF SInv, Partial
<1>3. tmp' = [tmp EXCEPT ![p] = x]
  BY <1>1, <1>2, TmpSame, Zenon
<1>4. synced' \in [Pid -> BOOLEAN]
  BY <1>1 DEF SInv, Functions
<1>5. pc[p] # "idle" /\ "rename" \in {"write", "rename"}
  BY <1>1
<1> QED BY <1>1, <1>3, <1>4, <1>5, SInvGoes, Zenon

LEMMA SInvProcessEnds ==
  ASSUME SInv, NEW p \in Pid, OpenFails(p) \/ WriteFails(p) \/ Rename(p) \/ Killed(p) PROVE SInv'
<1>1. /\ pc' = [pc EXCEPT ![p] = "idle"] /\ job' = [job EXCEPT ![p] = None]
      /\ synced' = synced /\ made' = made
  BY DEF OpenFails, WriteFails, FailWith, Rename, Killed, Ends, Goto
<1>2. killed' \subseteq Pid
  BY DEF OpenFails, WriteFails, FailWith, Rename, Killed, SInv
<1>3. \E x : tmp' = [tmp EXCEPT ![p] = x]
  <2>1. CASE tmp' = tmp
    BY <2>1, TmpSame, Zenon
  <2>2. CASE tmp' = [tmp EXCEPT ![p] = None]
    BY <2>2, Zenon
  <2> QED BY <2>1, <2>2 DEF OpenFails, WriteFails, FailWith, Rename, Killed
<1>4. PICK x : tmp' = [tmp EXCEPT ![p] = x]
  BY <1>3, Zenon
<1> QED BY <1>1, <1>2, <1>4, SInvEnds, Zenon

LEMMA SInvPowerFailure == SInv /\ PowerFailure => SInv'
<1> SUFFICES ASSUME SInv, PowerFailure PROVE SInv'
  OBVIOUS
<1>1. /\ pc' = [p \in Pid |-> "idle"] /\ job' = [p \in Pid |-> None]
      /\ killed' = killed \cup {p \in Pid : pc[p] # "idle"} /\ synced' = synced /\ made' = made
  BY DEF PowerFailure
<1>2. tmp' = [p \in Pid |-> tmp'[p]]
  <2>1. PICK lost : tmp' = [p \in Pid |-> IF p \in lost THEN None ELSE tmp[p]]
    BY DEF PowerFailure
  <2> QED BY <2>1
<1>3. Made' /\ Places' /\ Busy' /\ Own' /\ Partial'
  BY <1>1 DEF SInv, Made, Places, Busy, Own, Partial
<1>4. Functions'
  <2>1. job' = [p \in Pid |-> job'[p]]
    BY <1>1
  <2> QED BY <1>1, <1>2, <2>1, Zenon DEF SInv, Functions
<1>5. killed' \subseteq Pid
  BY <1>1 DEF SInv
<1> QED BY <1>3, <1>4, <1>5, Zenon DEF SInv

LEMMA SInvEdit ==
  ASSUME SInv, NEW input \in Input, Edit(input) PROVE SInv'
<1>1. PICK s \in made : made' = made \cup {[s EXCEPT !.input = input]}
  BY DEF Edit
<1>2. tmp' = tmp /\ synced' = synced /\ pc' = pc /\ job' = job /\ killed' = killed
  BY DEF Edit
<1>3. Made'
  <2>1. s \in [id : 1 .. MaxStarts, argv : Argv, cwd : Cwd, input : Input \cup {DefaultInput}]
    BY DEF SInv, Made
  <2>2. [s EXCEPT !.input = input]
           \in [id : 1 .. MaxStarts, argv : Argv, cwd : Cwd, input : Input \cup {DefaultInput}]
    BY <2>1
  <2> QED BY <1>1, <2>2 DEF SInv, Made
<1>4. Own'
  BY <1>1, <1>2 DEF SInv, Own
<1>5. Places' /\ Busy' /\ Partial' /\ Functions'
  BY <1>2, Zenon DEF SInv, Places, Busy, Partial, Functions
<1> QED BY <1>2, <1>3, <1>4, <1>5, Zenon DEF SInv

LEMMA SInvStep == SInv /\ [Next]_vars => SInv'
<1> SUFFICES ASSUME SInv, [Next]_vars PROVE SInv'
  OBVIOUS
<1>1. CASE UNCHANGED vars
  BY <1>1, Zenon DEF SInv, vars, Made, Places, Busy, Own, Partial, Functions
<1>2. CASE WriteBack
  <2>1. UNCHANGED <<tmp, synced, pc, job, made, killed>>
    BY <1>2 DEF WriteBack
  <2> QED BY <2>1, Zenon DEF SInv, Made, Places, Busy, Own, Partial, Functions
<1>3. CASE PowerFailure
  BY <1>3, SInvPowerFailure
<1>4. ASSUME NEW input \in Input, Edit(input) PROVE SInv'
  BY <1>4, SInvEdit
<1>5. ASSUME NEW p \in Pid, NEW argv \in Argv, NEW cwd \in Cwd, Start(p, argv, cwd) PROVE SInv'
  BY <1>5, SInvStart
<1>6. ASSUME NEW p \in Pid, ProcessStep(p) \/ Killed(p) PROVE SInv'
  <2>1. CASE Open(p)
    BY <2>1, SInvOpen
  <2>2. CASE Write(p)
    BY <2>2, SInvWrite
  <2>3. CASE Sync(p)
    BY <2>3, SInvSync
  <2>4. CASE OpenFails(p) \/ WriteFails(p) \/ Rename(p) \/ Killed(p)
    BY <2>4, SInvProcessEnds
  <2> QED BY <1>6, <2>1, <2>2, <2>3, <2>4 DEF ProcessStep
<1> QED BY <1>1, <1>2, <1>3, <1>4, <1>5, <1>6 DEF Next

\* However many processes write the session file, and wherever they are killed
\* or the power fails, a process that writes has a temporary file that is a
\* part of its own record.
THEOREM SessionFileTypeOK == Spec => []TypeOK
<1>1. SInv /\ [Next]_vars => SInv'
  BY SInvStep
<1>2. Spec => []SInv
  BY <1>1, SInvInit, PTL DEF Spec
<1> QED BY <1>2, SInvTypeOK, PTL

-----------------------------------------------------------------------------
(***************************************************************************)
(* No temporary file is left behind.                                       *)
(***************************************************************************)

\* Stronger than NoLeftover: a process that has not opened its own temporary
\* file yet finds one only of a process that was killed.
Leftovers == \A p \in Pid : tmp[p] # None => pc[p] \in {"write", "rename"} \/ p \in killed

LEMMA LeftoversStep == SInv /\ Leftovers /\ [Next]_vars => Leftovers'
<1> SUFFICES ASSUME SInv, Leftovers, [Next]_vars, NEW q \in Pid, tmp'[q] # None
             PROVE  pc'[q] \in {"write", "rename"} \/ q \in killed'
  BY Zenon DEF Leftovers
<1>0. DOMAIN pc = Pid /\ DOMAIN tmp = Pid
  <2>1. DOMAIN pc = Pid
    BY DEF SInv, Places
  <2>2. tmp = [p \in Pid |-> tmp[p]]
    BY DEF SInv, Functions
  <2> QED BY <2>1, <2>2
<1>1. CASE UNCHANGED vars
  BY <1>1 DEF Leftovers, vars
<1>2. CASE WriteBack
  BY <1>2 DEF Leftovers, WriteBack
<1>3. CASE PowerFailure
  <2>1. PICK lost : tmp' = [p \in Pid |-> IF p \in lost THEN None ELSE tmp[p]]
    BY <1>3 DEF PowerFailure
  <2>2. tmp[q] # None
    BY <2>1
  <2>3. killed' = killed \cup {p \in Pid : pc[p] # "idle"}
    BY <1>3 DEF PowerFailure
  <2> QED BY <2>2, <2>3 DEF Leftovers
<1>4. ASSUME NEW input \in Input, Edit(input) PROVE pc'[q] \in {"write", "rename"} \/ q \in killed'
  BY <1>4 DEF Leftovers, Edit
<1>5. ASSUME NEW p \in Pid, NEW argv \in Argv, NEW cwd \in Cwd, Start(p, argv, cwd)
      PROVE  pc'[q] \in {"write", "rename"} \/ q \in killed'
  BY <1>0, <1>5 DEF Leftovers, Start, Goto
<1>6. ASSUME NEW p \in Pid, ProcessStep(p) \/ Killed(p)
      PROVE  pc'[q] \in {"write", "rename"} \/ q \in killed'
  <2>1. CASE Open(p)
    BY <1>0, <2>1 DEF Leftovers, Open, OpenAt, Goto
  <2>2. CASE Write(p)
    BY <1>0, <2>2 DEF Leftovers, Write
  <2>3. CASE Sync(p)
    BY <1>0, <2>3 DEF Leftovers, Sync, SyncTo, Goto
  <2>4. CASE OpenFails(p)
    BY <1>0, <2>4 DEF Leftovers, OpenFails, Ends, Goto
  <2>5. CASE WriteFails(p)
    BY <1>0, <2>5 DEF Leftovers, WriteFails, FailWith, Ends, Goto
  <2>6. CASE Rename(p)
    BY <1>0, <2>6 DEF Leftovers, Rename, Ends, Goto
  <2>7. CASE Killed(p)
    BY <1>0, <2>7 DEF Leftovers, Killed
  <2> QED BY <1>6, <2>1, <2>2, <2>3, <2>4, <2>5, <2>6, <2>7 DEF ProcessStep
<1> QED BY <1>1, <1>2, <1>3, <1>4, <1>5, <1>6 DEF Next

\* A start that fails at any point removes its temporary file: one is left only
\* by a process that was ended while it wrote.
THEOREM SessionFileNoLeftover == Spec => []NoLeftover
<1>1. Init => Leftovers
  BY DEF Init, Leftovers
<1>2. SInv /\ Leftovers /\ [Next]_vars => Leftovers'
  BY LeftoversStep
<1>3. Leftovers => NoLeftover
  BY DEF Leftovers, NoLeftover
<1>4. SInv /\ [Next]_vars => SInv'
  BY SInvStep
<1>5. Spec => []SInv
  BY <1>4, SInvInit, PTL DEF Spec
<1> QED BY <1>1, <1>2, <1>3, <1>5, PTL DEF Spec

-----------------------------------------------------------------------------
(***************************************************************************)
(* The session file is always one whole record.                            *)
(***************************************************************************)

\* The directory is printed as it is: a line can hold one without a newline
\* that does not end in a carriage return.
Plain(c) == (\A i \in 1 .. Len(c) : c[i] # "LF") /\ (c # << >> => c[Len(c)] # "CR")

\* Every start fits into the record.
Short == \A s \in made : Len(s.argv) <= MaxArgc

\* What is renamed into place is complete, and on disk.
Ready == \A p \in Pid : pc[p] = "rename" => tmp[p] = Content(job[p]) /\ synced[p] = TRUE

\* The session file, and what it may be after a power failure.
Recorded == \A f \in disk \cup {file} : f = None \/ \E s \in made : Whole(f, s)

RInv == Short /\ Ready /\ Recorded

LEMMA PlainPrintable ==
  ASSUME NEW c \in Text, Plain(c) PROVE Printable(c)
<1>1. Printed(c) = c
  BY PrintedKeeps DEF Plain
<1>2. opty_chomp(c) = c
  BY ChompKeeps DEF Plain
<1> QED BY <1>1, <1>2 DEF Printable

\* A whole record of a start that was made says just that.
LEMMA RecordedUnderstood ==
  ASSUME \A c \in Cwd : Plain(c), SInv, Short, NEW s \in made, NEW f, Whole(f, s)
  PROVE  Understood(f) = s
<1>1. s \in Jobs
  BY MadeJobs, Zenon DEF SInv
<1>2. s.cwd \in Cwd /\ s.cwd \in Text
  BY <1>1 DEF SInv, Made, Jobs
<1>3. Printable(s.cwd)
  BY <1>2, PlainPrintable, Zenon
<1>4. Len(s.argv) <= MaxArgc
  BY Zenon DEF Short
<1> QED BY <1>1, <1>3, <1>4, RecordReadBack, Zenon

LEMMA IsSeq ==
  ASSUME NEW S, NEW n \in Nat, NEW g \in [1 .. n -> S]
  PROVE  g \in Seq(S) /\ Len(g) = n
OBVIOUS

\* A user's edit of graceful_input leaves a whole record, with the new input.
LEMMA EditWhole ==
  ASSUME NEW s \in Jobs, NEW f, Whole(f, s), NEW input \in Text,
         NEW g, g = [i \in DOMAIN f |-> IF f[i].key = "graceful_input"
                                       THEN [f[i] EXCEPT !.value = opty_escape_session_value(input)]
                                       ELSE f[i]]
  PROVE  Whole(g, [s EXCEPT !.input = input])
<1>1. PICK n \in Nat : n = Len(s.argv)
  BY DEF Jobs
<1>2. PICK N \in Nat : N = Len(f) /\ DOMAIN f = 1 .. N
  BY DEF Whole
<1>3. N = 5 + n + CwdLines(s) /\ CwdLines(s) = (IF s.cwd = << >> THEN 0 ELSE 1)
  <2>1. N = 5 + n + CwdLines(s)
    BY <1>1, <1>2, Zenon DEF Whole
  <2> QED BY <2>1 DEF CwdLines
<1>4. PICK e \in Text : e = opty_escape_session_value(input)
  BY EscapedValue
<1>5. \A i \in 1 .. N : f[i] \in Lines
  BY <1>2 DEF Whole
<1>6. g = [i \in 1 .. N |-> IF f[i].key = "graceful_input" THEN [f[i] EXCEPT !.value = e] ELSE f[i]]
  BY <1>2, <1>4, Zenon
<1>7. \A i \in 1 .. N : g[i] \in Lines
  <2>1. ASSUME NEW l \in Lines PROVE [l EXCEPT !.value = e] \in Lines
    BY DEF Lines
  <2> QED BY <1>5, <1>6, <2>1
<1>8. g \in Seq(Lines) /\ Len(g) = N
  <2>1. g \in [1 .. N -> Lines]
    BY <1>6, <1>7
  <2> QED BY <2>1, IsSeq, Zenon
<1>9. PICK u : u = [s EXCEPT !.input = input]
  BY Zenon
<1>10. u.id = s.id /\ u.argv = s.argv /\ u.cwd = s.cwd /\ u.input = input
  BY <1>9 DEF Jobs
<1>11. CwdLines(u) = CwdLines(s)
  BY <1>10 DEF CwdLines
<1>12. /\ f[1] = [key |-> "port", index |-> 0, value |-> s.id]
       /\ f[2] = [key |-> "control_token", index |-> 0, value |-> s.id]
       /\ f[3] = [key |-> "graceful_input", index |-> 0, value |-> opty_escape_session_value(s.input)]
       /\ f[4] = [key |-> "argc", index |-> 0, value |-> Len(s.argv)]
       /\ f[5] = [key |-> "argv_encoding", index |-> 0, value |-> "escape"]
  BY Zenon DEF Whole
<1>13. 1 \in 1 .. N /\ 2 \in 1 .. N /\ 3 \in 1 .. N /\ 4 \in 1 .. N /\ 5 \in 1 .. N
       /\ (\A i \in 1 .. n : 5 + i \in 1 .. N) /\ (s.cwd # << >> => 6 + n \in 1 .. N)
  BY <1>3
<1>14. \A i \in 1 .. N : f[i].key # "graceful_input" => g[i] = f[i]
  BY <1>6
<1>15. g[1] = f[1] /\ g[2] = f[2] /\ g[4] = f[4] /\ g[5] = f[5]
  <2>1. /\ f[1].key # "graceful_input" /\ f[2].key # "graceful_input"
        /\ f[4].key # "graceful_input" /\ f[5].key # "graceful_input"
    BY <1>12
  <2> QED BY <1>13, <1>14, <2>1
<1>16. g[3] = [key |-> "graceful_input", index |-> 0, value |-> e]
  <2>1. PICK r \in Lines : r = f[3]
    BY <1>5, <1>13
  <2>2. r.key = "graceful_input" /\ r.index = 0
    BY <1>12, <2>1
  <2>3. PICK r2 : r2 = [r EXCEPT !.value = e]
    BY Zenon
  <2>4. r2 \in Lines /\ r2.key = "graceful_input" /\ r2.index = 0 /\ r2.value = e
    BY <2>2, <2>3 DEF Lines
  <2>5. r2 = [key |-> r2.key, index |-> r2.index, value |-> r2.value]
    BY <2>4 DEF Lines
  <2>6. g[3] = r2
    BY <1>6, <1>13, <2>1, <2>2, <2>3
  <2> QED BY <2>4, <2>5, <2>6
<1>17. \A i \in 1 .. n :
          g[5 + i] = [key |-> "argv", index |-> i, value |-> opty_escape_session_value(s.argv[i])]
  <2> SUFFICES ASSUME NEW i \in 1 .. n
               PROVE  g[5 + i] = [key |-> "argv", index |-> i, value |-> opty_escape_session_value(s.argv[i])]
    BY Zenon
  <2>1. f[5 + i] = [key |-> "argv", index |-> i, value |-> opty_escape_session_value(s.argv[i])]
    BY <1>1, Zenon DEF Whole
  <2>2. f[5 + i].key # "graceful_input"
    BY <2>1
  <2>3. g[5 + i] = f[5 + i]
    BY <1>13, <1>14, <2>2
  <2> QED BY <2>1, <2>3, Zenon
<1>18. s.cwd # << >> => g[6 + n] = [key |-> "cwd", index |-> 0, value |-> Printed(s.cwd)]
  <2> SUFFICES ASSUME s.cwd # << >> PROVE g[6 + n] = [key |-> "cwd", index |-> 0, value |-> Printed(s.cwd)]
    BY Zenon
  <2>1. f[6 + n] = [key |-> "cwd", index |-> 0, value |-> Printed(s.cwd)]
    BY <1>1, Zenon DEF Whole
  <2>2. f[6 + n].key # "graceful_input"
    BY <2>1
  <2>3. g[6 + n] = f[6 + n]
    BY <1>13, <1>14, <2>2
  <2> QED BY <2>1, <2>3, Zenon
<1>19. Len(g) = 5 + Len(u.argv) + CwdLines(u)
  BY <1>1, <1>3, <1>8, <1>10, <1>11
<1>20. Whole(g, u)
  <2>1. g[1] = [key |-> "port", index |-> 0, value |-> u.id]
        /\ g[2] = [key |-> "control_token", index |-> 0, value |-> u.id]
    BY <1>10, <1>12, <1>15, Zenon
  <2>2. g[3] = [key |-> "graceful_input", index |-> 0, value |-> opty_escape_session_value(u.input)]
    BY <1>4, <1>10, <1>16, Zenon
  <2>3. g[4] = [key |-> "argc", index |-> 0, value |-> Len(u.argv)]
        /\ g[5] = [key |-> "argv_encoding", index |-> 0, value |-> "escape"]
    BY <1>10, <1>12, <1>15, Zenon
  <2>4. \A i \in 1 .. Len(u.argv) :
          g[5 + i] = [key |-> "argv", index |-> i, value |-> opty_escape_session_value(u.argv[i])]
    BY <1>1, <1>10, <1>17, Zenon
  <2>5. u.cwd # << >> => g[6 + Len(u.argv)] = [key |-> "cwd", index |-> 0, value |-> Printed(u.cwd)]
    BY <1>1, <1>10, <1>18, Zenon
  <2> QED BY <1>8, <1>19, <2>1, <2>2, <2>3, <2>4, <2>5, Zenon DEF Whole
<1> QED BY <1>9, <1>20, Zenon

\* What is recorded stays recorded when more starts are made.
LEMMA RecordedGrows ==
  ASSUME Recorded, made \subseteq made', disk' \cup {file'} \subseteq disk \cup {file}
  PROVE  Recorded'
BY DEF Recorded

LEMMA RInvInit == Init => RInv
<1> SUFFICES ASSUME Init PROVE RInv
  OBVIOUS
<1>1. Short /\ Ready
  BY DEF Init, Short, Ready
<1>2. Recorded
  BY DEF Init, Recorded
<1> QED BY <1>1, <1>2 DEF RInv

LEMMA RInvStart ==
  ASSUME SInv, RInv, NEW p \in Pid, NEW argv \in Argv, NEW cwd \in Cwd, Start(p, argv, cwd)
  PROVE  RInv'
<1>1. PICK s : s = [id |-> Cardinality(Starts) + 1, argv |-> argv, cwd |-> cwd, input |-> DefaultInput]
  BY Zenon
<1>2. /\ pc[p] = "idle" /\ pc' = [pc EXCEPT ![p] = "open"] /\ Len(argv) <= MaxArgc
      /\ job' = [job EXCEPT ![p] = s] /\ made' = made \cup {s}
      /\ tmp' = tmp /\ synced' = synced /\ file' = file /\ disk' = disk
  BY <1>1 DEF Start, Goto
<1>3. Short'
  <2>1. s.argv = argv
    BY <1>1
  <2> QED BY <1>2, <2>1 DEF RInv, Short
<1>4. DOMAIN pc = Pid
  BY DEF SInv, Places
<1>5. job = [q \in Pid |-> job[q]]
  BY DEF SInv, Functions
<1>6. \A q \in Pid : pc'[q] = "rename" => pc[q] = "rename" /\ job'[q] = job[q]
  BY <1>2, <1>4, <1>5
<1>7. Ready'
  BY <1>2, <1>6 DEF RInv, Ready
<1>8. Recorded'
  BY <1>2, RecordedGrows DEF RInv
<1> QED BY <1>3, <1>7, <1>8 DEF RInv

\* A process other than at its rename leaves the session file alone.
LEMMA RInvProcess ==
  ASSUME SInv, RInv, NEW p \in Pid,
         Open(p) \/ OpenFails(p) \/ Write(p) \/ Sync(p) \/ WriteFails(p) \/ Killed(p)
  PROVE  RInv'
<1>1. file' = file /\ disk' = disk /\ made' = made
  BY DEF Open, OpenAt, OpenFails, Write, Sync, SyncTo, WriteFails, FailWith, Killed
<1>2. Short'
  BY <1>1 DEF RInv, Short
<1>3. Recorded'
  BY <1>1, RecordedGrows DEF RInv
<1>4. DOMAIN pc = Pid /\ DOMAIN tmp = Pid /\ DOMAIN job = Pid /\ DOMAIN synced = Pid
  <2>1. DOMAIN pc = Pid
    BY DEF SInv, Places
  <2>2. job = [q \in Pid |-> job[q]] /\ tmp = [q \in Pid |-> tmp[q]]
    BY DEF SInv, Functions
  <2>3. DOMAIN synced = Pid
    BY DEF SInv, Functions
  <2> QED BY <2>1, <2>2, <2>3
<1>5. Ready'
  <2> SUFFICES ASSUME NEW q \in Pid, pc'[q] = "rename"
               PROVE  tmp'[q] = Content(job'[q]) /\ synced'[q] = TRUE
    BY Zenon DEF Ready
  <2>1. CASE Sync(p)
    <3>1. /\ pc' = [pc EXCEPT ![p] = "rename"] /\ tmp' = tmp /\ job' = job
          /\ synced' = [synced EXCEPT ![p] = TRUE] /\ tmp[p] = Content(job[p])
      BY <2>1 DEF Sync, SyncTo, Goto
    <3>2. CASE q = p
      BY <1>4, <3>1, <3>2
    <3>3. CASE q # p
      BY <1>4, <3>1, <3>3 DEF RInv, Ready
    <3> QED BY <3>2, <3>3
  <2>2. CASE ~Sync(p)
    <3>1. q # p /\ pc[q] = "rename"
      BY <1>4, <2>2 DEF Open, OpenAt, OpenFails, Write, WriteFails, FailWith, Killed, Ends, Goto
    <3>2. tmp'[q] = tmp[q] /\ job'[q] = job[q] /\ synced'[q] = synced[q]
      BY <1>4, <2>2, <3>1 DEF Open, OpenAt, OpenFails, Write, WriteFails, FailWith, Killed, Ends, Goto
    <3> QED BY <3>1, <3>2 DEF RInv, Ready
  <2> QED BY <2>1, <2>2
<1> QED BY <1>2, <1>3, <1>5 DEF RInv

\* What a process renames into place is its whole record, and on disk.
LEMMA RInvRename ==
  ASSUME SInv, RInv, NEW p \in Pid, Rename(p)
  PROVE  RInv'
<1>1. /\ pc[p] = "rename" /\ pc' = [pc EXCEPT ![p] = "idle"] /\ job' = [job EXCEPT ![p] = None]
      /\ file' = tmp[p] /\ tmp' = [tmp EXCEPT ![p] = None] /\ synced' = synced /\ made' = made
      /\ disk' = disk \cup (IF synced[p] THEN {tmp[p]} ELSE Prefixes(tmp[p]))
  BY DEF Rename, Ends, Goto
<1>2. tmp[p] = Content(job[p]) /\ synced[p] = TRUE
  BY <1>1 DEF RInv, Ready
<1>3. disk' = disk \cup {tmp[p]}
  BY <1>1, <1>2
<1>4. Whole(tmp[p], job[p])
  <2>1. Whole(Content(job[p]), job[p])
    BY <1>1, JobContent
  <2> QED BY <1>2, <2>1, Zenon
<1>5. job[p] \in made
  BY <1>1 DEF SInv, Own
<1>6. Recorded'
  <2> SUFFICES ASSUME NEW f \in disk' \cup {file'} PROVE f = None \/ \E s \in made' : Whole(f, s)
    BY Zenon DEF Recorded
  <2>1. f = tmp[p] \/ f \in disk
    BY <1>1, <1>3
  <2>2. CASE f = tmp[p]
    BY <1>1, <1>4, <1>5, <2>2, Zenon
  <2>3. CASE f \in disk
    BY <1>1, <2>3 DEF RInv, Recorded
  <2> QED BY <2>1, <2>2, <2>3
<1>7. Short'
  BY <1>1 DEF RInv, Short
<1>8. Ready'
  <2>1. DOMAIN pc = Pid
    BY DEF SInv, Places
  <2>2. job = [q \in Pid |-> job[q]] /\ tmp = [q \in Pid |-> tmp[q]]
    BY DEF SInv, Functions
  <2>3. \A q \in Pid : pc'[q] = "rename" => pc[q] = "rename" /\ tmp'[q] = tmp[q] /\ job'[q] = job[q]
    BY <1>1, <2>1, <2>2
  <2> QED BY <1>1, <2>3 DEF RInv, Ready
<1> QED BY <1>6, <1>7, <1>8 DEF RInv

LEMMA RInvEdit ==
  ASSUME \A c \in Cwd : Plain(c), SInv, RInv, NEW input \in Input, Edit(input)
  PROVE  RInv'
<1>1. file # None /\ disk' = disk \cup {file'} /\ UNCHANGED <<tmp, synced, pc, job>>
  BY DEF Edit
<1>2. PICK s \in made : Understood(file) = s /\ made' = made \cup {[s EXCEPT !.input = input]}
  BY DEF Edit
<1>3. PICK u \in made : Whole(file, u)
  BY <1>1 DEF RInv, Recorded
<1>4. u = s
  BY <1>2, <1>3, RecordedUnderstood, Zenon DEF RInv
<1>5. s \in Jobs
  BY MadeJobs, Zenon DEF SInv
<1>6. input \in Text
  BY TextAssumption
<1>7. PICK g : g = file'
  BY Zenon
<1>8. g = [i \in DOMAIN file |-> IF file[i].key = "graceful_input"
                               THEN [file[i] EXCEPT !.value = opty_escape_session_value(input)]
                               ELSE file[i]]
  BY <1>7, Zenon DEF Edit
<1>9. Whole(file', [s EXCEPT !.input = input])
  BY <1>3, <1>4, <1>5, <1>6, <1>7, <1>8, EditWhole, Zenon
<1>10. Short'
  <2>1. [s EXCEPT !.input = input].argv = s.argv
    BY <1>5 DEF Jobs
  <2> QED BY <1>2, <2>1 DEF RInv, Short
<1>11. Ready'
  BY <1>1 DEF RInv, Ready
<1>12. Recorded'
  <2> SUFFICES ASSUME NEW f \in disk' \cup {file'} PROVE f = None \/ \E t \in made' : Whole(f, t)
    BY Zenon DEF Recorded
  <2>1. f = file' \/ f \in disk
    BY <1>1
  <2>2. CASE f = file'
    <3>1. [s EXCEPT !.input = input] \in made'
      BY <1>2
    <3> QED BY <1>9, <2>2, <3>1, Zenon
  <2>3. CASE f \in disk
    BY <1>2, <2>3 DEF RInv, Recorded
  <2> QED BY <2>1, <2>2, <2>3
<1> QED BY <1>10, <1>11, <1>12 DEF RInv

LEMMA RInvStep ==
  ASSUME \A c \in Cwd : Plain(c), SInv, RInv, [Next]_vars
  PROVE  RInv'
<1>1. CASE UNCHANGED vars
  <2>1. Short' /\ Ready' /\ Recorded'
    BY <1>1, Zenon DEF RInv, vars, Short, Ready, Recorded
  <2> QED BY <2>1 DEF RInv
<1>2. CASE WriteBack
  <2>1. disk' = {file} /\ file' = file /\ made' = made /\ UNCHANGED <<tmp, synced, pc, job>>
    BY <1>2 DEF WriteBack
  <2>2. Short' /\ Ready'
    BY <2>1 DEF RInv, Short, Ready
  <2>3. Recorded'
    BY <2>1, RecordedGrows DEF RInv
  <2> QED BY <2>2, <2>3 DEF RInv
<1>3. CASE PowerFailure
  <2>1. file' \in disk /\ disk' = {file'} /\ pc' = [p \in Pid |-> "idle"] /\ made' = made
    BY <1>3 DEF PowerFailure
  <2>2. Short' /\ Ready'
    BY <2>1 DEF RInv, Short, Ready
  <2>3. Recorded'
    BY <2>1, RecordedGrows DEF RInv
  <2> QED BY <2>2, <2>3 DEF RInv
<1>4. ASSUME NEW input \in Input, Edit(input) PROVE RInv'
  BY <1>4, RInvEdit
<1>5. ASSUME NEW p \in Pid, NEW argv \in Argv, NEW cwd \in Cwd, Start(p, argv, cwd) PROVE RInv'
  BY <1>5, RInvStart
<1>6. ASSUME NEW p \in Pid, ProcessStep(p) \/ Killed(p) PROVE RInv'
  <2>1. CASE Rename(p)
    BY <2>1, RInvRename
  <2>2. CASE Open(p) \/ OpenFails(p) \/ Write(p) \/ Sync(p) \/ WriteFails(p) \/ Killed(p)
    BY <2>2, RInvProcess
  <2> QED BY <1>6, <2>1, <2>2 DEF ProcessStep
<1> QED BY <1>1, <1>2, <1>3, <1>4, <1>5, <1>6 DEF Next

\* Whatever was killed, failed, edited or lost with the power, and in whatever
\* order: the session file that restart and stop read is the whole record of
\* one start, its argv and directory exact and its input the user's, when the
\* directories are ones that a line can hold.
THEOREM SessionFileRecordWhole ==
  ASSUME \A c \in Cwd : Plain(c)
  PROVE  Spec => []RecordWhole
<1>1. SInv /\ RInv /\ [Next]_vars => RInv'
  BY RInvStep
<1>2. SInv /\ RInv => RecordWhole
  <2> SUFFICES ASSUME SInv, RInv, file # None PROVE Understood(file) \in made
    BY DEF RecordWhole
  <2>1. PICK s \in made : Whole(file, s)
    BY DEF RInv, Recorded
  <2>2. Understood(file) = s
    BY <2>1, RecordedUnderstood, Zenon DEF RInv
  <2> QED BY <2>2
<1>3. SInv /\ [Next]_vars => SInv'
  BY SInvStep
<1>4. Spec => []SInv
  BY <1>3, SInvInit, PTL DEF Spec
<1> QED BY <1>1, <1>2, <1>4, RInvInit, PTL DEF Spec
=============================================================================
