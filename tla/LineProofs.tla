----------------------------- MODULE LineProofs -----------------------------
(***************************************************************************)
(* What becomes of the bytes a client sends, for streams of any length cut *)
(* anywhere: theorems of LineBuffer.                                       *)
(*                                                                         *)
(* The loops of the code are recursive functions.  That such a function    *)
(* exists, and what it computes, is shown by induction: tlapm cannot use   *)
(* an induction rule whose hypothesis is an operator, but it can use one   *)
(* about a set, which a comprehension gives for each hypothesis.           *)
(*                                                                         *)
(* The invariant says which bytes of a line are executed: those from the   *)
(* last but one cut before its end on.  SetTemp replaces what was kept, so *)
(* of a line that comes in three segments the first part is lost, and of   *)
(* one that comes in two nothing is.                                       *)
(***************************************************************************)
EXTENDS LineBuffer, SequenceTheorems, FiniteSetTheorems, WellFoundedInduction, TLAPS

-----------------------------------------------------------------------------
\* Induction and recursion over the naturals.

\* A set that holds 0 and each successor of its elements holds every natural
\* number: induction, with a set in the place of a predicate.
LEMMA Induction ==
    ASSUME NEW S, 0 \in S, \A n \in Nat : n \in S => n + 1 \in S
    PROVE  Nat \subseteq S
<1> DEFINE T == Nat \ S
           R == OpToRel(<, Nat)
<1>1. SUFFICES ASSUME T # {} PROVE FALSE
  OBVIOUS
<1>2. IsWellFoundedOn(R, Nat)
  BY NatLessThanWellFounded
<1>3. \A x, y \in Nat : <<x, y>> \in R <=> x < y
  BY DEF OpToRel
<1> HIDE DEF R
<1>4. T \subseteq Nat
  OBVIOUS
<1> HIDE DEF T
<1>5. PICK x \in T : \A y \in T : ~(<<y, x>> \in R)
  BY <1>1, <1>2, <1>4, WFMin
<1>6. x \in Nat /\ x \notin S
  BY <1>5 DEF T
<1>7. x # 0 /\ x - 1 \in Nat /\ x - 1 < x
  BY <1>6
<1>8. <<x - 1, x>> \in R
  BY <1>3, <1>6, <1>7
<1>9. x - 1 \in S
  BY <1>5, <1>7, <1>8 DEF T
<1> QED BY <1>6, <1>7, <1>9

\* There is a function that starts with base and goes from each of its values
\* to the next by the step of that number.
LEMMA Recursion ==
    ASSUME NEW D, NEW base \in D, NEW n \in Nat, NEW step \in [1 .. n -> [D -> D]]
    PROVE  \E g \in [0 .. n -> D] :
              g[0] = base /\ \A k \in 1 .. n : g[k] = step[k][g[k - 1]]
<1> DEFINE Defines(g, m) ==
              g[0] = base /\ \A k \in 1 .. m : g[k] = step[k][g[k - 1]]
           S == {m \in Nat : m <= n => \E g \in [0 .. m -> D] : Defines(g, m)}
<1>1. 0 \in S
  <2>1. /\ Defines([k \in 0 .. 0 |-> base], 0)
        /\ [k \in 0 .. 0 |-> base] \in [0 .. 0 -> D]
    OBVIOUS
  <2> QED BY <2>1
<1>2. ASSUME NEW m \in Nat, m \in S
      PROVE  m + 1 \in S
  <2>1. SUFFICES ASSUME m + 1 <= n
                 PROVE  \E g \in [0 .. m + 1 -> D] : Defines(g, m + 1)
    OBVIOUS
  <2>2. PICK g \in [0 .. m -> D] : Defines(g, m)
    BY <1>2, <2>1
  <2> DEFINE h == [k \in 0 .. m + 1 |-> IF k <= m THEN g[k] ELSE step[k][g[k - 1]]]
  <2>3. step[m + 1][g[m]] \in D
    BY <2>1
  <2>4. h \in [0 .. m + 1 -> D]
    BY <2>3
  <2>5. Defines(h, m + 1)
    BY <2>2
  <2> QED BY <2>4, <2>5
<1>3. n \in S
  BY <1>1, <1>2, Induction
<1> QED BY <1>3

-----------------------------------------------------------------------------
\* The greatest and the least element.

\* The definition of Max by CHOOSE, for a set with an upper bound.
LEMMA MaxBelow ==
    ASSUME NEW n \in Nat, NEW S \in SUBSET (0 .. n), S # {}
    PROVE  Max(S) \in S /\ \A x \in S : x <= Max(S)
<1> DEFINE P == {m \in Nat : \A T \in SUBSET (0 .. m) :
                                T # {} => \E x \in T : \A y \in T : x >= y}
<1>1. 0 \in P
  <2>1. ASSUME NEW T \in SUBSET (0 .. 0), T # {}
        PROVE  \E x \in T : \A y \in T : x >= y
    <3>1. PICK x \in T : TRUE
      BY <2>1
    <3>2. \A y \in T : y = 0
      OBVIOUS
    <3> QED BY <3>1, <3>2
  <2> QED BY <2>1
<1>2. ASSUME NEW m \in Nat, m \in P
      PROVE  m + 1 \in P
  <2>1. SUFFICES ASSUME NEW T \in SUBSET (0 .. m + 1), T # {}
                 PROVE  \E x \in T : \A y \in T : x >= y
    OBVIOUS
  <2>2. CASE m + 1 \in T
    BY <2>2
  <2>3. CASE m + 1 \notin T
    <3>1. T \in SUBSET (0 .. m)
      BY <2>3
    <3> QED BY <1>2, <2>1, <3>1
  <2> QED BY <2>2, <2>3
<1>3. n \in P
  BY <1>1, <1>2, Induction
<1>4. \E x \in S : \A y \in S : x >= y
  BY <1>3
<1> HIDE DEF P
<1> QED BY <1>4 DEF Max

\* The definition of Min by CHOOSE, for positions.
LEMMA MinOf ==
    ASSUME NEW n \in Nat, NEW S \in SUBSET (1 .. n), S # {}
    PROVE  Min(S) \in S /\ \A x \in S : Min(S) <= x
<1> DEFINE T == {n - x : x \in S}
<1>1. T \in SUBSET (0 .. n) /\ T # {}
  <2>1. PICK x \in S : TRUE
    OBVIOUS
  <2>2. n - x \in T
    BY <2>1
  <2>3. \A y \in S : n - y \in 0 .. n
    OBVIOUS
  <2> QED BY <2>2, <2>3
<1>2. Max(T) \in T /\ \A x \in T : x <= Max(T)
  <2> HIDE DEF T
  <2> QED BY <1>1, MaxBelow
<1>3. PICK z \in S : Max(T) = n - z
  BY <1>2
<1>4. \A y \in S : z <= y
  <2> TAKE y \in S
  <2>1. n - y <= n - z
    BY <1>2, <1>3
  <2> QED BY <2>1
<1> QED BY <1>4 DEF Min

\* LastBefore is 0 or the greatest of the elements before e.
LEMMA LastBeforeIs ==
    ASSUME NEW S \in SUBSET Nat, NEW e \in Nat
    PROVE  /\ LastBefore(S, e) \in Nat
           /\ LastBefore(S, e) = 0 \/ (LastBefore(S, e) \in S /\ LastBefore(S, e) < e)
           /\ \A k \in S : k < e => k <= LastBefore(S, e)
<1> DEFINE T == {0} \cup {k \in S : k < e}
<1>1. T \in SUBSET (0 .. e) /\ T # {}
  <2>1. 0 \in T
    OBVIOUS
  <2>2. \A k \in T : k \in 0 .. e
    OBVIOUS
  <2> QED BY <2>1, <2>2
<1>2. Max(T) \in T /\ \A x \in T : x <= Max(T)
  <2> HIDE DEF T
  <2> QED BY <1>1, MaxBelow
<1>3. Max(T) = LastBefore(S, e)
  BY DEF LastBefore
<1> DEFINE b == LastBefore(S, e)
<1>4. b \in T /\ \A x \in T : x <= b
  BY <1>2, <1>3
<1> HIDE DEF b
<1>5. b \in Nat /\ (b = 0 \/ (b \in S /\ b < e))
  BY <1>4
<1>6. \A k \in S : k < e => k <= b
  BY <1>4
<1> QED BY <1>5, <1>6 DEF b

\* It depends on nothing but the elements before e.
LEMMA LastBeforeSame ==
    ASSUME NEW S, NEW T, NEW e, NEW f,
           {k \in S : k < e} = {k \in T : k < f}
    PROVE  LastBefore(S, e) = LastBefore(T, f)
BY DEF LastBefore

-----------------------------------------------------------------------------
\* What SplitBuffer returns.

SplitState == [vec : Seq(Bytes), line : Bytes]

\* The loop over the bytes keeps the types of its variables.
LEMMA SplitByteType ==
    ASSUME NEW s \in Bytes, NEW k \in 1 .. Len(s), NEW split \in SplitState
    PROVE  SplitByte(split, s, k) \in SplitState
<1> DEFINE line == Append(split.line, s[k])
<1>1. line \in Bytes
  BY DEF SplitState, Bytes
<1>2. Append(split.vec, line) \in Seq(Bytes) /\ split.vec \in Seq(Bytes) /\ <<>> \in Bytes
  BY <1>1 DEF SplitState, Bytes
<1> QED BY <1>1, <1>2 DEF SplitByte, SplitState

\* The states of the loop over the bytes of s.
LEMMA SplitLoop ==
    ASSUME NEW s \in Bytes
    PROVE  \E f \in [0 .. Len(s) -> SplitState] :
              /\ f[0] = [vec |-> <<>>, line |-> <<>>]
              /\ \A k \in 1 .. Len(s) : f[k] = SplitByte(f[k - 1], s, k)
              /\ Split(s) = f[Len(s)]
<1> DEFINE base == [vec |-> <<>>, line |-> <<>>]
<1>1. PICK n \in Nat : n = Len(s)
  BY DEF Bytes
<1> DEFINE step == [k \in 1 .. n |-> [split \in SplitState |-> SplitByte(split, s, k)]]
           Defines(f) == f = [k \in 0 .. n |-> IF k = 0 THEN base
                                               ELSE SplitByte(f[k - 1], s, k)]
<1>2. base \in SplitState
  BY DEF SplitState, Bytes
<1>3. step \in [1 .. n -> [SplitState -> SplitState]]
  BY <1>1, SplitByteType
<1>4. PICK g \in [0 .. n -> SplitState] :
         g[0] = base /\ \A k \in 1 .. n : g[k] = step[k][g[k - 1]]
  <2> HIDE DEF step, base
  <2> QED BY <1>2, <1>3, Recursion
<1>5. Defines(g)
  <2>1. ASSUME NEW k \in 0 .. n
        PROVE  g[k] = IF k = 0 THEN base ELSE SplitByte(g[k - 1], s, k)
    <3>1. g[k] = IF k = 0 THEN base ELSE step[k][g[k - 1]]
      <4> HIDE DEF step, base
      <4> QED BY <1>4
    <3>2. k # 0 => k \in 1 .. n /\ g[k - 1] \in SplitState
      OBVIOUS
    <3> HIDE DEF base
    <3> QED BY <3>1, <3>2
  <2> HIDE DEF base, step
  <2> QED BY <1>4, <2>1
<1> DEFINE split == CHOOSE f : Defines(f)
<1>6. Defines(split)
  <2> HIDE DEF Defines
  <2> QED BY <1>5
<1>7. Split(s) = split[n]
  BY <1>1 DEF Split
<1> HIDE DEF split, base
<1>8. \A k \in 0 .. n : split[k] = IF k = 0 THEN base ELSE SplitByte(split[k - 1], s, k)
  BY <1>6
<1> DEFINE S == {k \in Nat : k <= n => split[k] \in SplitState}
<1>9. 0 \in S
  BY <1>1, <1>2, <1>8
<1>10. ASSUME NEW k \in Nat, k \in S
       PROVE  k + 1 \in S
  <2>1. SUFFICES ASSUME k + 1 <= n PROVE split[k + 1] \in SplitState
    OBVIOUS
  <2>2. split[k + 1] = SplitByte(split[k], s, k + 1) /\ split[k] \in SplitState
    BY <1>1, <1>8, <1>10, <2>1
  <2> QED BY <1>1, <2>1, <2>2, SplitByteType
<1>11. \A k \in 0 .. n : split[k] \in SplitState
  <2> HIDE DEF S
  <2>1. Nat \subseteq S
    BY <1>9, <1>10, Induction
  <2> QED BY <1>1, <2>1 DEF S
<1>12. split \in [0 .. n -> SplitState]
  BY <1>6, <1>11
<1>13. /\ split[0] = base
       /\ \A k \in 1 .. n : split[k] = SplitByte(split[k - 1], s, k)
  BY <1>8
<1> QED BY <1>1, <1>7, <1>12, <1>13 DEF base

\* The first k bytes of s hold the complete pieces that end at b[1], b[2], ...
Borders(s, k, b, m) ==
    /\ m \in Nat
    /\ b \in [0 .. m -> 0 .. k]
    /\ b[0] = 0
    /\ \A i \in 1 .. m : b[i - 1] < b[i] /\ EndsPiece(s, b[i])
    /\ \A i \in 1 .. m : \A j \in b[i - 1] + 1 .. b[i] - 1 : s[j] # LF
    /\ \A j \in b[m] + 1 .. k : s[j] # LF

SplitSoFar(s, k, split, b, m) ==
    /\ Borders(s, k, b, m)
    /\ Len(split.vec) = m
    /\ \A i \in 1 .. m : split.vec[i] = SubSeq(s, b[i - 1] + 1, b[i])
    /\ split.line = SubSeq(s, b[m] + 1, k)

\* One more byte.
LEMMA SplitByteMore ==
    ASSUME NEW s \in Bytes, NEW k \in 0 .. Len(s) - 1, NEW split \in SplitState,
           NEW b, NEW m, SplitSoFar(s, k, split, b, m)
    PROVE  \E c, l : SplitSoFar(s, k + 1, SplitByte(split, s, k + 1), c, l)
<1>1. /\ Len(s) \in Nat
      /\ k \in Nat
      /\ k + 1 \in 1 .. Len(s)
      /\ m \in Nat
      /\ b \in [0 .. m -> 0 .. k]
      /\ b[0] = 0
      /\ \A i \in 1 .. m : b[i - 1] < b[i] /\ EndsPiece(s, b[i])
      /\ \A i \in 1 .. m : \A j \in b[i - 1] + 1 .. b[i] - 1 : s[j] # LF
      /\ \A j \in b[m] + 1 .. k : s[j] # LF
  <2>1. Len(s) \in Nat /\ k \in Nat /\ k + 1 \in 1 .. Len(s)
    BY DEF Bytes
  <2> QED BY <2>1 DEF SplitSoFar, Borders
<1>2. /\ split.vec \in Seq(Bytes)
      /\ Len(split.vec) = m
      /\ \A i \in 1 .. m : split.vec[i] = SubSeq(s, b[i - 1] + 1, b[i])
      /\ split.line = SubSeq(s, b[m] + 1, k)
  BY DEF SplitSoFar, SplitState
<1> DEFINE line == Append(split.line, s[k + 1])
<1>3. line = SubSeq(s, b[m] + 1, k + 1)
  <2>1. /\ b[m] + 1 \in 1 .. Len(s)
        /\ k + 1 \in b[m] + 1 .. Len(s)
        /\ (k + 1) - 1 = k
    BY <1>1
  <2>2. SubSeq(s, b[m] + 1, k + 1) = SubSeq(s, b[m] + 1, k) \o <<s[k + 1]>>
    BY <1>1, <2>1, SubSeqRecursiveSecond DEF Bytes
  <2>3. split.line \in Bytes
    BY DEF SplitState
  <2>4. s[k + 1] \in Byte
    BY <1>1 DEF Bytes
  <2>5. line = split.line \o <<s[k + 1]>>
    BY <2>3, <2>4, AppendIsConcat DEF Bytes
  <2> QED BY <1>2, <2>2, <2>5
<1>4. CASE EndsPiece(s, k + 1)
  <2> DEFINE c == [i \in 0 .. m + 1 |-> IF i <= m THEN b[i] ELSE k + 1]
             after == SplitByte(split, s, k + 1)
  <2>1. after.vec = Append(split.vec, line) /\ after.line = <<>>
    BY <1>4 DEF SplitByte
  <2> HIDE DEF after
  <2>2. /\ c \in [0 .. m + 1 -> 0 .. k + 1]
        /\ c[0] = 0
        /\ c[m + 1] = k + 1
        /\ \A i \in 0 .. m : c[i] = b[i]
    BY <1>1
  <2> HIDE DEF c
  <2>3. \A i \in 1 .. m + 1 : c[i - 1] < c[i] /\ EndsPiece(s, c[i])
    <3> TAKE i \in 1 .. m + 1
    <3>1. CASE i = m + 1
      BY <1>1, <1>4, <2>2, <3>1
    <3>2. CASE i # m + 1
      BY <1>1, <2>2, <3>2
    <3> QED BY <3>1, <3>2
  <2>4. ASSUME NEW i \in 1 .. m + 1, NEW j \in c[i - 1] + 1 .. c[i] - 1
        PROVE  s[j] # LF
    <3>1. CASE i = m + 1
      <4>1. j \in b[m] + 1 .. k
        BY <1>1, <2>2, <2>4, <3>1
      <4> QED BY <1>1, <4>1
    <3>2. CASE i # m + 1
      <4>1. i \in 1 .. m /\ c[i] = b[i] /\ c[i - 1] = b[i - 1]
        BY <1>1, <2>2, <3>2
      <4> QED BY <1>1, <2>4, <4>1
    <3> QED BY <3>1, <3>2
  <2>5. \A j \in c[m + 1] + 1 .. k + 1 : s[j] # LF
    BY <1>1, <2>2
  <2>6. \A i \in 1 .. m + 1 : \A j \in c[i - 1] + 1 .. c[i] - 1 : s[j] # LF
    BY <2>4
  <2>7. m + 1 \in Nat
    BY <1>1
  <2>8. Borders(s, k + 1, c, m + 1)
    BY <2>2, <2>3, <2>5, <2>6, <2>7 DEF Borders
  <2>9. line \in Bytes
    BY <1>1 DEF SplitState, Bytes
  <2> HIDE DEF line
  <2>10. /\ Len(after.vec) = m + 1
         /\ \A i \in 1 .. m : after.vec[i] = split.vec[i]
         /\ after.vec[m + 1] = line
    <3>1. split.vec \in Seq(Bytes) /\ Len(split.vec) = m
      BY <1>2
    <3> HIDE DEF Bytes
    <3>2. /\ Len(Append(split.vec, line)) = m + 1
          /\ \A i \in 1 .. m : Append(split.vec, line)[i] = split.vec[i]
          /\ Append(split.vec, line)[m + 1] = line
      BY <2>9, <3>1, AppendProperties
    <3> QED BY <2>1, <3>2
  <2>11. \A i \in 1 .. m + 1 : after.vec[i] = SubSeq(s, c[i - 1] + 1, c[i])
    <3> TAKE i \in 1 .. m + 1
    <3>1. CASE i = m + 1
      <4>1. i - 1 = m /\ m \in 0 .. m
        BY <1>1, <3>1
      <4> QED BY <1>3, <2>2, <2>10, <3>1, <4>1
    <3>2. CASE i # m + 1
      <4>1. i \in 1 .. m /\ i - 1 \in 0 .. m /\ i \in 0 .. m
        BY <1>1, <3>2
      <4>2. c[i] = b[i] /\ c[i - 1] = b[i - 1]
        BY <2>2, <4>1
      <4>3. after.vec[i] = split.vec[i] /\ split.vec[i] = SubSeq(s, b[i - 1] + 1, b[i])
        BY <1>2, <2>10, <4>1
      <4> QED BY <4>2, <4>3
    <3> QED BY <3>1, <3>2
  <2>12. after.line = SubSeq(s, c[m + 1] + 1, k + 1)
    <3>1. c[m + 1] + 1 \in Int /\ k + 1 \in Int /\ k + 1 < c[m + 1] + 1
      BY <1>1, <2>2
    <3> QED BY <2>1, <3>1, SubSeqEmpty
  <2>13. SplitSoFar(s, k + 1, after, c, m + 1)
    BY <2>8, <2>10, <2>11, <2>12 DEF SplitSoFar
  <2> QED BY <2>13 DEF after
<1>5. CASE ~EndsPiece(s, k + 1)
  <2> DEFINE after == SplitByte(split, s, k + 1)
  <2>1. after.vec = split.vec /\ after.line = line
    BY <1>5 DEF SplitByte
  <2>2. b \in [0 .. m -> 0 .. k + 1]
    BY <1>1
  <2>3. \A j \in b[m] + 1 .. k + 1 : s[j] # LF
    <3> TAKE j \in b[m] + 1 .. k + 1
    <3>1. j = k + 1 \/ j \in b[m] + 1 .. k
      BY <1>1
    <3> QED BY <1>1, <1>5, <3>1 DEF EndsPiece
  <2>4. Borders(s, k + 1, b, m)
    BY <1>1, <2>2, <2>3 DEF Borders
  <2>5. after.vec = split.vec /\ after.line = SubSeq(s, b[m] + 1, k + 1)
    BY <1>3, <2>1
  <2> HIDE DEF after
  <2>6. SplitSoFar(s, k + 1, after, b, m)
    BY <1>2, <2>4, <2>5 DEF SplitSoFar
  <2> QED BY <2>6 DEF after
<1> QED BY <1>4, <1>5

\* The pieces p of s end at c[1], ..., c[m].  LF is nowhere but at their ends,
\* and each but the last is complete.
Pieces(s, p, c, m) ==
    /\ m \in Nat
    /\ c \in [0 .. m -> 0 .. Len(s)]
    /\ c[0] = 0
    /\ c[m] = Len(s)
    /\ \A i \in 1 .. m :
          /\ c[i - 1] < c[i]
          /\ p[i] = SubSeq(s, c[i - 1] + 1, c[i])
          /\ \A j \in c[i - 1] + 1 .. c[i] - 1 : s[j] # LF
          /\ i < m => EndsPiece(s, c[i])
    /\ p \in Seq(Bytes)
    /\ Len(p) = m

\* SplitBuffer cuts all of s into such pieces.
LEMMA SplitBufferPieces ==
    ASSUME NEW s \in Bytes
    PROVE  \E c, m : Pieces(s, SplitBuffer(s), c, m)
<1>1. PICK n \in Nat : n = Len(s)
  BY DEF Bytes
<1>2. PICK f \in [0 .. n -> SplitState] :
         /\ f[0] = [vec |-> <<>>, line |-> <<>>]
         /\ \A k \in 1 .. n : f[k] = SplitByte(f[k - 1], s, k)
         /\ Split(s) = f[n]
  BY <1>1, SplitLoop
<1> DEFINE S == {k \in Nat : k <= n => \E b, m : SplitSoFar(s, k, f[k], b, m)}
<1>3. 0 \in S
  <2> DEFINE b == [i \in 0 .. 0 |-> 0]
  <2>1. f[0].vec = <<>> /\ f[0].line = <<>>
    BY <1>2
  <2>2. Borders(s, 0, b, 0)
    BY DEF Borders
  <2>3. b[0] = 0
    OBVIOUS
  <2> HIDE DEF b
  <2>4. SubSeq(s, b[0] + 1, 0) = <<>>
    BY <2>3, SubSeqEmpty
  <2>5. Len(f[0].vec) = 0
    BY <2>1
  <2>6. SplitSoFar(s, 0, f[0], b, 0)
    <3> DEFINE split == f[0]
    <3>1. Len(split.vec) = 0 /\ split.line = SubSeq(s, b[0] + 1, 0)
      BY <2>1, <2>4, <2>5
    <3> HIDE DEF split
    <3>2. SplitSoFar(s, 0, split, b, 0)
      BY <2>2, <3>1 DEF SplitSoFar
    <3> QED BY <3>2 DEF split
  <2> QED BY <2>6
<1>4. ASSUME NEW k \in Nat, k \in S
      PROVE  k + 1 \in S
  <2>1. SUFFICES ASSUME k + 1 <= n
                 PROVE  \E b, m : SplitSoFar(s, k + 1, f[k + 1], b, m)
    OBVIOUS
  <2>2. PICK b, m : SplitSoFar(s, k, f[k], b, m)
    BY <1>4, <2>1
  <2>3. /\ k \in 0 .. Len(s) - 1
        /\ f[k] \in SplitState
        /\ f[k + 1] = SplitByte(f[k], s, k + 1)
    BY <1>1, <1>2, <2>1
  <2> QED BY <2>2, <2>3, SplitByteMore
<1>5. n \in S
  <2> HIDE DEF S
  <2> QED BY <1>3, <1>4, Induction
<1>6. PICK b, m : SplitSoFar(s, n, f[n], b, m)
  BY <1>5
<1> DEFINE split == f[n]
           p == SplitBuffer(s)
<1>7. /\ m \in Nat
      /\ b \in [0 .. m -> 0 .. n]
      /\ b[0] = 0
      /\ \A i \in 1 .. m : b[i - 1] < b[i] /\ EndsPiece(s, b[i])
      /\ \A i \in 1 .. m : \A j \in b[i - 1] + 1 .. b[i] - 1 : s[j] # LF
      /\ \A j \in b[m] + 1 .. n : s[j] # LF
  BY <1>6 DEF SplitSoFar, Borders
<1>8. /\ Len(split.vec) = m
      /\ \A i \in 1 .. m : split.vec[i] = SubSeq(s, b[i - 1] + 1, b[i])
      /\ split.line = SubSeq(s, b[m] + 1, n)
      /\ split.vec \in Seq(Bytes)
      /\ split.line \in Bytes
  <2>1. split \in SplitState /\ SplitSoFar(s, n, split, b, m)
    BY <1>2, <1>6
  <2> HIDE DEF split
  <2> QED BY <2>1 DEF SplitSoFar, SplitState
<1>9. b[m] \in 0 .. n
  BY <1>7
<1>10. p = IF split.line = <<>> THEN split.vec ELSE Append(split.vec, split.line)
  BY <1>2 DEF SplitBuffer
<1> HIDE DEF split, p
<1>11. Len(split.line) = IF b[m] + 1 <= n THEN n - (b[m] + 1) + 1 ELSE 0
  <2>1. \A i \in b[m] + 1 .. n : s[i] \in Byte
    BY <1>1, <1>9 DEF Bytes
  <2> QED BY <1>8, <1>9, <2>1, SubSeqProperties
<1>12. CASE split.line = <<>>
  <2>1. b[m] = n
    BY <1>9, <1>11, <1>12
  <2>2. Pieces(s, p, b, m)
    BY <1>1, <1>7, <1>8, <1>10, <1>12, <2>1 DEF Pieces
  <2> QED BY <2>2 DEF p
<1>13. CASE split.line # <<>>
  <2> DEFINE c == [i \in 0 .. m + 1 |-> IF i <= m THEN b[i] ELSE n]
  <2>1. b[m] < n
    <3>1. Len(split.line) # 0
      BY <1>8, <1>13, EmptySeq DEF Bytes
    <3> QED BY <1>9, <1>11, <3>1
  <2>2. /\ c \in [0 .. m + 1 -> 0 .. n]
        /\ c[0] = 0
        /\ c[m + 1] = n
        /\ \A i \in 0 .. m : c[i] = b[i]
    BY <1>7
  <2> HIDE DEF c
  <2>3. /\ p \in Seq(Bytes)
        /\ Len(p) = m + 1
        /\ \A i \in 1 .. m : p[i] = split.vec[i]
        /\ p[m + 1] = split.line
    <3> HIDE DEF Bytes
    <3>1. p = Append(split.vec, split.line)
      BY <1>10, <1>13
    <3>2. /\ Append(split.vec, split.line) \in Seq(Bytes)
          /\ Len(Append(split.vec, split.line)) = m + 1
          /\ \A i \in 1 .. m : Append(split.vec, split.line)[i] = split.vec[i]
          /\ Append(split.vec, split.line)[m + 1] = split.line
      <4>1. split.vec \in Seq(Bytes) /\ Len(split.vec) = m /\ split.line \in Bytes
        BY <1>8
      <4> QED BY <4>1, AppendProperties
    <3> QED BY <3>1, <3>2
  <2>4. ASSUME NEW i \in 1 .. m + 1
        PROVE  /\ c[i - 1] < c[i]
               /\ p[i] = SubSeq(s, c[i - 1] + 1, c[i])
               /\ \A j \in c[i - 1] + 1 .. c[i] - 1 : s[j] # LF
               /\ i < m + 1 => EndsPiece(s, c[i])
    <3>1. CASE i = m + 1
      <4>1. i - 1 = m /\ m \in 0 .. m
        BY <1>7, <3>1
      <4>2. c[i - 1] = b[m] /\ c[i] = n
        BY <2>2, <3>1, <4>1
      <4>3. \A j \in b[m] + 1 .. n - 1 : s[j] # LF
        BY <1>7, <1>9
      <4> QED BY <1>7, <1>8, <2>1, <2>3, <3>1, <4>2, <4>3
    <3>2. CASE i # m + 1
      <4>1. i \in 1 .. m /\ c[i] = b[i] /\ c[i - 1] = b[i - 1]
        BY <1>7, <2>2, <3>2
      <4> QED BY <1>7, <1>8, <2>3, <4>1
    <3> QED BY <3>1, <3>2
  <2>5. Pieces(s, p, c, m + 1)
    <3>1. PICK l \in Nat : l = m + 1
      BY <1>7
    <3>2. \A i \in 1 .. l :
             /\ c[i - 1] < c[i]
             /\ p[i] = SubSeq(s, c[i - 1] + 1, c[i])
             /\ \A j \in c[i - 1] + 1 .. c[i] - 1 : s[j] # LF
             /\ i < l => EndsPiece(s, c[i])
      BY <2>4, <3>1
    <3>3. /\ c \in [0 .. l -> 0 .. Len(s)]
          /\ c[0] = 0
          /\ c[l] = Len(s)
          /\ Len(p) = l
          /\ p \in Seq(Bytes)
      BY <1>1, <2>2, <2>3, <3>1
    <3>4. Pieces(s, p, c, l)
      BY <3>2, <3>3 DEF Pieces
    <3> QED BY <3>1, <3>4
  <2> QED BY <2>5 DEF p
<1> QED BY <1>12, <1>13

-----------------------------------------------------------------------------
\* What becomes of the pieces.

BufferState == [vect : Seq(Bytes), temp : Bytes]

\* The loop over the pieces keeps the types of its variables.
LEMMA BufferType ==
    ASSUME NEW state \in BufferState, NEW piece \in Bytes
    PROVE  Buffer(state, piece) \in BufferState
<1>1. /\ state.vect \in Seq(Bytes)
      /\ state.temp \o piece \in Bytes
      /\ <<>> \in Bytes
  BY DEF BufferState, Bytes
<1>2. Append(state.vect, state.temp \o piece) \in Seq(Bytes)
  BY <1>1
<1> QED BY <1>1, <1>2 DEF Buffer, BufferState

\* The states of the loop over the pieces.
LEMMA BufferLoop ==
    ASSUME NEW pieces \in Seq(Bytes), NEW client \in BufferState
    PROVE  \E f \in [0 .. Len(pieces) -> BufferState] :
              /\ f[0] = client
              /\ \A i \in 1 .. Len(pieces) : f[i] = Buffer(f[i - 1], pieces[i])
              /\ BufferAll(client, pieces) = f[Len(pieces)]
<1>1. PICK n \in Nat : n = Len(pieces)
  OBVIOUS
<1> DEFINE step == [i \in 1 .. n |-> [state \in BufferState |-> Buffer(state, pieces[i])]]
           Defines(f) == f = [i \in 0 .. n |-> IF i = 0 THEN client
                                               ELSE Buffer(f[i - 1], pieces[i])]
<1>2. \A i \in 1 .. n : pieces[i] \in Bytes
  BY <1>1
<1>3. step \in [1 .. n -> [BufferState -> BufferState]]
  BY <1>2, BufferType
<1>4. PICK g \in [0 .. n -> BufferState] :
         g[0] = client /\ \A i \in 1 .. n : g[i] = step[i][g[i - 1]]
  <2> HIDE DEF step
  <2> QED BY <1>3, Recursion
<1>5. Defines(g)
  <2>1. ASSUME NEW i \in 0 .. n
        PROVE  g[i] = IF i = 0 THEN client ELSE Buffer(g[i - 1], pieces[i])
    <3>1. g[i] = IF i = 0 THEN client ELSE step[i][g[i - 1]]
      <4> HIDE DEF step
      <4> QED BY <1>4
    <3>2. i # 0 => i \in 1 .. n /\ g[i - 1] \in BufferState
      OBVIOUS
    <3> QED BY <3>1, <3>2
  <2> HIDE DEF step
  <2> QED BY <1>4, <2>1
<1> DEFINE buffered == CHOOSE f : Defines(f)
<1>6. Defines(buffered)
  <2> HIDE DEF Defines
  <2> QED BY <1>5
<1>7. BufferAll(client, pieces) = buffered[n]
  BY <1>1 DEF BufferAll
<1> HIDE DEF buffered
<1>8. \A i \in 0 .. n : buffered[i] = IF i = 0 THEN client
                                      ELSE Buffer(buffered[i - 1], pieces[i])
  BY <1>6
<1> DEFINE S == {i \in Nat : i <= n => buffered[i] \in BufferState}
<1>9. 0 \in S
  BY <1>8
<1>10. ASSUME NEW i \in Nat, i \in S
       PROVE  i + 1 \in S
  <2>1. SUFFICES ASSUME i + 1 <= n PROVE buffered[i + 1] \in BufferState
    OBVIOUS
  <2>2. buffered[i + 1] = Buffer(buffered[i], pieces[i + 1]) /\ buffered[i] \in BufferState
    BY <1>8, <1>10, <2>1
  <2>3. pieces[i + 1] \in Bytes
    BY <1>2, <2>1
  <2> QED BY <2>2, <2>3, BufferType
<1>11. \A i \in 0 .. n : buffered[i] \in BufferState
  <2> HIDE DEF S
  <2>1. Nat \subseteq S
    BY <1>9, <1>10, Induction
  <2> QED BY <2>1 DEF S
<1>12. buffered \in [0 .. n -> BufferState]
  BY <1>6, <1>11
<1>13. /\ buffered[0] = client
       /\ \A i \in 1 .. n : buffered[i] = Buffer(buffered[i - 1], pieces[i])
  BY <1>8
<1> QED BY <1>1, <1>7, <1>12, <1>13

\* Ends, Rank and Conforming for any sequence of bytes.
LFs(w) == {k \in DOMAIN w : w[k] = LF}

RankIn(w, e) == Cardinality({k \in LFs(w) : k <= e})

ConformingIn(w) ==
    \A k \in DOMAIN w : w[k] = CR /\ k < Len(w) => w[k + 1] = LF

\* The position of the line that ends at e, or is under way, from which on it
\* is executed, given the cuts C: the cut before the last cut before e, or the
\* start of the line.
FromIn(w, C, e) == Max({LastBefore(LFs(w), e), LastBefore(C, LastBefore(C, e))}) + 1

\* The greater of two numbers.
LEMMA MaxTwo ==
    ASSUME NEW a \in Nat, NEW b \in Nat
    PROVE  Max({a, b}) = IF a >= b THEN a ELSE b
<1>1. {a, b} \in SUBSET (0 .. a + b) /\ {a, b} # {} /\ a + b \in Nat
  OBVIOUS
<1>2. Max({a, b}) \in {a, b} /\ \A x \in {a, b} : x <= Max({a, b})
  BY <1>1, MaxBelow
<1> DEFINE m == Max({a, b})
<1>3. (m = a \/ m = b) /\ a <= m /\ b <= m
  BY <1>2
<1> HIDE DEF m
<1>4. m = IF a >= b THEN a ELSE b
  BY <1>3
<1> QED BY <1>4 DEF m

\* A line is executed from one of its own bytes on.
LEMMA FromInIs ==
    ASSUME NEW w \in Bytes, NEW C \in SUBSET Nat, NEW e \in Nat \ {0}
    PROVE  FromIn(w, C, e) \in 1 .. e
<1>1. LFs(w) \in SUBSET Nat
  BY DEF LFs, Bytes
<1> DEFINE a == LastBefore(LFs(w), e)
           d == LastBefore(C, e)
           b == LastBefore(C, d)
<1>2. a \in Nat /\ a < e /\ d \in Nat /\ d < e
  BY <1>1, LastBeforeIs
<1> HIDE DEF a, d
<1>3. b \in Nat /\ b <= d
  BY <1>2, LastBeforeIs
<1> HIDE DEF b
<1>4. Max({a, b}) = IF a >= b THEN a ELSE b
  BY <1>2, <1>3, MaxTwo
<1>5. Max({a, b}) + 1 \in 1 .. e
  BY <1>2, <1>3, <1>4
<1> QED BY <1>5 DEF FromIn, a, b, d

\* How many lines there are up to e.
LEMMA RankType ==
    ASSUME NEW w \in Bytes, NEW e \in Nat
    PROVE  /\ IsFiniteSet({k \in LFs(w) : k <= e})
           /\ RankIn(w, e) \in Nat
<1>1. {k \in LFs(w) : k <= e} \subseteq 1 .. e
  BY DEF LFs, Bytes
<1>2. IsFiniteSet(1 .. e)
  BY FS_Interval
<1>3. IsFiniteSet({k \in LFs(w) : k <= e})
  BY <1>1, <1>2, FS_Subset
<1> QED BY <1>3, FS_CardinalityType DEF RankIn

\* The next newline is one more line.
LEMMA RankNext ==
    ASSUME NEW w \in Bytes, NEW p \in Nat, NEW q \in LFs(w), p < q,
           \A j \in p + 1 .. q - 1 : j \notin LFs(w)
    PROVE  RankIn(w, q) = RankIn(w, p) + 1
<1>1. LFs(w) \subseteq Nat
  BY DEF LFs, Bytes
<1> DEFINE P == {k \in LFs(w) : k <= p}
<1>2. {k \in LFs(w) : k <= q} = P \cup {q}
  <2>1. \A k \in LFs(w) : k <= q <=> k <= p \/ k = q
    <3> TAKE k \in LFs(w)
    <3>1. k \in Nat /\ q \in Nat
      BY <1>1
    <3>2. ~(k \in p + 1 .. q - 1)
      OBVIOUS
    <3> QED BY <3>1, <3>2
  <2> QED BY <2>1
<1>3. q \notin P /\ IsFiniteSet(P)
  BY <1>1, RankType
<1> HIDE DEF P
<1>4. Cardinality(P \cup {q}) = Cardinality(P) + 1
  BY <1>3, FS_AddElement
<1> QED BY <1>2, <1>4 DEF RankIn, P

\* Where there is no newline there is no more line.
LEMMA RankSame ==
    ASSUME NEW w \in Bytes, NEW p \in Nat, NEW q \in Nat, p <= q,
           \A j \in p + 1 .. q : j \notin LFs(w)
    PROVE  RankIn(w, q) = RankIn(w, p)
<1>1. LFs(w) \subseteq Nat
  BY DEF LFs, Bytes
<1>2. {k \in LFs(w) : k <= q} = {k \in LFs(w) : k <= p}
  <2>1. \A k \in LFs(w) : k <= q <=> k <= p
    <3> TAKE k \in LFs(w)
    <3>1. k \in Nat /\ ~(k \in p + 1 .. q)
      BY <1>1
    <3> QED BY <3>1
  <2> QED BY <2>1
<1> QED BY <1>2 DEF RankIn

\* Lines that end later have a greater rank.
LEMMA RankGrows ==
    ASSUME NEW w \in Bytes, NEW p \in Nat, NEW q \in Nat, p <= q
    PROVE  /\ RankIn(w, p) <= RankIn(w, q)
           /\ q \in LFs(w) /\ p < q => RankIn(w, p) < RankIn(w, q)
<1> DEFINE P == {k \in LFs(w) : k <= p}
           Q == {k \in LFs(w) : k <= q}
<1>1. LFs(w) \subseteq Nat
  BY DEF LFs, Bytes
<1>2. IsFiniteSet(Q) /\ P \subseteq Q
  BY <1>1, RankType
<1>3. q \in LFs(w) /\ p < q => q \in Q /\ q \notin P
  BY <1>1
<1>4. Cardinality(P) <= Cardinality(Q) /\ (P # Q => Cardinality(P) < Cardinality(Q))
  <2> HIDE DEF P, Q
  <2>1. /\ Cardinality(P) <= Cardinality(Q)
        /\ Cardinality(P) = Cardinality(Q) => P = Q
    BY <1>2, FS_Subset
  <2>2. Cardinality(P) \in Nat /\ Cardinality(Q) \in Nat
    BY <1>2, FS_Subset, FS_CardinalityType
  <2> QED BY <2>1, <2>2
<1> QED BY <1>3, <1>4 DEF RankIn

\* What the buffers hold when the pieces of w up to p have gone through them,
\* after n lines of earlier segments: as many lines as there were, each, and
\* the line under way, from where FromIn says.
BufferedTo(w, C, n, start, state, p) ==
    /\ n + Len(state.vect) = RankIn(w, p)
    /\ ConformingIn(w) =>
          /\ state.temp = SubSeq(w, FromIn(w, C, p + 1), p)
          /\ \A e \in LFs(w) : start < e /\ e <= p =>
                state.vect[RankIn(w, e) - n] = SubSeq(w, FromIn(w, C, e), e)

\* The segment of w from start on is the last one.
LastSegment(w, C, start) ==
    /\ start \in 0 .. Len(w) - 1
    /\ C \in SUBSET (1 .. Len(w))
    /\ Len(w) \in C
    /\ start \in C \cup {0}
    /\ \A c \in C : ~(start < c /\ c < Len(w))

\* The piece of w from p + 1 to q.
NextPiece(w, start, p, q) ==
    /\ p \in start .. Len(w) - 1
    /\ q \in p + 1 .. Len(w)
    /\ \A j \in p + 1 .. q - 1 : w[j] # LF
    /\ ConformingIn(w) => (p = start \/ w[p] = LF) /\ (q = Len(w) \/ w[q] = LF)

\* The line under way begins at the same place, seen from any byte of a piece.
LEMMA FromInPiece ==
    ASSUME NEW w \in Bytes, NEW C, NEW start, NEW p, NEW q,
           LastSegment(w, C, start), NextPiece(w, start, p, q)
    PROVE  FromIn(w, C, q) = FromIn(w, C, p + 1)
<1>1. /\ Len(w) \in Nat
      /\ start \in Nat
      /\ p \in Nat
      /\ q \in Nat
      /\ start <= p /\ p < q /\ q <= Len(w)
      /\ LFs(w) \in SUBSET Nat
      /\ C \in SUBSET Nat
  <2>1. Len(w) \in Nat /\ LFs(w) \in SUBSET Nat
    BY DEF LFs, Bytes
  <2>2. start \in 0 .. Len(w) - 1 /\ p \in start .. Len(w) - 1 /\ q \in p + 1 .. Len(w)
    BY DEF LastSegment, NextPiece
  <2>3. C \in SUBSET (1 .. Len(w))
    BY DEF LastSegment
  <2> QED BY <2>1, <2>2, <2>3
<1>2. {k \in LFs(w) : k < q} = {k \in LFs(w) : k < p + 1}
  <2>1. \A k \in LFs(w) : k < q <=> k < p + 1
    <3> TAKE k \in LFs(w)
    <3>1. k \in Nat /\ w[k] = LF
      BY <1>1 DEF LFs
    <3>2. ~(k \in p + 1 .. q - 1)
      BY <3>1 DEF NextPiece
    <3> QED BY <1>1, <3>1, <3>2
  <2> QED BY <2>1
<1>3. {k \in C : k < q} = {k \in C : k < p + 1}
  <2>1. \A k \in C : k < q <=> k < p + 1
    <3> TAKE k \in C
    <3>1. k \in Nat /\ ~(start < k /\ k < Len(w))
      BY <1>1 DEF LastSegment
    <3> QED BY <1>1, <3>1
  <2> QED BY <2>1
<1>4. LastBefore(LFs(w), q) = LastBefore(LFs(w), p + 1)
  BY <1>2, LastBeforeSame
<1>5. LastBefore(C, q) = LastBefore(C, p + 1)
  BY <1>3, LastBeforeSame
<1> QED BY <1>4, <1>5 DEF FromIn

\* At the end of a line nothing is under way.
LEMMA FromInEnd ==
    ASSUME NEW w \in Bytes, NEW C \in SUBSET Nat, NEW q \in LFs(w)
    PROVE  FromIn(w, C, q + 1) = q + 1
<1>1. LFs(w) \in SUBSET Nat /\ q \in Nat \ {0} /\ q + 1 \in Nat /\ q < q + 1
  BY DEF LFs, Bytes
<1> DEFINE a == LastBefore(LFs(w), q + 1)
<1>2. a = q
  <2>1. /\ a \in Nat
        /\ a = 0 \/ (a \in LFs(w) /\ a < q + 1)
        /\ \A k \in LFs(w) : k < q + 1 => k <= a
    BY <1>1, LastBeforeIs
  <2> HIDE DEF a
  <2>2. q <= a
    BY <1>1, <2>1
  <2> QED BY <1>1, <2>1, <2>2
<1> DEFINE d == LastBefore(C, q + 1)
           b == LastBefore(C, d)
<1>3. d \in Nat /\ d <= q
  BY <1>1, LastBeforeIs
<1> HIDE DEF d
<1>4. b \in Nat /\ b <= q
  BY <1>1, <1>3, LastBeforeIs
<1> HIDE DEF a, b
<1>5. Max({a, b}) = q
  BY <1>1, <1>2, <1>4, MaxTwo
<1> QED BY <1>5 DEF FromIn, a, b, d

\* The last piece of a segment, if it does not end a line, is all that is kept.
LEMMA FromInRest ==
    ASSUME NEW w \in Bytes, NEW C, NEW start, NEW p, NEW q,
           LastSegment(w, C, start), NextPiece(w, start, p, q),
           q = Len(w), q \notin LFs(w), p = start \/ w[p] = LF
    PROVE  FromIn(w, C, q + 1) = p + 1
<1>1. /\ Len(w) \in Nat
      /\ start \in Nat
      /\ p \in Nat
      /\ q \in Nat
      /\ start <= p /\ p < q
      /\ LFs(w) \in SUBSET Nat
      /\ C \in SUBSET Nat
      /\ \A k \in LFs(w) : k <= q
      /\ q \in C
      /\ \A k \in LFs(w) : ~(k \in p + 1 .. q)
  <2>1. /\ Len(w) \in Nat
        /\ LFs(w) \in SUBSET Nat
        /\ \A k \in LFs(w) : k <= Len(w) /\ w[k] = LF
    BY DEF LFs, Bytes
  <2>2. start \in 0 .. Len(w) - 1 /\ p \in start .. Len(w) - 1 /\ q \in p + 1 .. Len(w)
    BY DEF LastSegment, NextPiece
  <2>3. C \in SUBSET (1 .. Len(w)) /\ q \in C
    BY DEF LastSegment
  <2>4. \A k \in LFs(w) : ~(k \in p + 1 .. q)
    <3> TAKE k \in LFs(w)
    <3>1. k # q /\ ~(k \in p + 1 .. q - 1) /\ k \in Nat
      BY <2>1 DEF NextPiece
    <3> QED BY <2>1, <2>2, <3>1
  <2> QED BY <2>1, <2>2, <2>3, <2>4
<1> DEFINE a == LastBefore(LFs(w), q + 1)
           d == LastBefore(C, q + 1)
           b == LastBefore(C, q)
<1>2. d = q
  <2>1. /\ d \in Nat
        /\ d = 0 \/ (d \in C /\ d < q + 1)
        /\ \A k \in C : k < q + 1 => k <= d
    BY <1>1, LastBeforeIs
  <2> HIDE DEF d
  <2>2. q <= d
    BY <1>1, <2>1
  <2> QED BY <1>1, <2>1, <2>2
<1>3. b = start
  <2>1. /\ b \in Nat
        /\ b = 0 \/ (b \in C /\ b < q)
        /\ \A k \in C : k < q => k <= b
    BY <1>1, LastBeforeIs
  <2> HIDE DEF b
  <2>2. b <= start
    BY <1>1, <2>1 DEF LastSegment
  <2>3. start <= b
    BY <1>1, <2>1 DEF LastSegment
  <2> QED BY <1>1, <2>1, <2>2, <2>3
<1>4. a \in Nat /\ a <= p /\ (p = start \/ a = p)
  <2>1. /\ a \in Nat
        /\ a = 0 \/ (a \in LFs(w) /\ a < q + 1)
        /\ \A k \in LFs(w) : k < q + 1 => k <= a
    BY <1>1, LastBeforeIs
  <2> HIDE DEF a
  <2>2. a <= p
    BY <1>1, <2>1
  <2>3. p # start => p \in LFs(w)
    <3>1. p # start => p \in 1 .. Len(w) /\ w[p] = LF
      BY <1>1
    <3> QED BY <3>1 DEF LFs, Bytes
  <2> QED BY <1>1, <2>1, <2>2, <2>3
<1> HIDE DEF a, b
<1>5. Max({a, b}) = p
  BY <1>1, <1>3, <1>4, MaxTwo
<1> QED BY <1>2, <1>5 DEF FromIn, a, b, d

\* One more piece.
LEMMA BufferPiece ==
    ASSUME NEW w \in Bytes, NEW C, NEW start, NEW p, NEW q,
           LastSegment(w, C, start), NextPiece(w, start, p, q),
           NEW state \in BufferState, BufferedTo(w, C, RankIn(w, start), start, state, p)
    PROVE  BufferedTo(w, C, RankIn(w, start), start,
                      Buffer(state, SubSeq(w, p + 1, q)), q)
<1> DEFINE n == RankIn(w, start)
           piece == SubSeq(w, p + 1, q)
           after == Buffer(state, piece)
<1>1. /\ Len(w) \in Nat
      /\ start \in Nat
      /\ p \in Nat
      /\ q \in Nat
      /\ start <= p /\ p < q /\ q <= Len(w)
      /\ C \in SUBSET Nat
      /\ \A j \in p + 1 .. q - 1 : w[j] # LF
  <2>1. Len(w) \in Nat
    BY DEF Bytes
  <2>2. start \in 0 .. Len(w) - 1 /\ p \in start .. Len(w) - 1 /\ q \in p + 1 .. Len(w)
    BY DEF LastSegment, NextPiece
  <2>3. C \in SUBSET (1 .. Len(w)) /\ \A j \in p + 1 .. q - 1 : w[j] # LF
    BY DEF LastSegment, NextPiece
  <2> QED BY <2>1, <2>2, <2>3
<1>2. /\ n \in Nat
      /\ RankIn(w, p) \in Nat
      /\ state.vect \in Seq(Bytes)
      /\ state.temp \in Bytes
      /\ Len(state.vect) \in Nat
  <2>1. n \in Nat /\ RankIn(w, p) \in Nat
    BY <1>1, RankType
  <2>2. state.vect \in Seq(Bytes) /\ state.temp \in Bytes
    BY DEF BufferState
  <2> QED BY <2>1, <2>2
<1>3. /\ n + Len(state.vect) = RankIn(w, p)
      /\ ConformingIn(w) =>
            /\ state.temp = SubSeq(w, FromIn(w, C, p + 1), p)
            /\ \A e \in LFs(w) : start < e /\ e <= p =>
                  state.vect[RankIn(w, e) - n] = SubSeq(w, FromIn(w, C, e), e)
  BY DEF BufferedTo
<1>4. /\ piece \in Bytes
      /\ Len(piece) = q - p
      /\ piece[q - p] = w[q]
  <2>1. \A i \in p + 1 .. q : w[i] \in Byte
    BY <1>1 DEF Bytes
  <2>2. /\ piece \in Seq(Byte)
        /\ Len(piece) = q - (p + 1) + 1
        /\ \A i \in 1 .. q - (p + 1) + 1 : piece[i] = w[p + 1 + i - 1]
    BY <1>1, <2>1, SubSeqProperties
  <2>3. /\ q - p \in 1 .. q - (p + 1) + 1
        /\ q - (p + 1) + 1 = q - p
        /\ p + 1 + (q - p) - 1 = q
    BY <1>1
  <2> QED BY <2>2, <2>3 DEF Bytes
<1>5. EndsWithLF(piece) <=> w[q] = LF
  <2> HIDE DEF piece
  <2>1. piece # <<>>
    BY <1>1, <1>4
  <2> QED BY <1>4, <2>1 DEF EndsWithLF, Last
<1>6. q \in DOMAIN w
  BY <1>1 DEF Bytes
<1>7. LFs(w) \subseteq Nat /\ (q \in LFs(w) <=> w[q] = LF)
  BY <1>6 DEF LFs, Bytes
<1> HIDE DEF n, piece
<1>8. CASE w[q] = LF
  <2>1. after.vect = Append(state.vect, state.temp \o piece) /\ after.temp = <<>>
    BY <1>5, <1>8 DEF Buffer
  <2>2. RankIn(w, q) = RankIn(w, p) + 1
    <3>1. \A j \in p + 1 .. q - 1 : j \notin LFs(w)
      BY <1>1 DEF LFs
    <3> QED BY <1>1, <1>7, <1>8, <3>1, RankNext
  <2>3. /\ Len(after.vect) = Len(state.vect) + 1
        /\ \A i \in 1 .. Len(state.vect) : after.vect[i] = state.vect[i]
        /\ after.vect[Len(state.vect) + 1] = state.temp \o piece
    <3>1. state.temp \o piece \in Bytes
      BY <1>2, <1>4 DEF Bytes
    <3> DEFINE line == state.temp \o piece
    <3> HIDE DEF line, Bytes
    <3>2. line \in Bytes /\ after.vect = Append(state.vect, line)
      BY <2>1, <3>1 DEF line
    <3>3. /\ Len(Append(state.vect, line)) = Len(state.vect) + 1
          /\ \A i \in 1 .. Len(state.vect) : Append(state.vect, line)[i] = state.vect[i]
          /\ Append(state.vect, line)[Len(state.vect) + 1] = line
      <4>1. state.vect \in Seq(Bytes)
        BY <1>2
      <4> QED BY <3>2, <4>1, AppendProperties
    <3> QED BY <3>2, <3>3 DEF line
  <2>4. n + Len(after.vect) = RankIn(w, q)
    BY <1>2, <1>3, <2>2, <2>3
  <2> HIDE DEF after
  <2>5. ASSUME ConformingIn(w)
        PROVE  after.temp = SubSeq(w, FromIn(w, C, q + 1), q)
    <3>1. FromIn(w, C, q + 1) = q + 1
      BY <1>1, <1>7, <1>8, FromInEnd
    <3>2. SubSeq(w, q + 1, q) = <<>>
      BY <1>1, SubSeqEmpty
    <3> QED BY <2>1, <3>1, <3>2
  <2>6. ASSUME ConformingIn(w), NEW e \in LFs(w), start < e, e <= q
        PROVE  after.vect[RankIn(w, e) - n] = SubSeq(w, FromIn(w, C, e), e)
    <3>1. CASE e = q
      <4>1. FromIn(w, C, q) = FromIn(w, C, p + 1)
        BY FromInPiece
      <4> DEFINE from == FromIn(w, C, p + 1)
      <4>2. from \in 1 .. p + 1
        BY <1>1, FromInIs
      <4> HIDE DEF from
      <4>3. SubSeq(w, from, p) \o SubSeq(w, p + 1, q) = SubSeq(w, from, q)
        <5>1. /\ from \in 1 .. Len(w) + 1
              /\ p \in from - 1 .. Len(w)
              /\ q \in p .. Len(w)
          BY <1>1, <4>2
        <5> QED BY <5>1, ConcatAdjacentSubSeq DEF Bytes
      <4>4. state.temp \o piece = SubSeq(w, FromIn(w, C, q), q)
        BY <1>3, <2>6, <4>1, <4>3 DEF piece, from
      <4>5. RankIn(w, e) - n = Len(state.vect) + 1
        BY <1>2, <1>3, <2>2, <3>1
      <4> QED BY <2>3, <3>1, <4>4, <4>5
    <3>2. CASE e # q
      <4>1. e \in Nat /\ e <= p
        <5>1. e \in Nat /\ w[e] = LF
          BY <1>7 DEF LFs
        <5> QED BY <1>1, <2>6, <3>2, <5>1
      <4>2. RankIn(w, e) - n \in 1 .. Len(state.vect)
        <5>1. n < RankIn(w, e) /\ RankIn(w, e) <= RankIn(w, p)
          BY <1>1, <2>6, <4>1, RankGrows DEF n
        <5>2. RankIn(w, e) \in Nat
          BY <4>1, RankType
        <5> QED BY <1>2, <1>3, <5>1, <5>2
      <4> QED BY <1>3, <2>3, <2>6, <4>1, <4>2
    <3> QED BY <3>1, <3>2
  <2>7. BufferedTo(w, C, n, start, after, q)
    BY <2>4, <2>5, <2>6 DEF BufferedTo
  <2> QED BY <2>7 DEF after, piece, n
<1>9. CASE w[q] # LF
  <2>1. after.vect = state.vect /\ after.temp = piece
    BY <1>5, <1>9 DEF Buffer
  <2> HIDE DEF after
  <2>2. \A j \in p + 1 .. q : j \notin LFs(w)
    <3> TAKE j \in p + 1 .. q
    <3>1. j = q \/ j \in p + 1 .. q - 1
      BY <1>1
    <3> QED BY <1>1, <1>7, <1>9, <3>1 DEF LFs
  <2>3. RankIn(w, q) = RankIn(w, p)
    <3>1. p <= q
      BY <1>1
    <3> QED BY <1>1, <2>2, <3>1, RankSame
  <2>4. n + Len(after.vect) = RankIn(w, q)
    BY <1>3, <2>1, <2>3
  <2>5. ASSUME ConformingIn(w)
        PROVE  after.temp = SubSeq(w, FromIn(w, C, q + 1), q)
    <3>1. q = Len(w) /\ (p = start \/ w[p] = LF)
      BY <1>9, <2>5 DEF NextPiece
    <3>2. FromIn(w, C, q + 1) = p + 1
      BY <1>7, <1>9, <3>1, FromInRest
    <3> QED BY <2>1, <3>2 DEF piece
  <2>6. ASSUME ConformingIn(w), NEW e \in LFs(w), start < e, e <= q
        PROVE  after.vect[RankIn(w, e) - n] = SubSeq(w, FromIn(w, C, e), e)
    <3>1. e \in Nat /\ ~(e \in p + 1 .. q)
      BY <1>7, <2>2
    <3>2. e <= p
      BY <1>1, <2>6, <3>1
    <3> QED BY <1>3, <2>1, <2>6, <3>2
  <2>7. BufferedTo(w, C, n, start, after, q)
    BY <2>4, <2>5, <2>6 DEF BufferedTo
  <2> QED BY <2>7 DEF after, piece, n
<1> QED BY <1>8, <1>9

\* What was received before is what it was.
LEMMA EarlierSame ==
    ASSUME NEW u \in Bytes, NEW s \in Bytes \ {<<>>}, NEW C \in SUBSET (1 .. Len(u)),
           NEW e \in Nat, e <= Len(u) + 1
    PROVE  /\ {k \in LFs(u \o s) : k < e} = {k \in LFs(u) : k < e}
           /\ FromIn(u \o s, C \cup {Len(u \o s)}, e) = FromIn(u, C, e)
           /\ e <= Len(u) =>
                 /\ RankIn(u \o s, e) = RankIn(u, e)
                 /\ e \in LFs(u \o s) <=> e \in LFs(u)
           /\ \A a \in 1 .. e : SubSeq(u \o s, a, e - 1) = SubSeq(u, a, e - 1)
<1> DEFINE w == u \o s
<1>1. /\ Len(u) \in Nat
      /\ Len(s) \in Nat
      /\ DOMAIN u = 1 .. Len(u)
      /\ DOMAIN w = 1 .. Len(w)
      /\ Len(w) = Len(u) + Len(s)
      /\ \A k \in 1 .. Len(u) : w[k] = u[k]
      /\ w \in Bytes
      /\ e <= Len(w)
  <2>1. Len(s) \in Nat /\ Len(s) # 0
    BY EmptySeq DEF Bytes
  <2> QED BY <2>1 DEF Bytes
<1> HIDE DEF w
<1>2. \A k \in Nat : k < e => (k \in LFs(w) <=> k \in LFs(u))
  BY <1>1 DEF LFs
<1>3. LFs(w) \in SUBSET Nat /\ LFs(u) \in SUBSET Nat
  BY <1>1 DEF LFs
<1>4. {k \in LFs(w) : k < e} = {k \in LFs(u) : k < e}
  BY <1>2, <1>3
<1>5. FromIn(w, C \cup {Len(w)}, e) = FromIn(u, C, e)
  <2> DEFINE D == C \cup {Len(w)}
  <2>1. C \in SUBSET Nat /\ D \in SUBSET Nat
    <3>1. C \in SUBSET Nat /\ Len(w) \in Nat
      BY <1>1
    <3> QED BY <3>1
  <2>2. ASSUME NEW f \in Nat, f <= e
        PROVE  LastBefore(D, f) = LastBefore(C, f)
    <3>1. ~(Len(w) < f)
      BY <1>1, <2>2
    <3>2. {k \in D : k < f} = {k \in C : k < f}
      BY <3>1
    <3> QED BY <3>2, LastBeforeSame
  <2>3. LastBefore(C, e) \in Nat /\ LastBefore(C, e) <= e
    BY <2>1, LastBeforeIs
  <2>4. LastBefore(D, e) = LastBefore(C, e)
    <3>1. e \in Nat /\ e <= e
      OBVIOUS
    <3> QED BY <2>2, <3>1
  <2>5. LastBefore(D, LastBefore(C, e)) = LastBefore(C, LastBefore(C, e))
    BY <2>2, <2>3
  <2>6. LastBefore(LFs(w), e) = LastBefore(LFs(u), e)
    BY <1>4, LastBeforeSame
  <2> QED BY <2>4, <2>5, <2>6 DEF FromIn
<1>6. ASSUME e <= Len(u)
      PROVE  RankIn(w, e) = RankIn(u, e) /\ (e \in LFs(w) <=> e \in LFs(u))
  <2>1. \A k \in Nat : k <= e => (k \in LFs(w) <=> k \in LFs(u))
    BY <1>1, <1>6 DEF LFs
  <2>2. {k \in LFs(w) : k <= e} = {k \in LFs(u) : k <= e}
    BY <1>3, <2>1
  <2>3. e \in LFs(w) <=> e \in LFs(u)
    <3>1. e <= e
      OBVIOUS
    <3> QED BY <2>1, <3>1
  <2> QED BY <2>2, <2>3 DEF RankIn
<1>7. ASSUME NEW a \in 1 .. e
      PROVE  SubSeq(w, a, e - 1) = SubSeq(u, a, e - 1)
  <2>1. CASE a = e
    BY <1>1, <2>1, SubSeqEmpty
  <2>2. CASE a # e
    <3>1. a \in 1 .. Len(u) /\ e - 1 \in 1 .. Len(u)
      BY <1>1, <2>2
    <3> QED BY <3>1, SubSeqOfConcat1 DEF w, Bytes
  <2> QED BY <2>1, <2>2
<1> QED BY <1>4, <1>5, <1>6, <1>7 DEF w

\* The pieces of s are the next ones of w, from z on.
EachNext(w, z, pieces, c, m) ==
    \A i \in 1 .. m : /\ NextPiece(w, z, z + c[i - 1], z + c[i])
                      /\ pieces[i] = SubSeq(w, z + c[i - 1] + 1, z + c[i])

\* The pieces of the last segment s of w, one after the other.
LEMMA PieceIsNext ==
    ASSUME NEW u \in Bytes, NEW s \in Bytes \ {<<>>}, NEW c, NEW m,
           NEW pieces, Pieces(s, pieces, c, m)
    PROVE  EachNext(u \o s, Len(u), pieces, c, m)
<1> SUFFICES ASSUME NEW i \in 1 .. m
             PROVE  /\ NextPiece(u \o s, Len(u), Len(u) + c[i - 1], Len(u) + c[i])
                    /\ pieces[i] = SubSeq(u \o s, Len(u) + c[i - 1] + 1, Len(u) + c[i])
  BY DEF EachNext
<1> DEFINE w == u \o s
           z == Len(u)
<1>1. /\ z \in Nat
      /\ Len(s) \in Nat
      /\ Len(w) = z + Len(s)
      /\ DOMAIN w = 1 .. Len(w)
      /\ DOMAIN s = 1 .. Len(s)
      /\ \A k \in 1 .. Len(s) : w[z + k] = s[k] /\ s[k] \in Byte
      /\ \A k \in 1 .. Len(w) : w[k] \in Byte
      /\ w \in Seq(Byte) /\ u \in Seq(Byte) /\ s \in Seq(Byte)
  BY DEF Bytes
<1> HIDE DEF w, z
<1>2. /\ m \in Nat
      /\ c \in [0 .. m -> 0 .. Len(s)]
      /\ c[0] = 0
      /\ c[m] = Len(s)
      /\ \A k \in 1 .. m : c[k - 1] < c[k] /\ (k < m => EndsPiece(s, c[k]))
      /\ c[i - 1] < c[i]
      /\ pieces[i] = SubSeq(s, c[i - 1] + 1, c[i])
      /\ \A j \in c[i - 1] + 1 .. c[i] - 1 : s[j] # LF
  BY DEF Pieces
<1>3. c[i - 1] \in 0 .. Len(s) /\ c[i] \in 1 .. Len(s)
  <2>1. i - 1 \in 0 .. m /\ i \in 0 .. m
    BY <1>2
  <2>2. c[i - 1] \in 0 .. Len(s) /\ c[i] \in 0 .. Len(s)
    BY <1>2, <2>1
  <2> QED BY <1>1, <1>2, <2>2
<1>4. ASSUME ConformingIn(w), NEW k \in 1 .. m, k < m
      PROVE  w[z + c[k]] = LF
  <2>1. /\ EndsPiece(s, c[k])
        /\ c[k] \in 1 .. Len(s)
        /\ c[k] + 1 \in 1 .. Len(s)
    <3>1. k + 1 \in 1 .. m /\ k - 1 \in 0 .. m /\ k \in 0 .. m /\ (k + 1) - 1 = k
      BY <1>2, <1>4
    <3>2. c[k - 1] < c[k] /\ c[k] < c[k + 1] /\ EndsPiece(s, c[k])
      BY <1>2, <1>4, <3>1
    <3>3. c[k - 1] \in 0 .. Len(s) /\ c[k] \in 0 .. Len(s) /\ c[k + 1] \in 0 .. Len(s)
      BY <1>2, <3>1
    <3> QED BY <1>1, <3>2, <3>3
  <2> DEFINE e == c[k]
  <2> HIDE DEF e
  <2>2. /\ EndsPiece(s, e)
        /\ e \in 1 .. Len(s)
        /\ e + 1 \in 1 .. Len(s)
    BY <2>1 DEF e
  <2>3. w[z + e] = s[e] /\ w[z + (e + 1)] = s[e + 1]
    BY <1>1, <2>2
  <2>4. CASE s[e] = LF
    BY <2>3, <2>4 DEF e
  <2>5. CASE s[e] = CR /\ s[e + 1] # LF
    <3>1. z + e \in DOMAIN w /\ z + e < Len(w) /\ z + (e + 1) = (z + e) + 1
      BY <1>1, <2>2
    <3>2. w[(z + e) + 1] = LF
      BY <1>4, <2>3, <2>5, <3>1 DEF ConformingIn
    <3> QED BY <2>3, <2>5, <3>1, <3>2
  <2> QED BY <1>1, <2>2, <2>4, <2>5 DEF EndsPiece
<1>5. ConformingIn(w) =>
         /\ z + c[i - 1] = z \/ w[z + c[i - 1]] = LF
         /\ z + c[i] = Len(w) \/ w[z + c[i]] = LF
  <2>1. ASSUME ConformingIn(w)
        PROVE  z + c[i - 1] = z \/ w[z + c[i - 1]] = LF
    <3>1. CASE i = 1
      BY <1>1, <1>2, <3>1
    <3>2. CASE i # 1
      <4>1. i - 1 \in 1 .. m /\ i - 1 < m
        BY <1>2, <3>2
      <4> QED BY <1>4, <2>1, <4>1
    <3> QED BY <3>1, <3>2
  <2>2. ASSUME ConformingIn(w)
        PROVE  z + c[i] = Len(w) \/ w[z + c[i]] = LF
    <3>1. i = m \/ i < m
      BY <1>2
    <3>2. CASE i = m
      BY <1>1, <1>2, <3>2
    <3> QED BY <1>4, <2>2, <3>1, <3>2
  <2> QED BY <2>1, <2>2
<1>6. PICK a \in Nat, b \in Nat : a = c[i - 1] /\ b = c[i]
  BY <1>1, <1>3
<1>7. /\ a < b
      /\ b <= Len(s)
      /\ pieces[i] = SubSeq(s, a + 1, b)
      /\ \A j \in a + 1 .. b - 1 : s[j] # LF
      /\ ConformingIn(w) =>
            (z + a = z \/ w[z + a] = LF) /\ (z + b = Len(w) \/ w[z + b] = LF)
  <2>1. a < b
    BY <1>2, <1>6
  <2>2. b <= Len(s)
    BY <1>1, <1>3, <1>6
  <2> QED BY <1>2, <1>5, <1>6, <2>1, <2>2
<1>8. a < b /\ b <= Len(s) /\ z \in Nat /\ Len(s) \in Nat
  BY <1>1, <1>7
<1>9. NextPiece(w, z, z + a, z + b)
  <2> DEFINE l == Len(w)
  <2>1. l = z + Len(s)
    BY <1>1
  <2>2. z + a \in z .. l - 1 /\ z + b \in (z + a) + 1 .. l
    <3> HIDE DEF l
    <3> QED BY <1>8, <2>1
  <2>3. \A j \in (z + a) + 1 .. (z + b) - 1 : w[j] # LF
    <3> TAKE j \in (z + a) + 1 .. (z + b) - 1
    <3>1. j - z \in a + 1 .. b - 1 /\ j - z \in 1 .. Len(s) /\ z + (j - z) = j
      BY <1>8
    <3> QED BY <1>1, <1>7, <3>1
  <2> QED BY <1>7, <2>2, <2>3 DEF NextPiece
<1>10. pieces[i] = SubSeq(w, z + a + 1, z + b)
  <2>1. /\ z + a + 1 \in z + 1 .. z + Len(s)
        /\ z + b \in z + 1 .. z + Len(s)
        /\ z + a + 1 - z = a + 1
        /\ z + b - z = b
    BY <1>8
  <2>2. SubSeq(w, z + a + 1, z + b) = SubSeq(s, z + a + 1 - z, z + b - z)
    BY <1>1, <2>1, SubSeqOfConcat2 DEF w, z
  <2> QED BY <1>7, <2>1, <2>2
<1> QED BY <1>6, <1>9, <1>10 DEF w, z

\* All of one segment.
LEMMA SegmentBuffered ==
    ASSUME NEW u \in Bytes, NEW s \in Bytes \ {<<>>}, NEW C \in SUBSET (1 .. Len(u)),
           Len(u) \in C \cup {0},
           NEW state \in BufferState, state.vect = <<>>,
           ConformingIn(u) => state.temp = SubSeq(u, FromIn(u, C, Len(u) + 1), Len(u))
    PROVE  /\ BufferAll(state, SplitBuffer(s)) \in BufferState
           /\ BufferedTo(u \o s, C \cup {Len(u \o s)}, RankIn(u \o s, Len(u)), Len(u),
                         BufferAll(state, SplitBuffer(s)), Len(u \o s))
<1> DEFINE w == u \o s
           z == Len(u)
           D == C \cup {Len(w)}
           n == RankIn(w, z)
<1>1. /\ z \in Nat
      /\ Len(w) \in Nat
      /\ Len(w) = z + Len(s)
      /\ Len(s) \in Nat
      /\ z < Len(w)
      /\ w \in Bytes
  <2>1. Len(s) \in Nat /\ Len(s) # 0
    BY EmptySeq DEF Bytes
  <2> QED BY <2>1 DEF Bytes
<1>2. LastSegment(w, D, z)
  <2> HIDE DEF w, z
  <2>1. C \in SUBSET (1 .. z) /\ z \in C \cup {0}
    BY DEF z
  <2>2. D \in SUBSET (1 .. Len(w)) /\ Len(w) \in D
    <3>1. Len(w) \in 1 .. Len(w) /\ 1 .. z \subseteq 1 .. Len(w)
      BY <1>1
    <3> QED BY <2>1, <3>1
  <2>3. \A x \in D : ~(z < x /\ x < Len(w))
    BY <1>1, <2>1
  <2> QED BY <1>1, <2>1, <2>2, <2>3 DEF LastSegment
<1>3. BufferedTo(w, D, n, z, state, z)
  <2>1. n + Len(state.vect) = RankIn(w, z)
    <3>1. Len(state.vect) = 0 /\ n \in Nat
      BY <1>1, RankType
    <3> QED BY <3>1
  <2>2. ASSUME ConformingIn(w)
        PROVE  state.temp = SubSeq(w, FromIn(w, D, z + 1), z)
    <3>1. ConformingIn(u)
      <4> SUFFICES ASSUME NEW k \in DOMAIN u, u[k] = CR, k < Len(u)
                   PROVE  u[k + 1] = LF
        BY DEF ConformingIn
      <4>1. k \in DOMAIN w /\ k < Len(w) /\ w[k] = u[k] /\ w[k + 1] = u[k + 1]
        BY DEF Bytes
      <4> QED BY <2>2, <4>1 DEF ConformingIn
    <3>2. z + 1 \in Nat \ {0} /\ z + 1 <= Len(u) + 1 /\ (z + 1) - 1 = z
      BY <1>1
    <3>3. FromIn(w, D, z + 1) = FromIn(u, C, z + 1)
      BY <3>2, EarlierSame
    <3>4. FromIn(u, C, z + 1) \in 1 .. z + 1
      <4>1. C \in SUBSET Nat
        BY <1>1
      <4> QED BY <3>2, <4>1, FromInIs
    <3>5. \A a \in 1 .. z + 1 : SubSeq(w, a, (z + 1) - 1) = SubSeq(u, a, (z + 1) - 1)
      BY <3>2, EarlierSame
    <3> QED BY <3>1, <3>2, <3>3, <3>4, <3>5
  <2>3. \A e \in LFs(w) : ~(z < e /\ e <= z)
    BY <1>1 DEF LFs, Bytes
  <2> HIDE DEF w, z, D, n
  <2> QED BY <2>1, <2>2, <2>3 DEF BufferedTo
<1>4. PICK c, m : Pieces(s, SplitBuffer(s), c, m)
  BY SplitBufferPieces
<1> DEFINE pieces == SplitBuffer(s)
<1>5. EachNext(u \o s, Len(u), SplitBuffer(s), c, m)
  BY <1>4, PieceIsNext
<1>6. /\ m \in Nat
      /\ pieces \in Seq(Bytes)
      /\ Len(pieces) = m
      /\ c[0] = 0
      /\ c[m] = Len(s)
  BY <1>4 DEF Pieces
<1>7. PICK f \in [0 .. m -> BufferState] :
         /\ f[0] = state
         /\ \A i \in 1 .. m : f[i] = Buffer(f[i - 1], pieces[i])
         /\ BufferAll(state, pieces) = f[m]
  BY <1>6, BufferLoop
<1> HIDE DEF n, D
<1> DEFINE S == {i \in Nat : i <= m => BufferedTo(w, D, n, z, f[i], z + c[i])}
<1>8. 0 \in S
  <2>1. z + c[0] = z
    BY <1>1, <1>6
  <2> QED BY <1>3, <1>7, <2>1
<1>9. ASSUME NEW i \in Nat, i \in S
      PROVE  i + 1 \in S
  <2>1. SUFFICES ASSUME i + 1 <= m
                 PROVE  BufferedTo(w, D, n, z, f[i + 1], z + c[i + 1])
    OBVIOUS
  <2>2. BufferedTo(w, D, n, z, f[i], z + c[i])
    BY <1>6, <1>9, <2>1
  <2>3. /\ i + 1 \in 1 .. m
        /\ (i + 1) - 1 = i
        /\ f[i] \in BufferState
        /\ f[i + 1] = Buffer(f[i], pieces[i + 1])
    BY <1>6, <1>7, <2>1
  <2>4. /\ NextPiece(w, z, z + c[i], z + c[i + 1])
        /\ pieces[i + 1] = SubSeq(w, z + c[i] + 1, z + c[i + 1])
    <3>1. PICK k \in 1 .. m : k = i + 1 /\ k - 1 = i
      BY <2>3
    <3>2. /\ NextPiece(u \o s, Len(u), Len(u) + c[k - 1], Len(u) + c[k])
          /\ pieces[k] = SubSeq(u \o s, Len(u) + c[k - 1] + 1, Len(u) + c[k])
      BY <1>5 DEF EachNext
    <3> QED BY <3>1, <3>2 DEF w, z
  <2> DEFINE p == z + c[i]
             q == z + c[i + 1]
             before == f[i]
  <2>5. /\ NextPiece(w, z, p, q)
        /\ BufferedTo(w, D, RankIn(w, z), z, before, p)
        /\ before \in BufferState
        /\ f[i + 1] = Buffer(before, SubSeq(w, p + 1, q))
    BY <2>2, <2>3, <2>4 DEF n
  <2> HIDE DEF p, q, before, w, z
  <2>6. BufferedTo(w, D, RankIn(w, z), z, Buffer(before, SubSeq(w, p + 1, q)), q)
    BY <1>1, <1>2, <2>5, BufferPiece
  <2> QED BY <2>5, <2>6 DEF n, q
<1>10. m \in S
  <2> HIDE DEF S
  <2> QED BY <1>6, <1>8, <1>9, Induction
<1>11. BufferedTo(w, D, n, z, f[m], z + c[m]) /\ f[m] \in BufferState
  <2>1. m <= m /\ m \in 0 .. m
    BY <1>6
  <2>2. f[m] \in BufferState
    BY <1>7, <2>1
  <2> HIDE DEF w, z
  <2> QED BY <1>10, <2>1, <2>2
<1>12. z + c[m] = Len(w)
  BY <1>1, <1>6
<1> QED BY <1>7, <1>11, <1>12 DEF n, D

-----------------------------------------------------------------------------
\* What Handler makes of a line.

\* A line that was stripped is still a line.
LEMMA StrippedType ==
    ASSUME NEW line \in Bytes
    PROVE  Stripped(line) \in Bytes
<1> DEFINE crs == {k \in DOMAIN line : line[k] = CR}
<1>1. /\ Len(line) \in Nat
      /\ crs \in SUBSET (1 .. Len(line))
      /\ \A k \in 1 .. Len(line) : line[k] \in Byte
  BY DEF Bytes
<1>2. CASE crs = {}
  BY <1>2 DEF Stripped
<1>3. CASE crs # {}
  <2> DEFINE c == Min(crs)
  <2>1. c \in 1 .. Len(line)
    <3> HIDE DEF crs
    <3> QED BY <1>1, <1>3, MinOf
  <2>2. Stripped(line) = SubSeq(line, 1, c - 1)
    BY <1>3 DEF Stripped
  <2> HIDE DEF c, crs
  <2>3. c - 1 \in Int /\ \A k \in 1 .. c - 1 : line[k] \in Byte
    BY <1>1, <2>1
  <2>4. SubSeq(line, 1, c - 1) \in Seq(Byte)
    BY <2>3, SubSeqProperties
  <2> QED BY <2>2, <2>4 DEF Bytes
<1> QED BY <1>2, <1>3

\* A line has no CR but the one in front of its LF.
LEMMA StrippedLine ==
    ASSUME NEW w \in Bytes, ConformingIn(w), NEW e \in LFs(w), NEW g \in 1 .. e,
           \A j \in g .. e - 1 : w[j] # LF
    PROVE  Stripped(SubSeq(w, g, e)) =
              SubSeq(w, g, IF g < e /\ w[e - 1] = CR THEN e - 2 ELSE e)
<1> DEFINE line == SubSeq(w, g, e)
           crs == {k \in DOMAIN line : line[k] = CR}
<1>1. /\ e \in 1 .. Len(w)
      /\ e \in Nat /\ g \in Nat /\ 1 <= g /\ g <= e
      /\ Len(w) \in Nat
      /\ w[e] = LF
      /\ DOMAIN w = 1 .. Len(w)
      /\ \A j \in 1 .. Len(w) : w[j] \in Byte
  <2>1. e \in 1 .. Len(w) /\ w[e] = LF /\ Len(w) \in Nat
    BY DEF LFs, Bytes
  <2> QED BY <2>1 DEF Bytes
<1>2. /\ line \in Seq(Byte)
      /\ Len(line) = e - g + 1
      /\ \A k \in 1 .. e - g + 1 : line[k] = w[g + k - 1]
      /\ DOMAIN line = 1 .. e - g + 1
  <2>1. g \in Int /\ e \in Int /\ \A j \in g .. e : w[j] \in Byte
    BY <1>1
  <2>2. /\ line \in Seq(Byte)
        /\ Len(line) = IF g <= e THEN e - g + 1 ELSE 0
        /\ \A k \in 1 .. e - g + 1 : line[k] = w[g + k - 1]
    BY <2>1, SubSeqProperties
  <2> HIDE DEF line
  <2> QED BY <1>1, <2>2
<1> HIDE DEF line
<1>3. \A k \in crs : k = e - g /\ g < e /\ w[e - 1] = CR
  <2> SUFFICES ASSUME NEW k \in 1 .. e - g + 1, w[g + k - 1] = CR
               PROVE  k = e - g /\ g < e /\ w[e - 1] = CR
    BY <1>2
  <2>1. PICK j \in Nat : j = g + k - 1
    BY <1>1
  <2>2. j >= g /\ j <= e /\ w[j] = CR
    BY <1>1, <2>1
  <2>3. j # e
    BY <1>1, <2>2 DEF CR, LF
  <2>4. j \in DOMAIN w /\ j < Len(w)
    BY <1>1, <2>2, <2>3
  <2>5. w[j + 1] = LF
    BY <2>2, <2>4 DEF ConformingIn
  <2>6. ~(j + 1 \in g .. e - 1)
    BY <2>5
  <2>7. j = e - 1
    BY <1>1, <2>2, <2>3, <2>6
  <2>8. k = e - g /\ g < e
    BY <1>1, <2>1, <2>2, <2>7
  <2> QED BY <2>2, <2>7, <2>8
<1>4. CASE g < e /\ w[e - 1] = CR
  <2>1. e - g \in crs
    <3>1. e - g \in 1 .. e - g + 1 /\ g + (e - g) - 1 = e - 1
      BY <1>1, <1>4
    <3> QED BY <1>2, <1>4, <3>1
  <2>2. crs = {e - g}
    BY <1>3, <2>1
  <2>3. Min(crs) = e - g
    <3>1. crs \in SUBSET (1 .. e - g + 1) /\ crs # {} /\ e - g + 1 \in Nat
      BY <1>1, <1>2, <2>1
    <3> HIDE DEF crs
    <3>2. Min(crs) \in crs
      BY <3>1, MinOf
    <3> QED BY <2>2, <3>2
  <2>4. Stripped(line) = SubSeq(line, 1, e - g - 1)
    BY <2>1, <2>3 DEF Stripped
  <2>5. SubSeq(line, 1, e - g - 1) = SubSeq(w, g, e - 2)
    <3>1. CASE g = e - 1
      <4>1. e - g - 1 < 1 /\ e - 2 < g /\ e - g - 1 \in Int /\ e - 2 \in Int /\ g \in Int
        BY <1>1, <3>1
      <4> QED BY <4>1, SubSeqEmpty
    <3>2. CASE g # e - 1
      <4>1. /\ g \in 1 .. Len(w)
            /\ e \in 1 .. Len(w)
            /\ 1 \in 1 .. e - g + 1
            /\ e - g - 1 \in 1 .. e - g + 1
            /\ g + 1 - 1 = g
            /\ g + (e - g - 1) - 1 = e - 2
        BY <1>1, <1>4, <3>2
      <4>2. SubSeq(SubSeq(w, g, e), 1, e - g - 1) = SubSeq(w, g + 1 - 1, g + (e - g - 1) - 1)
        BY <4>1, SubSeqOfSubSeq DEF Bytes
      <4> QED BY <4>1, <4>2 DEF line
    <3> QED BY <3>1, <3>2
  <2> QED BY <1>4, <2>4, <2>5 DEF line
<1>5. CASE ~(g < e /\ w[e - 1] = CR)
  <2>1. crs = {}
    BY <1>3, <1>5
  <2>2. Stripped(line) = line
    BY <2>1 DEF Stripped
  <2> QED BY <1>5, <2>2 DEF line
<1> QED BY <1>4, <1>5

\* What begins later and ends at the same place is a suffix.
LEMMA SubSeqSuffix ==
    ASSUME NEW w \in Bytes, NEW h \in 0 .. Len(w), NEW f \in 1 .. h + 1, NEW a \in 1 .. f
    PROVE  IsSuffix(SubSeq(w, f, h), SubSeq(w, a, h))
<1> DEFINE s == SubSeq(w, f, h)
           t == SubSeq(w, a, h)
<1>1. /\ Len(w) \in Nat
      /\ h \in Nat /\ f \in Nat /\ a \in Nat
      /\ 1 <= a /\ a <= f /\ f <= h + 1 /\ h <= Len(w)
      /\ \A j \in 1 .. Len(w) : w[j] \in Byte
  <2>1. Len(w) \in Nat /\ \A j \in 1 .. Len(w) : w[j] \in Byte
    BY DEF Bytes
  <2> QED BY <2>1
<1>2. /\ s \in Seq(Byte)
      /\ Len(s) = h - f + 1
      /\ \A i \in 1 .. h - f + 1 : s[i] = w[f + i - 1]
  <2>1. f \in Int /\ h \in Int /\ \A j \in f .. h : w[j] \in Byte
    BY <1>1
  <2>2. /\ s \in Seq(Byte)
        /\ Len(s) = IF f <= h THEN h - f + 1 ELSE 0
        /\ \A i \in 1 .. h - f + 1 : s[i] = w[f + i - 1]
    BY <2>1, SubSeqProperties
  <2> HIDE DEF s
  <2> QED BY <1>1, <2>2
<1>3. /\ t \in Seq(Byte)
      /\ Len(t) = h - a + 1
      /\ \A i \in 1 .. h - a + 1 : t[i] = w[a + i - 1]
  <2>1. a \in Int /\ h \in Int /\ \A j \in a .. h : w[j] \in Byte
    BY <1>1
  <2>2. /\ t \in Seq(Byte)
        /\ Len(t) = IF a <= h THEN h - a + 1 ELSE 0
        /\ \A i \in 1 .. h - a + 1 : t[i] = w[a + i - 1]
    BY <2>1, SubSeqProperties
  <2> HIDE DEF t
  <2> QED BY <1>1, <2>2
<1> HIDE DEF s, t
<1>4. PICK n \in Nat, m \in Nat : n = Len(s) /\ m = Len(t) /\ n <= m
  BY <1>1, <1>2, <1>3
<1>5. \A i \in 1 .. n : s[(n - i) + 1] = w[h - i + 1]
  <2> TAKE i \in 1 .. n
  <2>1. (n - i) + 1 \in 1 .. h - f + 1 /\ f + ((n - i) + 1) - 1 = h - i + 1
    BY <1>1, <1>2, <1>4
  <2> QED BY <1>2, <2>1
<1>6. \A i \in 1 .. m : t[(m - i) + 1] = w[h - i + 1]
  <2> TAKE i \in 1 .. m
  <2>1. (m - i) + 1 \in 1 .. h - a + 1 /\ a + ((m - i) + 1) - 1 = h - i + 1
    BY <1>1, <1>3, <1>4
  <2> QED BY <1>3, <2>1
<1> DEFINE rs == Reverse(s)
           rt == Reverse(t)
<1>7. rs = [i \in 1 .. n |-> s[(n - i) + 1]] /\ rt = [i \in 1 .. m |-> t[(m - i) + 1]]
  BY <1>4 DEF Reverse
<1>8. /\ rs \in Seq(Byte)
      /\ Len(rs) = n
      /\ \A i \in 1 .. n : rs[i] = w[h - i + 1]
  <2>1. \A i \in 1 .. n : (n - i) + 1 \in 1 .. Len(s)
    BY <1>4
  <2>2. \A i \in 1 .. n : s[(n - i) + 1] \in Byte
    BY <1>2, <2>1, ElementOfSeq
  <2> HIDE DEF rs
  <2> QED BY <1>5, <1>7, <2>2
<1>9. /\ rt \in Seq(Byte)
      /\ Len(rt) = m
      /\ \A i \in 1 .. m : rt[i] = w[h - i + 1]
  <2>1. \A i \in 1 .. m : (m - i) + 1 \in 1 .. Len(t)
    BY <1>4
  <2>2. \A i \in 1 .. m : t[(m - i) + 1] \in Byte
    BY <1>3, <2>1, ElementOfSeq
  <2> HIDE DEF rt
  <2> QED BY <1>6, <1>7, <2>2
<1> HIDE DEF rs, rt
<1>10. SubSeq(rs, 1, n) = SubSeq(rt, 1, n)
  <2>1. /\ SubSeq(rs, 1, n) \in Seq(Byte)
        /\ Len(SubSeq(rs, 1, n)) = n
        /\ \A i \in 1 .. n : SubSeq(rs, 1, n)[i] = rs[i]
    BY <1>8
  <2>2. /\ SubSeq(rt, 1, n) \in Seq(Byte)
        /\ Len(SubSeq(rt, 1, n)) = n
        /\ \A i \in 1 .. n : SubSeq(rt, 1, n)[i] = rt[i]
    BY <1>4, <1>9
  <2>3. \A i \in 1 .. n : i \in 1 .. m /\ rs[i] = rt[i]
    BY <1>4, <1>8, <1>9
  <2> QED BY <2>1, <2>2, <2>3, SeqEqual
<1>11. IsPrefix(rs, rt)
  BY <1>4, <1>8, <1>9, <1>10 DEF IsPrefix
<1> QED BY <1>11 DEF IsSuffix, rs, rt, s, t

-----------------------------------------------------------------------------
\* The inductive invariant.

\* The position from which on the line that ends at e is executed.
From(e) == FromIn(stream, cuts, e)

\* As many lines are received as the stream holds, and each of them, and the
\* line under way, is what From says.
Exact ==
    /\ Len(stream) \in cuts \cup {0}
    /\ Len(Received) = RankIn(stream, Len(stream))
    /\ Conforming =>
          /\ temp = SubSeq(stream, From(Len(stream) + 1), Len(stream))
          /\ \A e \in Ends : Received[Rank(e)] = Stripped(SubSeq(stream, From(e), e))

LineInv == TypeOK /\ Exact

\* The executed lines and then the complete ones, stripped.
LEMMA ReceivedIs ==
    ASSUME NEW done \in Seq(Bytes), NEW lines \in Seq(Bytes)
    PROVE  LET all == done \o [k \in DOMAIN lines |-> Stripped(lines[k])]
           IN  /\ all \in Seq(Bytes)
               /\ Len(all) = Len(done) + Len(lines)
               /\ \A k \in 1 .. Len(done) : all[k] = done[k]
               /\ \A k \in 1 .. Len(lines) : all[Len(done) + k] = Stripped(lines[k])
<1> DEFINE stripped == [k \in DOMAIN lines |-> Stripped(lines[k])]
           all == done \o stripped
<1>1. /\ DOMAIN lines = 1 .. Len(lines)
      /\ Len(lines) \in Nat
      /\ Len(done) \in Nat
      /\ \A k \in 1 .. Len(lines) : lines[k] \in Bytes
  OBVIOUS
<1>2. \A k \in 1 .. Len(lines) : Stripped(lines[k]) \in Bytes
  BY <1>1, StrippedType
<1>3. stripped \in Seq(Bytes) /\ Len(stripped) = Len(lines)
  BY <1>1, <1>2
<1>4. \A k \in 1 .. Len(lines) : stripped[k] = Stripped(lines[k])
  BY <1>1
<1> HIDE DEF stripped
<1>5. /\ all \in Seq(Bytes)
      /\ Len(all) = Len(done) + Len(lines)
      /\ \A k \in 1 .. Len(done) + Len(lines) :
            all[k] = IF k <= Len(done) THEN done[k] ELSE stripped[k - Len(done)]
  <2>1. /\ done \o stripped \in Seq(Bytes)
        /\ Len(done \o stripped) = Len(done) + Len(stripped)
        /\ \A k \in 1 .. Len(done) + Len(stripped) :
              (done \o stripped)[k] =
                 IF k <= Len(done) THEN done[k] ELSE stripped[k - Len(done)]
    <3> HIDE DEF all
    <3> QED BY <1>3, ConcatProperties
  <2> QED BY <1>3, <2>1
<1> HIDE DEF all
<1>6. \A k \in 1 .. Len(done) : all[k] = done[k]
  BY <1>1, <1>5
<1>7. \A k \in 1 .. Len(lines) : all[Len(done) + k] = Stripped(lines[k])
  <2> TAKE k \in 1 .. Len(lines)
  <2>1. /\ Len(done) + k \in 1 .. Len(done) + Len(lines)
        /\ ~(Len(done) + k <= Len(done))
        /\ (Len(done) + k) - Len(done) = k
    BY <1>1
  <2> QED BY <1>4, <1>5, <2>1
<1> QED BY <1>5, <1>6, <1>7 DEF all, stripped

\* The invariant holds when nothing was sent.
LEMMA LineInit == Init => LineInv
<1> SUFFICES ASSUME Init PROVE LineInv
  OBVIOUS
<1> USE DEF Init
<1>1. TypeOK
  BY DEF TypeOK, Bytes
<1>2. LFs(stream) = {} /\ Ends = {}
  BY DEF LFs, Ends
<1>3. Len(stream) = 0 /\ Len(stream) \in cuts \cup {0}
  OBVIOUS
<1>4. RankIn(stream, Len(stream)) = 0
  BY <1>2, FS_EmptySet DEF RankIn
<1>5. Len(Received) = 0
  BY DEF Received
<1>6. temp = SubSeq(stream, From(Len(stream) + 1), Len(stream))
  <2>1. FromIn(stream, cuts, 1) \in 1 .. 1
    <3>1. stream \in Bytes /\ cuts \in SUBSET Nat
      BY DEF Bytes
    <3> QED BY <3>1, FromInIs
  <2>2. From(Len(stream) + 1) = 1
    BY <1>3, <2>1 DEF From
  <2>3. SubSeq(stream, 1, 0) = <<>>
    BY SubSeqEmpty
  <2> QED BY <1>3, <2>2, <2>3
<1> QED BY <1>1, <1>2, <1>3, <1>4, <1>5, <1>6 DEF LineInv, Exact

\* Executing the lines changes nothing that the invariant counts.
LEMMA LineExecute == LineInv /\ Execute => LineInv'
<1> SUFFICES ASSUME LineInv, Execute PROVE LineInv'
  OBVIOUS
<1>1. TypeOK /\ Exact
  BY DEF LineInv
<1>2. /\ executed' = Received
      /\ vect' = <<>>
      /\ turn' = "receive"
      /\ stream' = stream /\ cuts' = cuts /\ temp' = temp
  BY DEF Execute, Received
<1>3. Received \in Seq(Bytes)
  BY <1>1, ReceivedIs DEF TypeOK, Received
<1>4. TypeOK'
  BY <1>1, <1>2, <1>3 DEF TypeOK
<1>5. Received' = Received
  <2>1. Received' = executed' \o [k \in DOMAIN vect' |-> Stripped(vect'[k])]
    BY DEF Received
  <2>2. [k \in DOMAIN vect' |-> Stripped(vect'[k])] = <<>>
    BY <1>2
  <2> QED BY <1>2, <1>3, <2>1, <2>2, ConcatEmptySeq
<1>6. Exact'
  BY <1>1, <1>2, <1>5 DEF Exact, Conforming, Ends, Rank, From
<1> QED BY <1>4, <1>6 DEF LineInv

\* A segment is never empty: recv() returned more than 0.
LEMMA SegmentType ==
    ASSUME TypeOK, NEW segment \in Segment
    PROVE  segment \in Bytes \ {<<>>}
<1>1. PICK n \in 1 .. (MaxBytes - Len(stream)) : segment \in [1 .. n -> Byte]
  BY DEF Segment
<1>2. Len(stream) \in Nat /\ MaxBytes \in Nat
  BY TextAssumption DEF TypeOK, Bytes
<1>3. n \in Nat /\ n >= 1
  BY <1>1, <1>2
<1>4. segment \in Seq(Byte) /\ Len(segment) = n
  BY <1>1, <1>3
<1> QED BY <1>3, <1>4 DEF Bytes

\* A segment adds its lines to those received, and changes no earlier one.
LEMMA LineReceive ==
    ASSUME LineInv, NEW segment \in Segment, ReceiveNewData(segment)
    PROVE  LineInv'
<1> DEFINE u == stream
           w == stream \o segment
           C == cuts
           D == cuts \cup {Len(w)}
           z == Len(stream)
           n == RankIn(w, z)
           state == [vect |-> vect, temp |-> temp]
           after == BufferAll(state, SplitBuffer(segment))
<1>1. TypeOK /\ Exact
  BY DEF LineInv
<1>2. /\ turn = "receive"
      /\ vect = <<>>
      /\ stream' = w
      /\ cuts' = D
      /\ temp' = after.temp
      /\ vect' = after.vect
      /\ turn' = "execute"
      /\ executed' = executed
  BY <1>1 DEF ReceiveNewData, TypeOK
<1>3. segment \in Bytes \ {<<>>}
  BY <1>1, SegmentType
<1>4. /\ u \in Bytes
      /\ z \in Nat
      /\ C \in SUBSET (1 .. z)
      /\ z \in C \cup {0}
      /\ w \in Bytes
      /\ Len(w) \in Nat
      /\ z < Len(w)
  <2>1. u \in Bytes /\ z \in Nat /\ C \in SUBSET (1 .. z) /\ z \in C \cup {0}
    BY <1>1 DEF TypeOK, Exact, Bytes
  <2>2. Len(segment) \in Nat /\ Len(segment) # 0
    BY <1>3, EmptySeq DEF Bytes
  <2>3. w \in Bytes /\ Len(w) = z + Len(segment)
    BY <1>3, <2>1 DEF Bytes
  <2> QED BY <2>1, <2>2, <2>3
<1>5. state \in BufferState /\ state.vect = <<>> /\ state.temp = temp
  BY <1>1, <1>2 DEF BufferState, TypeOK
<1>6. ConformingIn(u) =>
         /\ temp = SubSeq(u, FromIn(u, C, z + 1), z)
         /\ \A e \in LFs(u) : Received[RankIn(u, e)] = Stripped(SubSeq(u, FromIn(u, C, e), e))
  <2>1. Conforming <=> ConformingIn(u)
    BY DEF Conforming, ConformingIn
  <2>2. Ends = LFs(u) /\ \A e : Rank(e) = RankIn(u, e) /\ From(e) = FromIn(u, C, e)
    BY DEF Ends, LFs, Rank, RankIn, From
  <2> QED BY <1>1, <2>1, <2>2 DEF Exact
<1>7. after \in BufferState /\ BufferedTo(w, D, n, z, after, Len(w))
  <2>1. ConformingIn(u) => state.temp = SubSeq(u, FromIn(u, C, z + 1), z)
    BY <1>5, <1>6
  <2> HIDE DEF state
  <2> QED BY <1>3, <1>4, <1>5, <2>1, SegmentBuffered
<1> HIDE DEF after, state, n
<1>8. /\ executed \in Seq(Bytes)
      /\ after.vect \in Seq(Bytes)
      /\ after.temp \in Bytes
      /\ Len(executed) \in Nat
      /\ Len(after.vect) \in Nat
  <2>1. executed \in Seq(Bytes) /\ after.vect \in Seq(Bytes) /\ after.temp \in Bytes
    BY <1>1, <1>7 DEF TypeOK, BufferState
  <2> QED BY <2>1
<1>9. TypeOK'
  <2>1. D \subseteq 1 .. Len(w)
    <3> HIDE DEF w, C
    <3>1. Len(w) \in 1 .. Len(w) /\ 1 .. z \subseteq 1 .. Len(w)
      BY <1>4
    <3> QED BY <1>4, <3>1 DEF C
  <2> HIDE DEF w
  <2> QED BY <1>2, <1>4, <1>8, <2>1 DEF TypeOK
<1>10. /\ n = RankIn(u, z)
       /\ n \in Nat
       /\ Len(executed) = n
       /\ \A r \in 1 .. n : Received[r] = executed[r]
  <2>1. n = RankIn(u, z)
    <3>1. z \in Nat /\ z <= Len(u) + 1 /\ z <= Len(u)
      BY <1>4
    <3> QED BY <1>3, <1>4, <3>1, EarlierSame DEF n
  <2>2. n \in Nat
    BY <1>4, RankType DEF n
  <2>3. /\ Len(Received) = Len(executed) + Len(vect)
        /\ \A r \in 1 .. Len(executed) : Received[r] = executed[r]
    <3>1. vect \in Seq(Bytes)
      BY <1>1 DEF TypeOK
    <3> QED BY <1>8, <3>1, ReceivedIs DEF Received
  <2>4. Len(vect) = 0 /\ Len(Received) = RankIn(u, z)
    BY <1>1, <1>2 DEF Exact
  <2> QED BY <1>8, <2>1, <2>2, <2>3, <2>4
<1>11. /\ Len(Received') = n + Len(after.vect)
       /\ \A r \in 1 .. n : Received'[r] = executed[r]
       /\ \A r \in 1 .. Len(after.vect) : Received'[n + r] = Stripped(after.vect[r])
  <2>1. Received' = executed \o [k \in DOMAIN after.vect |-> Stripped(after.vect[k])]
    BY <1>2 DEF Received
  <2> QED BY <1>8, <1>10, <2>1, ReceivedIs
<1>12. Len(Received') = RankIn(w, Len(w))
  BY <1>7, <1>11 DEF BufferedTo
<1>13. ASSUME ConformingIn(w)
       PROVE  ConformingIn(u)
  <2> SUFFICES ASSUME NEW k \in DOMAIN u, u[k] = CR, k < Len(u)
               PROVE  u[k + 1] = LF
    BY DEF ConformingIn
  <2>1. k \in DOMAIN w /\ k < Len(w) /\ w[k] = u[k] /\ w[k + 1] = u[k + 1]
    BY <1>3, <1>4 DEF Bytes
  <2> QED BY <1>13, <2>1 DEF ConformingIn
<1>14. ASSUME ConformingIn(w), NEW e \in LFs(w)
       PROVE  Received'[RankIn(w, e)] = Stripped(SubSeq(w, FromIn(w, D, e), e))
  <2>1. e \in Nat /\ 1 <= e /\ e <= Len(w)
    BY <1>4 DEF LFs, Bytes
  <2>2. RankIn(w, e) \in Nat
    BY <1>4, <2>1, RankType
  <2>3. CASE e <= z
    <3>1. /\ FromIn(w, D, e) = FromIn(u, C, e)
          /\ RankIn(w, e) = RankIn(u, e)
          /\ e \in LFs(u)
      <4>1. e <= Len(u) + 1 /\ e <= Len(u)
        BY <1>4, <2>1, <2>3
      <4> QED BY <1>3, <1>4, <1>14, <2>1, <4>1, EarlierSame
    <3>2. SubSeq(w, FromIn(u, C, e), e) = SubSeq(u, FromIn(u, C, e), e)
      <4>1. FromIn(u, C, e) \in 1 .. e
        <5>1. C \in SUBSET Nat /\ e \in Nat \ {0}
          BY <1>4, <2>1
        <5> QED BY <1>4, <5>1, FromInIs
      <4>2. PICK f \in Nat : f = e + 1
        BY <2>1
      <4>3. f <= Len(u) + 1 /\ f - 1 = e /\ FromIn(u, C, e) \in 1 .. f
        BY <1>4, <2>1, <2>3, <4>1, <4>2
      <4>4. \A a \in 1 .. f : SubSeq(w, a, f - 1) = SubSeq(u, a, f - 1)
        BY <1>3, <1>4, <4>3, EarlierSame
      <4> QED BY <4>3, <4>4
    <3>3. RankIn(w, e) \in 1 .. n
      <4>1. RankIn(w, 0) < RankIn(w, e) /\ RankIn(w, 0) \in Nat
        <5>1. 0 \in Nat /\ 0 < e /\ 0 <= e
          BY <2>1
        <5> HIDE DEF w
        <5> QED BY <1>4, <2>1, <5>1, RankGrows, RankType
      <4>2. RankIn(w, e) <= n
        BY <1>4, <2>1, <2>3, RankGrows DEF n
      <4> QED BY <1>10, <2>2, <4>1, <4>2
    <3>4. Received'[RankIn(w, e)] = Received[RankIn(u, e)]
      BY <1>10, <1>11, <3>1, <3>3
    <3> QED BY <1>6, <1>13, <1>14, <3>1, <3>2, <3>4
  <2>4. CASE z < e
    <3>1. RankIn(w, e) - n \in 1 .. Len(after.vect)
      <4>1. n < RankIn(w, e)
        BY <1>4, <2>1, <2>4, RankGrows DEF n
      <4>2. RankIn(w, e) <= RankIn(w, Len(w))
        BY <1>4, <2>1, RankGrows
      <4>3. n + Len(after.vect) = RankIn(w, Len(w))
        BY <1>11, <1>12
      <4> QED BY <1>8, <1>10, <2>2, <4>1, <4>2, <4>3
    <3>2. after.vect[RankIn(w, e) - n] = SubSeq(w, FromIn(w, D, e), e)
      BY <1>7, <1>14, <2>1, <2>4 DEF BufferedTo
    <3>3. n + (RankIn(w, e) - n) = RankIn(w, e)
      BY <1>10, <2>2
    <3> QED BY <1>11, <3>1, <3>2, <3>3
  <2> QED BY <1>4, <2>1, <2>3, <2>4
<1>15. Exact'
  <2>1. Conforming' <=> ConformingIn(w)
    BY <1>2 DEF Conforming, ConformingIn
  <2>2. /\ Ends' = LFs(w)
        /\ \A e : (Rank(e))' = RankIn(w, e) /\ (From(e))' = FromIn(w, D, e)
    BY <1>2 DEF Ends, LFs, Rank, RankIn, From
  <2>3. ConformingIn(w) => after.temp = SubSeq(w, FromIn(w, D, Len(w) + 1), Len(w))
    BY <1>7 DEF BufferedTo
  <2>4. Len(w) \in D \cup {0}
    OBVIOUS
  <2> HIDE DEF w, D
  <2> QED BY <1>2, <1>12, <1>14, <2>1, <2>2, <2>3, <2>4 DEF Exact
<1> QED BY <1>9, <1>15 DEF LineInv

\* Every step keeps the invariant.
LEMMA LineStep == LineInv /\ [Next]_vars => LineInv'
<1> SUFFICES ASSUME LineInv, [Next]_vars PROVE LineInv'
  OBVIOUS
<1>1. CASE Execute
  BY <1>1, LineExecute
<1>2. ASSUME NEW segment \in Segment, ReceiveNewData(segment)
      PROVE  LineInv'
  BY <1>2, LineReceive
<1>3. CASE UNCHANGED vars
  <2>1. Received' = Received
    BY <1>3 DEF vars, Received
  <2> QED BY <1>3, <2>1 DEF vars, LineInv, TypeOK, Exact, Conforming, Ends, Rank, From
<1> QED BY <1>1, <1>2, <1>3 DEF Next

\* Whatever the borders of the segments, a line that was received is what was
\* sent from the last but one cut before its end on, and all of it if it was
\* not cut twice.
THEOREM LinesExact == Spec => []LineInv
BY LineInit, LineStep, PTL DEF Spec

-----------------------------------------------------------------------------
\* What follows.

\* The buffers hold lines of bytes, and no complete line waits for a segment.
THEOREM LineTypeCorrect == Spec => []TypeOK
<1>1. LineInv => TypeOK
  BY DEF LineInv
<1> QED BY <1>1, LinesExact, PTL

\* The positions of the newlines.
LEMMA EndsAll ==
    ASSUME TypeOK
    PROVE  /\ stream \in Bytes
           /\ cuts \in SUBSET Nat
           /\ Ends = LFs(stream)
           /\ Ends \in SUBSET Nat
           /\ \A e \in Ends : e \in 1 .. Len(stream)
           /\ Len(stream) \in Nat
BY DEF TypeOK, Bytes, Ends, LFs

\* Each line is executed once, however the stream is cut.
THEOREM EachLineOnce == Spec => []OneEach
<1>1. ASSUME LineInv
      PROVE  OneEach
  <2>1. TypeOK /\ Len(Received) = RankIn(stream, Len(stream))
    BY <1>1 DEF LineInv, Exact
  <2>2. {k \in LFs(stream) : k <= Len(stream)} = Ends
    BY <2>1, EndsAll
  <2> QED BY <2>1, <2>2 DEF OneEach, RankIn
<1> QED BY <1>1, LinesExact, PTL

\* From is in the line that ends at e, in front of its CR LF, and at its start
\* if the line was cut at most once.
LEMMA FromBetween ==
    ASSUME TypeOK, NEW e \in Ends
    PROVE  /\ From(e) \in 1 .. e
           /\ LastBefore(Ends, e) + 1 \in 1 .. From(e)
           /\ \A j \in LastBefore(Ends, e) + 1 .. e - 1 : stream[j] # LF
           /\ From(e) = e => e = 1 \/ stream[e - 1] = LF
           /\ Cardinality(CutsIn(e)) <= 1 => From(e) = LastBefore(Ends, e) + 1
<1> DEFINE a == LastBefore(Ends, e)
           d == LastBefore(cuts, e)
           b == LastBefore(cuts, d)
<1>1. /\ stream \in Bytes
      /\ cuts \in SUBSET Nat
      /\ Ends = LFs(stream)
      /\ Ends \in SUBSET Nat
      /\ e \in 1 .. Len(stream)
      /\ e \in Nat \ {0}
      /\ Len(stream) \in Nat
  BY EndsAll
<1>2. /\ a \in Nat
      /\ a = 0 \/ (a \in Ends /\ a < e)
      /\ \A k \in Ends : k < e => k <= a
  BY <1>1, LastBeforeIs
<1>3. /\ d \in Nat
      /\ d = 0 \/ (d \in cuts /\ d < e)
  BY <1>1, LastBeforeIs
<1> HIDE DEF a, d
<1>4. /\ b \in Nat
      /\ b = 0 \/ (b \in cuts /\ b < d)
  BY <1>1, <1>3, LastBeforeIs
<1> HIDE DEF b
<1>5. From(e) = (IF a >= b THEN a ELSE b) + 1
  <2>1. From(e) = Max({a, b}) + 1
    BY <1>1 DEF From, FromIn, a, b, d
  <2> QED BY <1>2, <1>4, <2>1, MaxTwo
<1>6. From(e) \in 1 .. e /\ a + 1 \in 1 .. From(e)
  BY <1>1, <1>2, <1>3, <1>4, <1>5
<1>7. \A j \in a + 1 .. e - 1 : stream[j] # LF
  <2> SUFFICES ASSUME NEW j \in a + 1 .. e - 1, stream[j] = LF
               PROVE  FALSE
    OBVIOUS
  <2>1. j \in 1 .. Len(stream) /\ j < e /\ a < j /\ j \in Nat
    BY <1>1, <1>2
  <2>2. j \in Ends
    BY <1>1, <2>1 DEF Ends, Bytes
  <2> QED BY <1>2, <2>1, <2>2
<1>8. From(e) = e => e = 1 \/ stream[e - 1] = LF
  <2> SUFFICES ASSUME From(e) = e, e # 1
               PROVE  stream[e - 1] = LF
    OBVIOUS
  <2>1. a = e - 1
    BY <1>1, <1>2, <1>3, <1>4, <1>5
  <2>2. a \in Ends
    BY <1>1, <1>2, <2>1
  <2> QED BY <2>1, <2>2 DEF Ends
<1>9. ASSUME Cardinality(CutsIn(e)) <= 1
      PROVE  From(e) = a + 1
  <2> SUFFICES ASSUME ~(a >= b) PROVE FALSE
    BY <1>5
  <2>1. b \in cuts /\ d \in cuts /\ a < b /\ b < d /\ d < e
    BY <1>2, <1>3, <1>4
  <2>2. b \in CutsIn(e) /\ d \in CutsIn(e) /\ b # d
    <3>1. a < d
      BY <1>2, <1>3, <1>4, <2>1
    <3>2. b < e
      BY <1>1, <1>3, <1>4, <2>1
    <3> QED BY <1>4, <2>1, <3>1, <3>2 DEF CutsIn, a
  <2>3. IsFiniteSet(CutsIn(e))
    <3>1. IsFiniteSet(1 .. Len(stream))
      BY <1>1, FS_Interval
    <3>2. CutsIn(e) \in SUBSET (1 .. Len(stream))
      BY DEF CutsIn, TypeOK
    <3> QED BY <3>1, <3>2, FS_Subset
  <2>4. Cardinality({b} \cup {d}) = 2 /\ {b} \cup {d} \in SUBSET CutsIn(e)
    <3>1. IsFiniteSet({b}) /\ Cardinality({b}) = 1 /\ d \notin {b}
      BY <2>2, FS_Singleton
    <3> QED BY <2>2, <3>1, FS_AddElement
  <2>5. 2 <= Cardinality(CutsIn(e))
    BY <2>3, <2>4, FS_Subset
  <2>6. Cardinality(CutsIn(e)) \in Nat
    BY <2>3, FS_CardinalityType
  <2> QED BY <1>9, <2>5, <2>6
<1> QED BY <1>6, <1>7, <1>8, <1>9 DEF a

\* No byte of another line gets into a line, and no line takes the place of
\* another.
THEOREM NothingIsMixed == Spec => []NothingMixed
<1>1. ASSUME LineInv, Conforming, NEW e \in Ends
      PROVE  IsSuffix(Received[Rank(e)], Stripped(SentLine(e)))
  <2> DEFINE a == LastBefore(Ends, e) + 1
             f == From(e)
             h == IF a < e /\ stream[e - 1] = CR THEN e - 2 ELSE e
  <2>1. TypeOK /\ Received[Rank(e)] = Stripped(SubSeq(stream, f, e))
    BY <1>1 DEF LineInv, Exact
  <2>2. /\ stream \in Bytes
        /\ ConformingIn(stream)
        /\ e \in LFs(stream)
        /\ e \in 1 .. Len(stream)
        /\ Len(stream) \in Nat
    BY <1>1, <2>1, EndsAll DEF Conforming, ConformingIn
  <2>3. /\ f \in 1 .. e
        /\ a \in 1 .. f
        /\ \A j \in a .. e - 1 : stream[j] # LF
        /\ f = e => e = 1 \/ stream[e - 1] = LF
    BY <2>1, FromBetween
  <2>4. SentLine(e) = SubSeq(stream, a, e)
    BY DEF SentLine
  <2> HIDE DEF a, f
  <2>5. a \in 1 .. e /\ \A j \in f .. e - 1 : stream[j] # LF
    BY <2>2, <2>3
  <2>6. (f < e /\ stream[e - 1] = CR) <=> (a < e /\ stream[e - 1] = CR)
    BY <2>2, <2>3 DEF CR, LF
  <2>7. Stripped(SubSeq(stream, a, e)) = SubSeq(stream, a, h)
    BY <2>2, <2>3, <2>5, StrippedLine
  <2>8. Stripped(SubSeq(stream, f, e)) = SubSeq(stream, f, h)
    <3>1. Stripped(SubSeq(stream, f, e)) =
             SubSeq(stream, f, IF f < e /\ stream[e - 1] = CR THEN e - 2 ELSE e)
      BY <2>2, <2>3, <2>5, StrippedLine
    <3> QED BY <2>6, <3>1
  <2>9. h \in 0 .. Len(stream) /\ f \in 1 .. h + 1
    <3>1. CASE a < e /\ stream[e - 1] = CR
      <4>1. f < e
        BY <2>6, <3>1
      <4>2. h = e - 2
        BY <3>1
      <4> HIDE DEF h
      <4> QED BY <2>2, <2>3, <4>1, <4>2
    <3>2. CASE ~(a < e /\ stream[e - 1] = CR)
      BY <2>2, <2>3, <3>2
    <3> QED BY <3>1, <3>2
  <2> HIDE DEF h
  <2>10. IsSuffix(SubSeq(stream, f, h), SubSeq(stream, a, h))
    BY <2>2, <2>3, <2>9, SubSeqSuffix
  <2> QED BY <2>1, <2>4, <2>7, <2>8, <2>10
<1>2. LineInv => NothingMixed
  BY <1>1 DEF NothingMixed
<1> QED BY <1>2, LinesExact, PTL

\* A line cut at most once is executed as it was sent.
THEOREM WholeLinesInTwo == Spec => []WholeInTwo
<1>1. ASSUME LineInv, Conforming, NEW e \in Ends, Cardinality(CutsIn(e)) <= 1
      PROVE  Received[Rank(e)] = Stripped(SentLine(e))
  <2>1. TypeOK /\ Received[Rank(e)] = Stripped(SubSeq(stream, From(e), e))
    BY <1>1 DEF LineInv, Exact
  <2>2. From(e) = LastBefore(Ends, e) + 1
    BY <1>1, <2>1, FromBetween
  <2> QED BY <2>1, <2>2 DEF SentLine
<1>2. LineInv => WholeInTwo
  BY <1>1 DEF WholeInTwo
<1> QED BY <1>2, LinesExact, PTL

=============================================================================
