---------------------------- MODULE ProofBasics ----------------------------
(***************************************************************************)
(* Lemmas that the proofs about several models share.                      *)
(***************************************************************************)
EXTENDS Integers, SequencesExt, SequenceTheorems, WellFoundedInduction, TLAPS

(***************************************************************************)
(* Induction for the loops that the models write as recursive functions    *)
(* of the number of turns made.  A fact about every turn is shown by its   *)
(* least counterexample: the induction is over sets, not over formulas.    *)
(***************************************************************************)

\* A set of naturals that is not empty has a least element.
LEMMA LeastNat ==
    ASSUME NEW S \in SUBSET Nat, S # {}
    PROVE  \E n \in S : \A m \in S : n <= m
  <1> DEFINE R == OpToRel(<, Nat)
  <1>1. IsWellFoundedOn(R, Nat)
    BY NatLessThanWellFounded
  <1>2. \A x, y \in Nat : y < x => <<y, x>> \in R
    BY DEF OpToRel
  <1> HIDE DEF R
  <1>3. PICK x \in S : \A y \in S : ~(<<y, x>> \in R)
    BY <1>1, WFMin
  <1>4. \A y \in S : ~(y < x)
    BY <1>2, <1>3, Zenon
  <1> QED
    BY <1>4

\* A set that holds 0 and the successor of each of its members up to k holds
\* them all.
LEMMA SetInduction ==
    ASSUME NEW k \in Nat, NEW S, 0 \in S, \A n \in 1..k : n - 1 \in S => n \in S
    PROVE  0..k \subseteq S
  <1> DEFINE T == {n \in 0..k : n \notin S}
  <1> SUFFICES ASSUME T # {} PROVE FALSE
    OBVIOUS
  <1>1. PICK n \in T : \A m \in T : n <= m
    <2>1. T \in SUBSET Nat
      OBVIOUS
    <2> HIDE DEF T
    <2> QED
      BY <2>1, LeastNat
  <1>2. n \in 1..k /\ n - 1 \in 0..k /\ ~(n <= n - 1)
    BY <1>1
  <1>3. n - 1 \notin T
    BY <1>1, <1>2
  <1> QED
    BY <1>1, <1>2, <1>3

\* Two loops that start alike and take the same turn from the same state
\* agree after every turn.
LEMMA LoopsAgree ==
    ASSUME NEW k \in Nat, NEW f, NEW g,
           f[0] = g[0], \A n \in 1..k : f[n - 1] = g[n - 1] => f[n] = g[n]
    PROVE  \A n \in 0..k : f[n] = g[n]
  <1> DEFINE S == {n \in 0..k : f[n] = g[n]}
  <1>1. 0 \in S
    OBVIOUS
  <1>2. \A n \in 1..k : n - 1 \in S => n \in S
    OBVIOUS
  <1> HIDE DEF S
  <1>3. 0..k \subseteq S
    BY <1>1, <1>2, SetInduction
  <1> QED
    BY <1>3 DEF S

\* A loop that takes the turn F from x0 on, written as a function of the number
\* of turns: the states of the first n turns, and those of all.
Turns(F, x0, n, g) == g[0] = x0 /\ \A i \in 1..n : g[i] = F[g[i - 1]]
Iterates(F, x0, g) == g[0] = x0 /\ \A n \in Nat : g[n + 1] = F[g[n]]

\* There is such a function: a definition by recursion over the naturals
\* defines what it says.
LEMMA LoopExists ==
    ASSUME NEW X, NEW F \in [X -> X], NEW x0 \in X
    PROVE  \E g \in [Nat -> X] : Iterates(F, x0, g)
  <1> DEFINE Finite(n) == \E g \in [0..n -> X] : Turns(F, x0, n, g)
             some(n) == CHOOSE g \in [0..n -> X] : Turns(F, x0, n, g)
             all == [n \in Nat |-> some(n)[n]]
  <1>1. ASSUME NEW k \in Nat PROVE Finite(k)
    <2> DEFINE S == {n \in 0..k : Finite(n)}
    <2>1. 0 \in S
      <3>1. [i \in 0..0 |-> x0] \in [0..0 -> X] /\ Turns(F, x0, 0, [i \in 0..0 |-> x0])
        BY DEF Turns
      <3> QED
        BY <3>1
    <2>2. ASSUME NEW n \in 1..k, n - 1 \in S PROVE n \in S
      <3>1. PICK g \in [0..(n - 1) -> X] : Turns(F, x0, n - 1, g)
        BY <2>2
      <3> DEFINE h == [i \in 0..n |-> IF i = n THEN F[g[n - 1]] ELSE g[i]]
      <3>2. h \in [0..n -> X]
        BY <3>1
      <3>3. Turns(F, x0, n, h)
        <4>1. h[0] = x0
          BY <3>1 DEF Turns
        <4>2. ASSUME NEW i \in 1..n PROVE h[i] = F[h[i - 1]]
          <5>1. CASE i = n
            BY <5>1
          <5>2. CASE i # n
            BY <3>1, <5>2 DEF Turns
          <5> QED
            BY <5>1, <5>2
        <4> QED
          BY <4>1, <4>2 DEF Turns
      <3> QED
        BY <3>2, <3>3
    <2> HIDE DEF S
    <2>3. 0..k \subseteq S
      BY <2>1, <2>2, SetInduction
    <2> QED
      BY <2>3 DEF S
  <1> HIDE DEF Finite
  <1>2. ASSUME NEW n \in Nat PROVE some(n) \in [0..n -> X] /\ Turns(F, x0, n, some(n))
    BY <1>1 DEF Finite
  <1> HIDE DEF some
  <1>3. all \in [Nat -> X]
    BY <1>2
  <1>4. all[0] = x0
    BY <1>2 DEF Turns
  <1>5. ASSUME NEW n \in Nat PROVE all[n + 1] = F[all[n]]
    <2> DEFINE f == some(n)
               g == some(n + 1)
    <2>1. Turns(F, x0, n, f) /\ Turns(F, x0, n + 1, g)
      BY <1>2
    <2> HIDE DEF f, g
    <2>2. f[0] = g[0]
      BY <2>1 DEF Turns
    <2>3. \A i \in 1..n : f[i - 1] = g[i - 1] => f[i] = g[i]
      BY <2>1 DEF Turns
    <2>4. f[n] = g[n]
      BY <2>2, <2>3, LoopsAgree
    <2>5. g[n + 1] = F[g[n]]
      BY <2>1 DEF Turns
    <2> QED
      BY <2>4, <2>5 DEF f, g
  <1>6. Iterates(F, x0, all)
    BY <1>4, <1>5 DEF Iterates
  <1> QED
    BY <1>3, <1>6

-----------------------------------------------------------------------------
(* Sequences, element by element *)

\* Inserting into a sequence, element by element.
LEMMA InsertAtIs ==
    ASSUME NEW S, NEW s \in Seq(S), NEW i \in 1..(Len(s) + 1), NEW e \in S
    PROVE  InsertAt(s, i, e) =
              [j \in 1..(Len(s) + 1) |-> IF j < i THEN s[j] ELSE IF j = i THEN e ELSE s[j - 1]]
  <1> DEFINE n == Len(s)
             front == SubSeq(s, 1, i - 1)
             back == SubSeq(s, i, n)
             new == <<e>>
             t == (front \o new) \o back
             u == [j \in 1..(n + 1) |-> IF j < i THEN s[j] ELSE IF j = i THEN e ELSE s[j - 1]]
  <1>1. n \in Nat /\ \A j \in 1..n : s[j] \in S
    BY LenProperties, ElementOfSeq
  <1>2. InsertAt(s, i, e) = t
    BY DEF InsertAt
  <1>3. /\ front \in Seq(S) /\ Len(front) = i - 1
        /\ \A j \in 1..(i - 1) : front[j] = s[j]
    <2>1. \A j \in 1..(i - 1) : s[j] \in S
      BY <1>1
    <2>2. /\ front \in Seq(S) /\ Len(front) = IF 1 <= i - 1 THEN (i - 1) - 1 + 1 ELSE 0
          /\ \A j \in 1..((i - 1) - 1 + 1) : front[j] = s[1 + j - 1]
      BY <2>1, <1>1, SubSeqProperties
    <2> HIDE DEF front
    <2>3. Len(front) = i - 1
      BY <2>2
    <2>4. \A j \in 1..(i - 1) : front[j] = s[j]
      <3> SUFFICES ASSUME NEW j \in 1..(i - 1) PROVE front[j] = s[j]
        OBVIOUS
      <3>1. j \in 1..((i - 1) - 1 + 1) /\ 1 + j - 1 = j
        OBVIOUS
      <3> QED
        BY <3>1, <2>2
    <2> QED
      BY <2>2, <2>3, <2>4
  <1>4. /\ back \in Seq(S) /\ Len(back) = n - i + 1
        /\ \A j \in 1..(n - i + 1) : back[j] = s[i + j - 1]
    <2>1. \A j \in i..n : s[j] \in S
      BY <1>1
    <2>2. /\ back \in Seq(S) /\ Len(back) = IF i <= n THEN n - i + 1 ELSE 0
          /\ \A j \in 1..(n - i + 1) : back[j] = s[i + j - 1]
      BY <2>1, <1>1, SubSeqProperties
    <2> HIDE DEF back
    <2>3. Len(back) = n - i + 1
      BY <1>1, <2>2
    <2> QED
      BY <2>2, <2>3
  <1>5. new \in Seq(S) /\ Len(new) = 1 /\ new[1] = e
    OBVIOUS
  <1> HIDE DEF front, back, new
  <1>6. /\ front \o new \in Seq(S) /\ Len(front \o new) = i
        /\ \A j \in 1..i : (front \o new)[j] = IF j < i THEN s[j] ELSE e
    <2>1. /\ front \o new \in Seq(S) /\ Len(front \o new) = Len(front) + Len(new)
          /\ \A j \in 1..(Len(front) + Len(new)) :
                (front \o new)[j] = IF j <= Len(front) THEN front[j] ELSE new[j - Len(front)]
      BY <1>3, <1>5, ConcatProperties
    <2> DEFINE v == front \o new
    <2> HIDE DEF v
    <2>2. v \in Seq(S) /\ Len(v) = i
      BY <2>1, <1>3, <1>5 DEF v
    <2>3. ASSUME NEW j \in 1..i PROVE v[j] = IF j < i THEN s[j] ELSE e
      <3>1. v[j] = IF j <= i - 1 THEN front[j] ELSE new[j - (i - 1)]
        BY <2>1, <1>3, <1>5 DEF v
      <3>2. CASE j < i
        BY <3>1, <3>2, <1>3
      <3>3. CASE j = i
        BY <3>1, <3>3, <1>5
      <3> QED
        BY <3>2, <3>3
    <2> QED
      BY <2>2, <2>3 DEF v
  <1>7. /\ t \in Seq(S) /\ Len(t) = n + 1
        /\ \A j \in 1..(n + 1) : t[j] = u[j]
    <2> DEFINE v == front \o new
    <2>0. v \in Seq(S) /\ Len(v) = i /\ \A j \in 1..i : v[j] = IF j < i THEN s[j] ELSE e
      BY <1>6
    <2> HIDE DEF v
    <2>1. /\ v \o back \in Seq(S) /\ Len(v \o back) = Len(v) + Len(back)
          /\ \A j \in 1..(Len(v) + Len(back)) :
                (v \o back)[j] = IF j <= Len(v) THEN v[j] ELSE back[j - Len(v)]
      BY <1>4, <2>0, ConcatProperties
    <2>2. t = v \o back
      BY DEF v
    <2>3. Len(v) + Len(back) = n + 1
      BY <1>1, <1>4, <2>0
    <2> HIDE DEF t, n
    <2>4. ASSUME NEW j \in 1..(n + 1) PROVE t[j] = u[j]
      <3>1. t[j] = IF j <= i THEN v[j] ELSE back[j - i]
        BY <2>0, <2>1, <2>2, <2>3
      <3>2. CASE j <= i
        BY <3>1, <3>2, <2>0, <1>1
      <3>3. CASE i < j
        <4>1. j - i \in 1..(n - i + 1) /\ i + (j - i) - 1 = j - 1
          BY <3>3, <1>1 DEF n
        <4>2. back[j - i] = s[i + (j - i) - 1]
          BY <4>1, <1>4
        <4> QED
          BY <3>1, <3>3, <4>1, <4>2
      <3> QED
        BY <3>2, <3>3, <1>1
    <2> QED
      BY <2>1, <2>2, <2>3, <2>4
  <1> HIDE DEF t, n
  <1>8. t = u
    <2>1. t \in [1..(n + 1) -> S]
      BY <1>7, LenProperties
    <2> QED
      BY <2>1, <1>7
  <1> QED
    BY <1>2, <1>8 DEF n

\* Removing from a sequence, element by element.
LEMMA RemoveAtIs ==
    ASSUME NEW S, NEW s \in Seq(S), NEW i \in 1..Len(s)
    PROVE  RemoveAt(s, i) = [j \in 1..(Len(s) - 1) |-> IF j < i THEN s[j] ELSE s[j + 1]]
  <1> DEFINE n == Len(s)
             front == SubSeq(s, 1, i - 1)
             back == SubSeq(s, i + 1, n)
             t == front \o back
             u == [j \in 1..(n - 1) |-> IF j < i THEN s[j] ELSE s[j + 1]]
  <1>1. n \in Nat /\ \A j \in 1..n : s[j] \in S
    BY LenProperties, ElementOfSeq
  <1>2. RemoveAt(s, i) = t
    BY DEF RemoveAt
  <1>3. /\ front \in Seq(S) /\ Len(front) = i - 1
        /\ \A j \in 1..(i - 1) : front[j] = s[j]
    <2>1. \A j \in 1..(i - 1) : s[j] \in S
      BY <1>1
    <2>2. /\ front \in Seq(S) /\ Len(front) = IF 1 <= i - 1 THEN (i - 1) - 1 + 1 ELSE 0
          /\ \A j \in 1..((i - 1) - 1 + 1) : front[j] = s[1 + j - 1]
      BY <2>1, <1>1, SubSeqProperties
    <2> HIDE DEF front
    <2>3. Len(front) = i - 1
      BY <2>2
    <2>4. \A j \in 1..(i - 1) : front[j] = s[j]
      <3> SUFFICES ASSUME NEW j \in 1..(i - 1) PROVE front[j] = s[j]
        OBVIOUS
      <3>1. j \in 1..((i - 1) - 1 + 1) /\ 1 + j - 1 = j
        OBVIOUS
      <3> QED
        BY <3>1, <2>2
    <2> QED
      BY <2>2, <2>3, <2>4
  <1>4. /\ back \in Seq(S) /\ Len(back) = n - i
        /\ \A j \in 1..(n - i) : back[j] = s[i + j]
    <2>1. \A j \in (i + 1)..n : s[j] \in S
      BY <1>1
    <2>2. /\ back \in Seq(S) /\ Len(back) = IF i + 1 <= n THEN n - (i + 1) + 1 ELSE 0
          /\ \A j \in 1..(n - (i + 1) + 1) : back[j] = s[(i + 1) + j - 1]
      BY <2>1, <1>1, SubSeqProperties
    <2> HIDE DEF back
    <2>3. Len(back) = n - i
      BY <1>1, <2>2
    <2>4. \A j \in 1..(n - i) : back[j] = s[i + j]
      <3> SUFFICES ASSUME NEW j \in 1..(n - i) PROVE back[j] = s[i + j]
        OBVIOUS
      <3>1. j \in 1..(n - (i + 1) + 1) /\ (i + 1) + j - 1 = i + j
        BY <1>1
      <3> QED
        BY <3>1, <2>2
    <2> QED
      BY <2>2, <2>3, <2>4
  <1> HIDE DEF front, back
  <1>5. /\ t \in Seq(S) /\ Len(t) = n - 1
        /\ \A j \in 1..(n - 1) : t[j] = u[j]
    <2>1. /\ t \in Seq(S) /\ Len(t) = Len(front) + Len(back)
          /\ \A j \in 1..(Len(front) + Len(back)) :
                t[j] = IF j <= Len(front) THEN front[j] ELSE back[j - Len(front)]
      BY <1>3, <1>4, ConcatProperties
    <2>2. Len(front) + Len(back) = n - 1
      BY <1>1, <1>3, <1>4
    <2> HIDE DEF t, n
    <2>3. ASSUME NEW j \in 1..(n - 1) PROVE t[j] = u[j]
      <3>1. t[j] = IF j <= i - 1 THEN front[j] ELSE back[j - (i - 1)]
        BY <2>1, <2>2, <1>3
      <3>2. CASE j < i
        BY <3>1, <3>2, <1>3
      <3>3. CASE i <= j
        <4>1. j - (i - 1) \in 1..(n - i) /\ i + (j - (i - 1)) = j + 1
          BY <3>3, <1>1 DEF n
        <4>2. back[j - (i - 1)] = s[i + (j - (i - 1))]
          BY <4>1, <1>4
        <4> QED
          BY <3>1, <3>3, <4>1, <4>2
      <3> QED
        BY <3>2, <3>3
    <2> QED
      BY <2>1, <2>2, <2>3
  <1> HIDE DEF t, n
  <1>6. t = u
    <2>1. t \in [1..(n - 1) -> S]
      BY <1>5, LenProperties
    <2> QED
      BY <2>1, <1>5
  <1> QED
    BY <1>2, <1>6 DEF n

\* Appending to a sequence, element by element.
LEMMA AppendIs ==
    ASSUME NEW S, NEW s \in Seq(S), NEW e \in S
    PROVE  Append(s, e) = [j \in 1..(Len(s) + 1) |-> IF j <= Len(s) THEN s[j] ELSE e]
  <1> DEFINE t == Append(s, e)
             n == Len(s)
  <1>1. /\ t \in Seq(S) /\ Len(t) = n + 1 /\ t[n + 1] = e /\ n \in Nat
        /\ \A j \in 1..n : t[j] = s[j]
    BY AppendProperties, LenProperties
  <1> HIDE DEF t, n
  <1>2. t \in [1..(n + 1) -> S]
    BY <1>1, LenProperties
  <1>3. ASSUME NEW j \in 1..(n + 1) PROVE t[j] = IF j <= n THEN s[j] ELSE e
    BY <1>1
  <1>4. t = [j \in 1..(n + 1) |-> IF j <= n THEN s[j] ELSE e]
    BY <1>2, <1>3
  <1> QED
    BY <1>4 DEF t, n

-----------------------------------------------------------------------------
(* Least and greatest elements *)

\* Min of a set of naturals that is not empty.
LEMMA MinIs ==
    ASSUME NEW S \in SUBSET Nat, S # {}
    PROVE  Min(S) \in S /\ \A x \in S : Min(S) <= x
  <1>1. \E n \in S : \A m \in S : n =< m
    BY LeastNat
  <1> QED
    BY <1>1 DEF Min

\* Max of a set of naturals that is not empty and has a bound.
LEMMA MaxIs ==
    ASSUME NEW n \in Nat, NEW S \in SUBSET (0..n), S # {}
    PROVE  Max(S) \in S /\ \A x \in S : x <= Max(S)
  <1> DEFINE T == {n - x : x \in S}
  <1>1. T \in SUBSET Nat /\ T # {}
    <2>1. \A x \in S : n - x \in Nat
      OBVIOUS
    <2> QED
      BY <2>1
  <1>2. PICK t \in T : \A u \in T : t <= u
    <2> HIDE DEF T
    <2> QED
      BY <1>1, LeastNat
  <1>3. PICK m \in S : t = n - m
    BY <1>2
  <1>4. \A x \in S : m >= x
    <2> SUFFICES ASSUME NEW x \in S PROVE m >= x
      OBVIOUS
    <2>1. n - m <= n - x
      BY <1>2, <1>3
    <2>2. m \in 0..n /\ x \in 0..n
      OBVIOUS
    <2> QED
      BY <2>1, <2>2
  <1>5. Max(S) \in S /\ \A x \in S : Max(S) >= x
    BY <1>4 DEF Max
  <1>6. Max(S) \in 0..n /\ \A x \in S : x \in 0..n
    BY <1>5
  <1> QED
    BY <1>5, <1>6

\* What is least is Min.
LEMMA IsMin ==
    ASSUME NEW S \in SUBSET Int, NEW x \in S, \A y \in S : x <= y
    PROVE  Min(S) = x
  <1>1. Min(S) \in S /\ \A y \in S : Min(S) <= y
    BY DEF Min
  <1>2. Min(S) \in Int /\ x \in Int /\ Min(S) <= x /\ x <= Min(S)
    BY <1>1
  <1> QED
    BY <1>2

\* What is greatest is Max.
LEMMA IsMax ==
    ASSUME NEW S \in SUBSET Int, NEW x \in S, \A y \in S : y <= x
    PROVE  Max(S) = x
  <1>1. x \in S /\ \A y \in S : x >= y
    OBVIOUS
  <1>2. Max(S) \in S /\ \A y \in S : Max(S) >= y
    BY <1>1 DEF Max
  <1>3. Max(S) \in Int /\ x \in Int /\ Max(S) >= x /\ Max(S) <= x
    BY <1>2
  <1> QED
    BY <1>3

-----------------------------------------------------------------------------
(* Sequences of sequences *)

\* FlattenSeq joins the sequences one after the other.
LEMMA FlattenIs ==
    ASSUME NEW S, NEW ls \in Seq(Seq(S)), ls # <<>>
    PROVE  \E f \in [1..Len(ls) -> Seq(S)] :
              /\ f[1] = ls[1] /\ \A i \in 2..Len(ls) : f[i] = f[i - 1] \o ls[i]
              /\ FlattenSeq(ls) = f[Len(ls)]
  <1> DEFINE m == Len(ls)
  <1>1. m \in Nat /\ m # 0 /\ \A i \in 1..m : ls[i] \in Seq(S)
    BY EmptySeq, LenProperties, ElementOfSeq
  <1> DEFINE X == Nat \X Seq(S)
             F == [x \in X |-> <<x[1] + 1, IF x[1] + 1 \in 1..m THEN x[2] \o ls[x[1] + 1] ELSE x[2]>>]
             x0 == <<1, ls[1]>>
             flatten[i \in 1..m] == IF i = 1 THEN ls[i] ELSE flatten[i - 1] \o ls[i]
  <1>2. FlattenSeq(ls) = flatten[m]
    BY <1>1 DEF FlattenSeq
  <1>3. flatten = CHOOSE r : r = [i \in 1..m |-> IF i = 1 THEN ls[i] ELSE r[i - 1] \o ls[i]]
    BY DEF flatten
  <1>4. F \in [X -> X] /\ x0 \in X
    <2>1. 1 \in Nat /\ ls[1] \in Seq(S)
      BY <1>1
    <2>2. ASSUME NEW x \in X
          PROVE  <<x[1] + 1, IF x[1] + 1 \in 1..m THEN x[2] \o ls[x[1] + 1] ELSE x[2]>> \in X
      <3>1. x[1] \in Nat /\ x[2] \in Seq(S)
        OBVIOUS
      <3> DEFINE y == IF x[1] + 1 \in 1..m THEN x[2] \o ls[x[1] + 1] ELSE x[2]
      <3>2. x[1] + 1 \in 1..m => ls[x[1] + 1] \in Seq(S)
        BY <1>1
      <3>3. y \in Seq(S)
        BY <3>1, <3>2, ConcatProperties
      <3> HIDE DEF y
      <3>4. <<x[1] + 1, y>> \in X
        BY <3>1, <3>3
      <3> QED
        BY <3>4 DEF y
    <2> QED
      BY <2>1, <2>2
  <1>5. \A x \in X : F[x][1] = x[1] + 1
    OBVIOUS
  <1>6. \A x \in X : x[1] + 1 \in 1..m => F[x][2] = x[2] \o ls[x[1] + 1]
    OBVIOUS
  <1> HIDE DEF flatten, m, X, F, x0
  <1>7. PICK g \in [Nat -> X] : Iterates(F, x0, g)
    BY <1>4, LoopExists
  <1>8. \A k \in 1..m : g[k - 1][1] = k
    <2> DEFINE T == {n \in 0..m : g[n][1] = n + 1}
    <2>1. 0 \in T
      BY <1>1, <1>7 DEF Iterates, x0
    <2>2. ASSUME NEW n \in 1..m, n - 1 \in T PROVE n \in T
      <3>1. n - 1 \in Nat /\ (n - 1) + 1 = n /\ n \in 0..m
        BY <1>1
      <3>2. g[n] = F[g[n - 1]] /\ g[n - 1] \in X
        BY <1>7, <3>1 DEF Iterates
      <3>3. g[n - 1][1] = n
        BY <2>2, <3>1
      <3> QED
        BY <1>5, <3>1, <3>2, <3>3
    <2> HIDE DEF T
    <2>3. 0..m \subseteq T
      BY <1>1, <2>1, <2>2, SetInduction
    <2>4. ASSUME NEW k \in 1..m PROVE g[k - 1][1] = k
      <3>1. k - 1 \in 0..m /\ (k - 1) + 1 = k
        BY <1>1
      <3> QED
        BY <2>3, <3>1 DEF T
    <2> QED
      BY <2>4
  <1> DEFINE f == [i \in 1..m |-> g[i - 1][2]]
  <1>9. f \in [1..m -> Seq(S)]
    <2> SUFFICES ASSUME NEW i \in 1..m PROVE g[i - 1][2] \in Seq(S)
      OBVIOUS
    <2>1. i - 1 \in Nat
      BY <1>1
    <2>2. g[i - 1] \in X
      BY <1>7, <2>1
    <2> QED
      BY <2>2 DEF X
  <1>10. f[1] = ls[1]
    <2>1. 1 \in 1..m /\ 1 - 1 = 0
      BY <1>1
    <2>2. g[0] = x0
      BY <1>7 DEF Iterates
    <2>3. f[1] = x0[2]
      BY <2>1, <2>2
    <2> QED
      BY <2>3 DEF x0
  <1>11. ASSUME NEW i \in 2..m PROVE f[i] = f[i - 1] \o ls[i]
    <2>1. /\ i \in 1..m /\ i - 1 \in 1..m /\ (i - 1) - 1 \in Nat /\ ((i - 1) - 1) + 1 = i - 1
          /\ (i - 1) + 1 = i
      BY <1>1
    <2> DEFINE x == g[(i - 1) - 1]
    <2>2. g[i - 1] = F[x] /\ x \in X
      BY <1>7, <2>1 DEF Iterates
    <2>3. x[1] = i - 1
      BY <1>8, <2>1
    <2>4. F[x][2] = x[2] \o ls[i]
      BY <1>6, <2>1, <2>2, <2>3
    <2> QED
      BY <2>1, <2>2, <2>4
  <1> HIDE DEF f
  <1>12. f = [i \in 1..m |-> IF i = 1 THEN ls[i] ELSE f[i - 1] \o ls[i]]
    <2> SUFFICES ASSUME NEW i \in 1..m PROVE f[i] = IF i = 1 THEN ls[i] ELSE f[i - 1] \o ls[i]
      BY <1>9
    <2>1. i # 1 => i \in 2..m
      BY <1>1
    <2> QED
      BY <1>10, <1>11, <2>1
  <1>13. flatten = [i \in 1..m |-> IF i = 1 THEN ls[i] ELSE flatten[i - 1] \o ls[i]]
    BY <1>3, <1>12
  <1>14. \A k \in 1..m : flatten[k] = f[k]
    <2> DEFINE T == {n \in 0..(m - 1) : flatten[n + 1] = f[n + 1]}
    <2>1. 0 \in T
      <3>1. 1 \in 1..m /\ 0 \in 0..(m - 1) /\ 0 + 1 = 1
        BY <1>1
      <3>2. flatten[1] = ls[1]
        BY <1>13, <3>1
      <3> QED
        BY <1>10, <3>1, <3>2
    <2>2. ASSUME NEW n \in 1..(m - 1), n - 1 \in T PROVE n \in T
      <3>1. n + 1 \in 1..m /\ n + 1 # 1 /\ (n + 1) - 1 = n /\ (n - 1) + 1 = n /\ n \in 0..(m - 1)
        BY <1>1
      <3>2. flatten[n] = f[n]
        BY <2>2, <3>1
      <3>3. flatten[n + 1] = flatten[n] \o ls[n + 1]
        BY <1>13, <3>1
      <3>4. f[n + 1] = f[n] \o ls[n + 1]
        BY <1>12, <3>1
      <3> QED
        BY <3>1, <3>2, <3>3, <3>4
    <2> HIDE DEF T
    <2>3. m - 1 \in Nat
      BY <1>1
    <2>4. 0..(m - 1) \subseteq T
      BY <2>1, <2>2, <2>3, SetInduction
    <2>5. ASSUME NEW k \in 1..m PROVE flatten[k] = f[k]
      <3>1. k - 1 \in 0..(m - 1) /\ (k - 1) + 1 = k
        BY <1>1
      <3> QED
        BY <2>4, <3>1 DEF T
    <2> QED
      BY <2>5
  <1>15. FlattenSeq(ls) = f[m]
    <2>1. m \in 1..m
      BY <1>1
    <2> QED
      BY <1>2, <1>14, <2>1
  <1> QED
    BY <1>9, <1>10, <1>11, <1>15 DEF m

\* One more sequence is joined at the end.
LEMMA FlattenAppend ==
    ASSUME NEW S, NEW ls \in Seq(Seq(S)), NEW l \in Seq(S)
    PROVE  FlattenSeq(ls) \in Seq(S) /\ FlattenSeq(Append(ls, l)) = FlattenSeq(ls) \o l
  <1> DEFINE ks == Append(ls, l)
             m == Len(ls)
  <1>1. /\ ks \in Seq(Seq(S)) /\ ks # <<>> /\ Len(ks) = m + 1 /\ ks[m + 1] = l /\ m \in Nat
        /\ \A j \in 1..m : ks[j] = ls[j]
    BY AppendProperties, LenProperties, EmptySeq
  <1> HIDE DEF ks
  <1>2. PICK h \in [1..Len(ks) -> Seq(S)] :
           /\ h[1] = ks[1] /\ \A i \in 2..Len(ks) : h[i] = h[i - 1] \o ks[i]
           /\ FlattenSeq(ks) = h[Len(ks)]
    BY <1>1, FlattenIs
  <1>3. CASE ls = <<>>
    <2>1. m = 0
      BY <1>3, EmptySeq
    <2>2. FlattenSeq(ls) = <<>>
      BY <1>3, <2>1 DEF FlattenSeq
    <2>3. FlattenSeq(ks) = l
      BY <1>1, <1>2, <2>1
    <2>4. <<>> \in Seq(S) /\ <<>> \o l = l
      BY ConcatEmptySeq, EmptySeq
    <2> QED
      BY <2>2, <2>3, <2>4 DEF ks
  <1>4. CASE ls # <<>>
    <2>1. m # 0
      BY <1>4, EmptySeq
    <2>2. PICK f \in [1..m -> Seq(S)] :
             /\ f[1] = ls[1] /\ \A i \in 2..m : f[i] = f[i - 1] \o ls[i]
             /\ FlattenSeq(ls) = f[m]
      BY <1>4, FlattenIs
    <2> HIDE DEF m
    <2> DEFINE T == {n \in 0..(m - 1) : h[n + 1] = f[n + 1]}
    <2>3. 0 \in T
      <3>1. 1 \in 1..m /\ 0 \in 0..(m - 1) /\ 0 + 1 = 1
        BY <1>1, <2>1
      <3>2. h[1] = ls[1]
        BY <1>1, <1>2, <3>1
      <3> QED
        BY <2>2, <3>1, <3>2
    <2>4. ASSUME NEW n \in 1..(m - 1), n - 1 \in T PROVE n \in T
      <3>1. /\ n + 1 \in 2..m /\ n + 1 \in 2..Len(ks) /\ (n + 1) - 1 = n /\ (n - 1) + 1 = n
            /\ n \in 0..(m - 1) /\ n + 1 \in 1..m
        BY <1>1
      <3>2. h[n] = f[n]
        BY <2>4, <3>1
      <3>3. h[n + 1] = h[n] \o ls[n + 1]
        BY <1>1, <1>2, <3>1
      <3>4. f[n + 1] = f[n] \o ls[n + 1]
        BY <2>2, <3>1
      <3> QED
        BY <3>1, <3>2, <3>3, <3>4
    <2>5. m - 1 \in Nat
      BY <1>1, <2>1
    <2> HIDE DEF T
    <2>6. 0..(m - 1) \subseteq T
      BY <2>3, <2>4, <2>5, SetInduction
    <2>7. h[m] = f[m]
      <3>1. m - 1 \in 0..(m - 1) /\ (m - 1) + 1 = m
        BY <1>1, <2>5
      <3> QED
        BY <2>6, <3>1 DEF T
    <2>8. h[m + 1] = h[m] \o l
      <3>1. m + 1 \in 2..Len(ks) /\ (m + 1) - 1 = m
        BY <1>1, <2>1
      <3> QED
        BY <1>1, <1>2, <3>1
    <2>9. f[m] \in Seq(S)
      BY <1>1, <2>1, <2>2
    <2> QED
      BY <1>1, <1>2, <2>2, <2>7, <2>8, <2>9 DEF ks
  <1> QED
    BY <1>3, <1>4

=============================================================================
