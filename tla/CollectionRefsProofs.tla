------------------------ MODULE CollectionRefsProofs ------------------------
(***************************************************************************)
(* Theorems about CollectionRefs for every set of collections and every    *)
(* bound: the counts in the headers are those of the references, nothing   *)
(* points to a deleted collection, a deep copy shares nothing with its     *)
(* original, and what nobody holds is deleted.                             *)
(***************************************************************************)
EXTENDS CollectionRefs, FiniteSetTheorems, ProofBasics

-----------------------------------------------------------------------------
(* Occurrences in a sequence *)

Spots(x, s) == {i \in DOMAIN s : s[i] = x}

\* The spots where x is in a sequence are finitely many, and counted.
LEMMA SpotsFinite ==
    ASSUME NEW S, NEW s \in Seq(S), NEW x
    PROVE  /\ IsFiniteSet(Spots(x, s)) /\ Spots(x, s) \subseteq 1..Len(s)
           /\ Occurrences(x, s) = Cardinality(Spots(x, s)) /\ Occurrences(x, s) \in Nat
  <1>1. Len(s) \in Nat /\ DOMAIN s = 1..Len(s)
    BY LenProperties
  <1>2. Spots(x, s) \subseteq 1..Len(s)
    BY <1>1 DEF Spots
  <1>3. IsFiniteSet(1..Len(s))
    BY <1>1, FS_Interval
  <1>4. IsFiniteSet(Spots(x, s)) /\ Cardinality(Spots(x, s)) \in Nat
    BY <1>2, <1>3, FS_Subset, FS_CardinalityType
  <1> QED
    BY <1>2, <1>4 DEF Occurrences, Spots

\* The same spots, moved one to one.
LEMMA SpotsMoved ==
    ASSUME NEW A, IsFiniteSet(A), NEW B, NEW f \in [A -> B],
           \A i, j \in A : f[i] = f[j] => i = j,
           \A k \in B : \E i \in A : f[i] = k
    PROVE  IsFiniteSet(B) /\ Cardinality(B) = Cardinality(A)
  <1>1. f \in Bijection(A, B)
    BY DEF Bijection, Injection, Surjection, IsInjective
  <1> QED
    BY <1>1, FS_Bijection DEF ExistsBijection

\* Nothing is in the empty sequence.
LEMMA OccEmpty == ASSUME NEW x PROVE Occurrences(x, <<>>) = 0
  <1>1. {i \in DOMAIN <<>> : <<>>[i] = x} = {}
    OBVIOUS
  <1> QED
    BY <1>1, FS_EmptySet DEF Occurrences

\* What occurs in a sequence is at one of its places.
LEMMA OccPositive ==
    ASSUME NEW S, NEW s \in Seq(S), NEW x
    PROVE  Occurrences(x, s) = 0 <=> \A i \in 1..Len(s) : s[i] # x
  <1>1. DOMAIN s = 1..Len(s)
    BY LenProperties
  <1>2. Occurrences(x, s) = 0 <=> Spots(x, s) = {}
    BY SpotsFinite, FS_EmptySet
  <1> QED
    BY <1>1, <1>2 DEF Spots

\* One element occurs once.
LEMMA OccOne ==
    ASSUME NEW x, NEW e
    PROVE  Occurrences(x, <<e>>) = IF e = x THEN 1 ELSE 0
  <1>1. {i \in DOMAIN <<e>> : <<e>>[i] = x} = IF e = x THEN {1} ELSE {}
    OBVIOUS
  <1> QED
    BY <1>1, FS_EmptySet, FS_Singleton DEF Occurrences

\* Occurrences add up when sequences are joined.
LEMMA OccConcat ==
    ASSUME NEW S, NEW s \in Seq(S), NEW t \in Seq(S), NEW x
    PROVE  Occurrences(x, s \o t) = Occurrences(x, s) + Occurrences(x, t)
  <1> DEFINE n == Len(s)
             A == Spots(x, s)
             B == Spots(x, t)
             C == Spots(x, s \o t)
             moved == {i \in C : i > n}
             f == [i \in B |-> i + n]
  <1>1. n \in Nat /\ Len(t) \in Nat /\ DOMAIN s = 1..n /\ DOMAIN t = 1..Len(t)
    BY LenProperties
  <1>2. /\ s \o t \in Seq(S) /\ Len(s \o t) = n + Len(t)
        /\ \A i \in 1..(n + Len(t)) : (s \o t)[i] = IF i <= n THEN s[i] ELSE t[i - n]
    BY ConcatProperties
  <1>3. DOMAIN (s \o t) = 1..(n + Len(t))
    BY <1>2, LenProperties
  <1> DEFINE st == s \o t
  <1>4. \A i : i \in C <=> i \in 1..(n + Len(t)) /\ st[i] = x
    BY <1>3 DEF Spots
  <1>5. \A i : i \in A <=> i \in 1..n /\ s[i] = x
    BY <1>1 DEF Spots
  <1>6. \A i : i \in B <=> i \in 1..Len(t) /\ t[i] = x
    BY <1>1 DEF Spots
  <1>7. \A i \in 1..(n + Len(t)) : st[i] = IF i <= n THEN s[i] ELSE t[i - n]
    BY <1>2
  <1>8. /\ IsFiniteSet(A) /\ IsFiniteSet(B)
        /\ Occurrences(x, s) = Cardinality(A) /\ Occurrences(x, t) = Cardinality(B)
        /\ Occurrences(x, s \o t) = Cardinality(C)
    BY <1>2, SpotsFinite
  <1> HIDE DEF A, B, C, n, st
  <1>9. C = A \cup moved /\ A \cap moved = {}
    BY <1>1, <1>4, <1>5, <1>7
  <1>10. f \in [B -> moved]
    BY <1>1, <1>4, <1>6, <1>7
  <1>11. \A i, j \in B : f[i] = f[j] => i = j
    BY <1>1, <1>6
  <1>12. ASSUME NEW k \in moved PROVE \E i \in B : f[i] = k
    <2>1. k \in 1..(n + Len(t)) /\ k > n /\ st[k] = x
      BY <1>4
    <2>2. k - n \in 1..Len(t) /\ t[k - n] = x /\ (k - n) + n = k
      BY <1>1, <1>7, <2>1
    <2> QED
      BY <1>6, <2>2
  <1> HIDE DEF f, moved
  <1>13. IsFiniteSet(moved) /\ Cardinality(moved) = Cardinality(B)
    BY <1>8, <1>10, <1>11, <1>12, SpotsMoved
  <1>14. Cardinality(C) = Cardinality(A) + Cardinality(moved)
    <2>1. Cardinality(A \cup moved) = Cardinality(A) + Cardinality(moved) - Cardinality(A \cap moved)
      BY <1>8, <1>13, FS_Union
    <2>2. Cardinality(A \cap moved) = 0
      BY <1>9, FS_EmptySet
    <2>3. Cardinality(A) \in Nat /\ Cardinality(moved) \in Nat
      BY <1>8, <1>13, FS_CardinalityType
    <2> QED
      BY <1>9, <2>1, <2>2, <2>3
  <1> QED
    BY <1>8, <1>13, <1>14

\* The order does not matter: Reverse is what a deletion from the last item
\* on does.
LEMMA OccReverse ==
    ASSUME NEW S, NEW s \in Seq(S), NEW x
    PROVE  Reverse(s) \in Seq(S) /\ Occurrences(x, Reverse(s)) = Occurrences(x, s)
  <1> DEFINE n == Len(s)
             r == [i \in 1..n |-> s[(n - i) + 1]]
             A == Spots(x, s)
             B == Spots(x, r)
             f == [i \in A |-> (n - i) + 1]
  <1>1. n \in Nat /\ DOMAIN s = 1..n /\ \A i \in 1..n : s[i] \in S
    BY LenProperties, ElementOfSeq
  <1>2. r \in Seq(S)
    <2>1. \A i \in 1..n : (n - i) + 1 \in 1..n
      BY <1>1
    <2> HIDE DEF n
    <2>2. \A i \in 1..n : s[(n - i) + 1] \in S
      BY <1>1, <2>1
    <2> QED
      BY <1>1, <2>2, IsASeq
  <1>3. \A i : i \in A <=> i \in 1..n /\ s[i] = x
    BY <1>1 DEF Spots
  <1>4. \A i : i \in B <=> i \in 1..n /\ s[(n - i) + 1] = x
    BY DEF Spots
  <1>5. IsFiniteSet(A) /\ Occurrences(x, s) = Cardinality(A)
    BY SpotsFinite
  <1>6. Occurrences(x, r) = Cardinality(B)
    BY DEF Occurrences, Spots
  <1>7. Reverse(s) = r
    BY DEF Reverse
  <1> HIDE DEF A, B, n, r
  <1>8. f \in [A -> B]
    <2> SUFFICES ASSUME NEW i \in A PROVE (n - i) + 1 \in B
      OBVIOUS
    <2>1. i \in 1..n /\ (n - i) + 1 \in 1..n /\ (n - ((n - i) + 1)) + 1 = i
      BY <1>1, <1>3
    <2> QED
      BY <1>3, <1>4, <2>1
  <1>9. \A i, j \in A : f[i] = f[j] => i = j
    BY <1>1, <1>3
  <1>10. ASSUME NEW k \in B PROVE \E i \in A : f[i] = k
    <2>1. k \in 1..n /\ (n - k) + 1 \in 1..n /\ (n - ((n - k) + 1)) + 1 = k
      BY <1>1, <1>4
    <2>2. (n - k) + 1 \in A
      BY <1>3, <1>4, <2>1
    <2> QED
      BY <2>1, <2>2
  <1> HIDE DEF f
  <1> QED
    BY <1>2, <1>5, <1>6, <1>7, <1>8, <1>9, <1>10, SpotsMoved

\* One element more.
LEMMA OccAppend ==
    ASSUME NEW S, NEW s \in Seq(S), NEW e \in S, NEW x
    PROVE  Occurrences(x, Append(s, e)) = Occurrences(x, s) + IF e = x THEN 1 ELSE 0
  <1> DEFINE one == <<e>>
  <1>1. Append(s, e) = s \o one
    BY AppendIsConcat
  <1>2. one \in Seq(S)
    OBVIOUS
  <1>3. Occurrences(x, one) = IF e = x THEN 1 ELSE 0
    BY OccOne
  <1> HIDE DEF one
  <1> QED
    BY <1>1, <1>2, <1>3, OccConcat

\* The first element, and the others.
LEMMA OccTail ==
    ASSUME NEW S, NEW s \in Seq(S), s # <<>>, NEW x
    PROVE  /\ Head(s) \in S /\ Tail(s) \in Seq(S)
           /\ Occurrences(x, s) = Occurrences(x, Tail(s)) + IF Head(s) = x THEN 1 ELSE 0
  <1> DEFINE one == <<s[1]>>
             n == Len(s)
  <1>1. n \in Nat /\ n >= 1
    BY EmptySeq
  <1>2. s[1] \in S /\ Head(s) = s[1] /\ Tail(s) \in Seq(S)
    BY <1>1, ElementOfSeq, HeadTailProperties
  <1>3. Tail(s) = SubSeq(s, 2, n)
    BY TailIsSubSeq
  <1>4. SubSeq(s, 1, n) = one \o SubSeq(s, 1 + 1, n)
    <2>1. 1 \in 1..n /\ n \in 1..n
      BY <1>1
    <2> QED
      BY <2>1, SubSeqRecursiveFirst
  <1>5. s = one \o Tail(s)
    BY <1>3, <1>4, SubSeqFull
  <1>6. one \in Seq(S) /\ Occurrences(x, one) = IF s[1] = x THEN 1 ELSE 0
    BY <1>2, OccOne
  <1>7. Occurrences(x, Tail(s)) \in Nat
    BY <1>2, SpotsFinite
  <1> HIDE DEF one, n
  <1>8. Occurrences(x, one \o Tail(s)) = Occurrences(x, one) + Occurrences(x, Tail(s))
    BY <1>2, <1>6, OccConcat
  <1>9. Occurrences(x, s) = Occurrences(x, one) + Occurrences(x, Tail(s))
    BY <1>5, <1>8, Zenon
  <1> QED
    BY <1>2, <1>6, <1>7, <1>9

\* The last element, and the others.
LEMMA OccFront ==
    ASSUME NEW S, NEW s \in Seq(S), s # <<>>, NEW x
    PROVE  /\ Front(s) \in Seq(S) /\ Len(Front(s)) = Len(s) - 1
           /\ \A i \in 1..(Len(s) - 1) : Front(s)[i] = s[i]
           /\ Occurrences(x, s) = Occurrences(x, Front(s)) + IF s[Len(s)] = x THEN 1 ELSE 0
  <1> DEFINE n == Len(s)
  <1>1. n \in Nat /\ n >= 1 /\ \A i \in 1..n : s[i] \in S
    BY EmptySeq, ElementOfSeq
  <1>2. PICK t \in Seq(S), e \in S : s = Append(t, e)
    BY SequenceEmptyOrAppend
  <1>3. Len(t) \in Nat /\ n = Len(t) + 1 /\ s[n] = e /\ \A i \in 1..Len(t) : s[i] = t[i]
    BY <1>2, AppendProperties, LenProperties
  <1>4. Front(s) = t
    <2>1. /\ SubSeq(s, 1, n - 1) \in Seq(S)
          /\ Len(SubSeq(s, 1, n - 1)) = IF 1 <= n - 1 THEN (n - 1) - 1 + 1 ELSE 0
          /\ \A i \in 1..((n - 1) - 1 + 1) : SubSeq(s, 1, n - 1)[i] = s[1 + i - 1]
      BY <1>1, SubSeqProperties
    <2> DEFINE f == SubSeq(s, 1, n - 1)
    <2> HIDE DEF n, f
    <2>2. f \in Seq(S) /\ Len(f) = Len(t)
      BY <2>1, <1>1, <1>3 DEF f
    <2>3. ASSUME NEW i \in 1..Len(f) PROVE f[i] = t[i]
      <3>1. i \in 1..((n - 1) - 1 + 1) /\ 1 + i - 1 = i /\ i \in 1..Len(t)
        BY <2>2, <1>1, <1>3
      <3> QED
        BY <3>1, <2>1, <1>3 DEF f
    <2>4. f = t
      BY <2>2, <2>3, SeqEqual
    <2> QED
      BY <2>4 DEF Front, f, n
  <1>5. Occurrences(x, Append(t, e)) = Occurrences(x, t) + IF e = x THEN 1 ELSE 0
    BY OccAppend
  <1>6. Len(t) = n - 1
    BY <1>3
  <1> QED
    BY <1>2, <1>3, <1>4, <1>5, <1>6

\* The element at k, and the others.
LEMMA OccRemoveAt ==
    ASSUME NEW S, NEW s \in Seq(S), NEW k \in 1..Len(s), NEW x
    PROVE  /\ RemoveAt(s, k) \in Seq(S) /\ Len(RemoveAt(s, k)) = Len(s) - 1
           /\ Occurrences(x, s) = Occurrences(x, RemoveAt(s, k)) + IF s[k] = x THEN 1 ELSE 0
  <1> DEFINE n == Len(s)
             front == SubSeq(s, 1, k - 1)
             back == SubSeq(s, k + 1, n)
             rest == SubSeq(s, k, n)
             one == <<s[k]>>
  <1>1. n \in Nat /\ k \in Int /\ 1 <= k /\ k <= n /\ \A i \in 1..n : s[i] \in S
    BY LenProperties, ElementOfSeq
  <1>2. front \in Seq(S) /\ Len(front) = IF 1 <= k - 1 THEN (k - 1) - 1 + 1 ELSE 0
    <2>1. \A i \in 1..(k - 1) : s[i] \in S
      BY <1>1
    <2> QED
      BY <2>1, <1>1, SubSeqProperties
  <1>3. back \in Seq(S) /\ Len(back) = IF k + 1 <= n THEN n - (k + 1) + 1 ELSE 0
    <2>1. \A i \in (k + 1)..n : s[i] \in S
      BY <1>1
    <2> QED
      BY <2>1, <1>1, SubSeqProperties
  <1>4. one \in Seq(S) /\ Occurrences(x, one) = IF s[k] = x THEN 1 ELSE 0
    BY <1>1, OccOne
  <1>5. rest = one \o back
    BY <1>1, SubSeqRecursiveFirst
  <1>6. s = front \o rest
    <2>1. 1 \in 1..(n + 1) /\ k - 1 \in (1 - 1)..n /\ n \in (k - 1)..n /\ (k - 1) + 1 = k
      BY <1>1
    <2>2. SubSeq(s, 1, k - 1) \o SubSeq(s, (k - 1) + 1, n) = SubSeq(s, 1, n)
      BY <2>1, ConcatAdjacentSubSeq
    <2> QED
      BY <2>1, <2>2, SubSeqFull
  <1>7. RemoveAt(s, k) = front \o back
    BY DEF RemoveAt
  <1>8. rest \in Seq(S)
    <2> HIDE DEF rest, one, back
    <2> QED
      BY <1>3, <1>4, <1>5, ConcatProperties
  <1> HIDE DEF front, back, rest, one, n
  <1>9. Occurrences(x, s) = Occurrences(x, front) + (Occurrences(x, one) + Occurrences(x, back))
    <2>1. Occurrences(x, one \o back) = Occurrences(x, one) + Occurrences(x, back)
      BY <1>3, <1>4, OccConcat
    <2>2. Occurrences(x, front \o rest) = Occurrences(x, front) + Occurrences(x, rest)
      BY <1>2, <1>8, OccConcat
    <2> QED
      BY <1>5, <1>6, <2>1, <2>2, Zenon
  <1>10. /\ front \o back \in Seq(S) /\ Len(front \o back) = Len(front) + Len(back)
         /\ Occurrences(x, front \o back) = Occurrences(x, front) + Occurrences(x, back)
    BY <1>2, <1>3, OccConcat, ConcatProperties
  <1>11. Occurrences(x, front) \in Nat /\ Occurrences(x, back) \in Nat
    BY <1>2, <1>3, SpotsFinite
  <1>12. Len(front) + Len(back) = n - 1
    BY <1>1, <1>2, <1>3
  <1> QED
    BY <1>4, <1>7, <1>9, <1>10, <1>11, <1>12 DEF n

-----------------------------------------------------------------------------
(* The reference items                                                     *)

ItemsOf(subs, x) == {p \in Cols \X (1..MaxSubs) : p[2] \in DOMAIN subs[p[1]] /\ subs[p[1]][p[2]] = x}
Fits(subs) == subs \in [Cols -> Seq(Cols)] /\ \A d \in Cols : Len(subs[d]) <= MaxSubs

\* The items of one collection, and those of the others.
LEMMA ItemsSplit ==
    ASSUME NEW subs, Fits(subs), NEW d \in Cols, NEW x
    PROVE  LET rest == {p \in ItemsOf(subs, x) : p[1] # d}
           IN  /\ IsFiniteSet(ItemsOf(subs, x)) /\ IsFiniteSet(rest)
               /\ Cardinality(ItemsOf(subs, x)) = Cardinality(rest) + Occurrences(x, subs[d])
  <1> DEFINE all == ItemsOf(subs, x)
             rest == {p \in all : p[1] # d}
             mine == {p \in all : p[1] = d}
             spots == Spots(x, subs[d])
             f == [i \in spots |-> <<d, i>>]
  <1>1. /\ subs[d] \in Seq(Cols) /\ Len(subs[d]) \in Nat /\ Len(subs[d]) <= MaxSubs
        /\ DOMAIN subs[d] = 1..Len(subs[d]) /\ MaxSubs \in Nat
    BY LenProperties, CollectionRefsAssumption DEF Fits
  <1>2. IsFiniteSet(spots) /\ Occurrences(x, subs[d]) = Cardinality(spots)
    BY <1>1, SpotsFinite
  <1>3. IsFiniteSet(Cols \X (1..MaxSubs))
    <2>1. IsFiniteSet(1..MaxSubs) /\ IsFiniteSet(Cols)
      BY <1>1, FS_Interval, CollectionRefsAssumption
    <2> QED
      BY <2>1, FS_Product
  <1>4. IsFiniteSet(all) /\ IsFiniteSet(rest)
    <2>1. all \subseteq Cols \X (1..MaxSubs) /\ rest \subseteq all
      BY DEF ItemsOf
    <2> QED
      BY <2>1, <1>3, FS_Subset
  <1>5. f \in [spots -> mine]
    BY <1>1 DEF Spots, ItemsOf
  <1>6. \A i, j \in spots : f[i] = f[j] => i = j
    OBVIOUS
  <1>7. ASSUME NEW p \in mine PROVE \E i \in spots : f[i] = p
    <2>1. p = <<d, p[2]>> /\ p[2] \in spots
      BY DEF ItemsOf, Spots
    <2> QED
      BY <2>1
  <1>8. all = rest \cup mine /\ rest \cap mine = {}
    OBVIOUS
  <1> HIDE DEF all, rest, mine, spots, f
  <1>9. IsFiniteSet(mine) /\ Cardinality(mine) = Cardinality(spots)
    BY <1>2, <1>5, <1>6, <1>7, SpotsMoved
  <1>10. Cardinality(all) = Cardinality(rest) + Cardinality(mine)
    <2>1. Cardinality(rest \cup mine) = Cardinality(rest) + Cardinality(mine) - Cardinality(rest \cap mine)
      BY <1>4, <1>9, FS_Union
    <2>2. Cardinality(rest \cap mine) = 0
      BY <1>8, FS_EmptySet
    <2>3. Cardinality(rest) \in Nat /\ Cardinality(mine) \in Nat
      BY <1>4, <1>9, FS_CardinalityType
    <2> QED
      BY <1>8, <2>1, <2>2, <2>3
  <1> QED
    BY <1>2, <1>4, <1>9, <1>10 DEF all, rest

\* When the items of one collection change, the number of items that point to
\* x changes as it does in that collection.
LEMMA ItemsMove ==
    ASSUME NEW old, Fits(old), NEW new, Fits(new), NEW d \in Cols,
           \A c \in Cols : c # d => new[c] = old[c], NEW x
    PROVE  Cardinality(ItemsOf(new, x)) + Occurrences(x, old[d]) =
           Cardinality(ItemsOf(old, x)) + Occurrences(x, new[d])
  <1> DEFINE rest(s) == {p \in ItemsOf(s, x) : p[1] # d}
  <1>1. rest(new) = rest(old)
    BY DEF ItemsOf
  <1>2. /\ IsFiniteSet(rest(old)) /\ IsFiniteSet(rest(new))
        /\ Cardinality(ItemsOf(old, x)) = Cardinality(rest(old)) + Occurrences(x, old[d])
        /\ Cardinality(ItemsOf(new, x)) = Cardinality(rest(new)) + Occurrences(x, new[d])
    BY ItemsSplit
  <1>3. Cardinality(rest(old)) \in Nat
    BY <1>2, FS_CardinalityType
  <1>4. Occurrences(x, old[d]) \in Nat /\ Occurrences(x, new[d]) \in Nat
    BY SpotsFinite DEF Fits
  <1> HIDE DEF rest
  <1> QED
    BY <1>1, <1>2, <1>3, <1>4

\* No item points to x if it is in none of the lists.
LEMMA ItemsNone ==
    ASSUME NEW subs, Fits(subs), NEW x
    PROVE  /\ Cardinality(ItemsOf(subs, x)) \in Nat
           /\ Cardinality(ItemsOf(subs, x)) = 0 <=> \A d \in Cols : x \notin Range(subs[d])
  <1>1. IsFiniteSet(ItemsOf(subs, x))
    <2>1. CASE Cols = {}
      <3>1. ItemsOf(subs, x) = {}
        BY <2>1 DEF ItemsOf
      <3> QED
        BY <3>1, FS_EmptySet
    <2>2. CASE Cols # {}
      BY <2>2, ItemsSplit
    <2> QED
      BY <2>1, <2>2
  <1>2. /\ Cardinality(ItemsOf(subs, x)) \in Nat
        /\ Cardinality(ItemsOf(subs, x)) = 0 <=> ItemsOf(subs, x) = {}
    BY <1>1, FS_CardinalityType, FS_EmptySet
  <1>3. ASSUME NEW d \in Cols
        PROVE  x \in Range(subs[d]) <=> \E i \in 1..MaxSubs : <<d, i>> \in ItemsOf(subs, x)
    <2>1. /\ Len(subs[d]) \in Nat /\ Len(subs[d]) <= MaxSubs
          /\ DOMAIN subs[d] = 1..Len(subs[d]) /\ MaxSubs \in Nat
      BY LenProperties, CollectionRefsAssumption DEF Fits
    <2>2. DOMAIN subs[d] \subseteq 1..MaxSubs
      BY <2>1
    <2> QED
      BY <2>2 DEF ItemsOf, Range
  <1>4. ItemsOf(subs, x) = {} <=> \A d \in Cols : x \notin Range(subs[d])
    <2>1. ASSUME NEW p \in ItemsOf(subs, x) PROVE p[1] \in Cols /\ p[2] \in 1..MaxSubs /\ p = <<p[1], p[2]>>
      BY DEF ItemsOf
    <2> QED
      BY <1>3, <2>1
  <1> QED
    BY <1>2, <1>4

-----------------------------------------------------------------------------
(* The invariant                                                           *)

SubsNow == [d \in Cols |-> Subs(d)]
Dsts == [i \in 1..Len(copying) |-> copying[i].dst]

\* Reference items form no cycle: every set of collections has one that no item
\* of the set points to.
AcyclicIn(subs) ==
    \A S \in SUBSET Cols : S # {} => \E c \in S : \A d \in S : c \notin Range(subs[d])

\* The copies made so far: no reference item leads into them or out of them,
\* and what is being copied, or gets the copy, is not among them.
Splits(N) ==
    /\ \A d \in N : Range(Subs(d)) \subseteq N
    /\ \A d \in Cols \ N : Range(Subs(d)) \cap N = {}
    /\ \A i \in 1..Len(copying) : copying[i].dst \in N /\ copying[i].src \notin N /\ copying[i].into \notin N

\* An activation of the copy: its copy has one reference, the activation's, and
\* as many items as it has passed; what it copies is still there.
FrameOK(i) ==
    LET f == copying[i]
    IN  /\ f.src \in Live /\ f.src # f.dst
        /\ f.dst \in Live => node[f.dst].refs = 1
        /\ Len(Subs(f.dst)) = f.at
        /\ f.at <= Len(Subs(f.src)) /\ (i < Len(copying) => f.at < Len(Subs(f.src)))
        /\ \A j \in 1..Len(copying) : j # i => copying[j].dst # f.dst
        /\ f.mode = "KEEPREF" => Len(copying) = 1
        /\ f.into # NULL => i = 1 /\ f.mode = "NORMAL" /\ f.into \in Live /\ HasRoom(f.into)

CopyOK ==
    /\ copying # <<>> => todo = <<>>
    /\ \A i \in 1..Len(copying) : FrameOK(i)
    /\ (copying # <<>> /\ Top.mode = "NORMAL") => \E N \in SUBSET Cols : Splits(N)

IInv == TypeOK /\ NoDangling /\ CountSound /\ AcyclicIn(SubsNow) /\ CopyOK

PointersIn(hd, td, ds, subs, x) ==
    hd[x] + Occurrences(x, td) + Occurrences(x, ds) + Cardinality(ItemsOf(subs, x))

\* A header that is there is a header.
LEMMA NodeIs ==
    ASSUME TypeOK, NEW c \in Cols
    PROVE  /\ c \in Live => /\ node[c] \in NodeType /\ node[c].refs \in Nat \ {0}
                            /\ node[c].subs \in Seq(Cols) /\ Subs(c) = node[c].subs
           /\ c \notin Live => Subs(c) = <<>>
           /\ Subs(c) \in Seq(Cols) /\ Len(Subs(c)) \in Nat /\ Len(Subs(c)) <= MaxSubs
           /\ DOMAIN Subs(c) = 1..Len(Subs(c))
  <1>1. c \in Live => node[c] \in NodeType /\ Subs(c) = node[c].subs
    BY DEF TypeOK, Live, Subs
  <1>2. c \in Live => node[c].refs \in Nat \ {0} /\ node[c].subs \in Seq(Cols)
    BY <1>1 DEF NodeType
  <1>3. c \notin Live => Subs(c) = <<>>
    BY DEF Live, Subs
  <1>4. Subs(c) \in Seq(Cols) /\ Len(Subs(c)) <= MaxSubs
    <2>1. <<>> \in Seq(Cols) /\ Len(<<>>) <= MaxSubs
      BY EmptySeq, CollectionRefsAssumption
    <2>2. c \in Live => Len(node[c].subs) <= MaxSubs
      BY DEF TypeOK
    <2> QED
      BY <1>1, <1>2, <1>3, <2>1, <2>2
  <1>5. Len(Subs(c)) \in Nat /\ DOMAIN Subs(c) = 1..Len(Subs(c))
    BY <1>4, LenProperties
  <1> QED
    BY <1>1, <1>2, <1>3, <1>4, <1>5

\* An activation of the copy is one.
LEMMA FrameIs ==
    ASSUME TypeOK
    PROVE  /\ Len(copying) \in Nat /\ DOMAIN copying = 1..Len(copying)
           /\ copying # <<>> => Len(copying) \in 1..Len(copying)
           /\ \A i \in 1..Len(copying) :
                 /\ copying[i] \in FrameType
                 /\ copying[i].src \in Cols /\ copying[i].dst \in Cols /\ copying[i].at \in Nat
                 /\ copying[i].mode \in {"NORMAL", "KEEPREF"} /\ copying[i].into \in Cols \cup {NULL}
  <1>1. copying \in Seq(FrameType)
    BY DEF TypeOK
  <1>2. Len(copying) \in Nat /\ DOMAIN copying = 1..Len(copying)
    BY <1>1, LenProperties
  <1>3. copying # <<>> => Len(copying) \in 1..Len(copying)
    BY <1>1, EmptySeq
  <1>4. \A i \in 1..Len(copying) : copying[i] \in FrameType
    BY <1>1, ElementOfSeq
  <1> QED
    BY <1>2, <1>3, <1>4 DEF FrameType

\* The four places where references are, counted.
Counted ==
    /\ Fits(SubsNow) /\ Dsts \in Seq(Cols) /\ todo \in Seq(Cols)
    /\ \A x \in Cols :
          /\ held[x] \in Nat /\ Occurrences(x, todo) \in Nat /\ Occurrences(x, Dsts) \in Nat
          /\ Cardinality(ItemsOf(SubsNow, x)) \in Nat
          /\ Pointers(x) = PointersIn(held, todo, Dsts, SubsNow, x)
          /\ Pointers(x) \in Nat

\* In a state of the right type the references are counted.
LEMMA PointersAre == TypeOK => Counted
  <1> SUFFICES ASSUME TypeOK PROVE Counted
    OBVIOUS
  <1>1. Fits(SubsNow)
    BY NodeIs DEF Fits, SubsNow
  <1>2. Dsts \in Seq(Cols)
    <2>1. \A i \in 1..Len(copying) : copying[i].dst \in Cols
      BY FrameIs
    <2>2. Len(copying) \in Nat
      BY FrameIs
    <2> QED
      BY <2>1, <2>2, IsASeq DEF Dsts
  <1>3. todo \in Seq(Cols)
    BY DEF TypeOK
  <1>4. ASSUME NEW x \in Cols
        PROVE  /\ held[x] \in Nat /\ Occurrences(x, todo) \in Nat /\ Occurrences(x, Dsts) \in Nat
               /\ Cardinality(ItemsOf(SubsNow, x)) \in Nat
               /\ Pointers(x) = PointersIn(held, todo, Dsts, SubsNow, x)
               /\ Pointers(x) \in Nat
    <2>1. held[x] \in Nat
      BY CollectionRefsAssumption DEF TypeOK
    <2>2. Occurrences(x, todo) \in Nat
      BY <1>3, SpotsFinite
    <2>3. Occurrences(x, Dsts) \in Nat
      BY <1>2, SpotsFinite
    <2>4. Cardinality(ItemsOf(SubsNow, x)) \in Nat
      BY <1>1, ItemsNone
    <2>5. Building(x) = Occurrences(x, Dsts)
      <3>1. DOMAIN copying = 1..Len(copying)
        BY FrameIs
      <3>2. {i \in DOMAIN copying : copying[i].dst = x} = {i \in DOMAIN Dsts : Dsts[i] = x}
        BY <3>1 DEF Dsts
      <3> QED
        BY <3>2 DEF Building, Occurrences
    <2>6. Items(x) = ItemsOf(SubsNow, x)
      <3>1. \A p \in Cols \X (1..MaxSubs) : SubsNow[p[1]] = Subs(p[1])
        BY DEF SubsNow
      <3> QED
        BY <3>1 DEF Items, ItemsOf
    <2>7. Pointers(x) = PointersIn(held, todo, Dsts, SubsNow, x)
      BY <2>5, <2>6 DEF Pointers, PointersIn
    <2> QED
      BY <2>1, <2>2, <2>3, <2>4, <2>7 DEF PointersIn
  <1> QED
    BY <1>1, <1>2, <1>3, <1>4 DEF Counted

\* The same of the next state.
LEMMA PointersAreNext == TypeOK' => Counted'
  BY PointersAre, PTL

-----------------------------------------------------------------------------
(* Where references lead                                                   *)

\* Nothing that is referred to was deleted.
LEMMA PointedLive ==
    ASSUME TypeOK, NoDangling
    PROVE  /\ \A x \in Cols : held[x] > 0 => x \in Live
           /\ \A i \in 1..Len(todo) : todo[i] \in Live
           /\ \A i \in 1..Len(copying) : copying[i].dst \in Live
           /\ \A d \in Cols : Range(Subs(d)) \subseteq Live
  <1>1. Counted
    BY PointersAre
  <1>2. ASSUME NEW x \in Cols, x \notin Live
        PROVE  /\ held[x] = 0 /\ Occurrences(x, todo) = 0 /\ Occurrences(x, Dsts) = 0
               /\ Cardinality(ItemsOf(SubsNow, x)) = 0
    <2>1. Pointers(x) = 0
      BY <1>2 DEF NoDangling
    <2>2. /\ held[x] \in Nat /\ Occurrences(x, todo) \in Nat /\ Occurrences(x, Dsts) \in Nat
          /\ Cardinality(ItemsOf(SubsNow, x)) \in Nat
          /\ Pointers(x) = held[x] + Occurrences(x, todo) + Occurrences(x, Dsts)
                             + Cardinality(ItemsOf(SubsNow, x))
      BY <1>1 DEF Counted, PointersIn
    <2> QED
      BY <2>1, <2>2
  <1>3. \A x \in Cols : held[x] > 0 => x \in Live
    BY <1>2
  <1>4. ASSUME NEW i \in 1..Len(todo) PROVE todo[i] \in Live
    <2>1. todo[i] \in Cols
      BY <1>1, ElementOfSeq DEF Counted
    <2>2. Occurrences(todo[i], todo) # 0
      BY <1>1, <2>1, OccPositive DEF Counted
    <2> QED
      BY <1>2, <2>1, <2>2
  <1>5. ASSUME NEW i \in 1..Len(copying) PROVE copying[i].dst \in Live
    <2>1. copying[i].dst \in Cols /\ Len(copying) \in Nat
      BY FrameIs
    <2>2. Dsts \in Seq(Cols) /\ Len(Dsts) = Len(copying) /\ Dsts[i] = copying[i].dst
      BY <1>1, <2>1 DEF Counted, Dsts
    <2>3. Occurrences(copying[i].dst, Dsts) # 0
      BY <2>2, OccPositive
    <2> QED
      BY <1>2, <2>1, <2>3
  <1>6. ASSUME NEW d \in Cols, NEW x \in Range(Subs(d)) PROVE x \in Live
    <2>1. x \in Cols
      BY NodeIs DEF Range
    <2>2. x \in Range(SubsNow[d])
      BY DEF SubsNow
    <2>3. Cardinality(ItemsOf(SubsNow, x)) # 0
      BY <1>1, <2>2, ItemsNone DEF Counted
    <2> QED
      BY <1>2, <2>1, <2>3
  <1> QED
    BY <1>3, <1>4, <1>5, <1>6

\* The copy that an activation makes is referred to by nobody else.
LEMMA CopyUnshared ==
    ASSUME IInv, NEW i \in 1..Len(copying)
    PROVE  /\ held[copying[i].dst] = 0 /\ node[copying[i].dst].refs = 1
           /\ \A d \in Cols : copying[i].dst \notin Range(Subs(d))
  <1> DEFINE x == copying[i].dst
  <1>1. TypeOK /\ NoDangling /\ CountSound /\ CopyOK /\ Counted
    BY PointersAre DEF IInv
  <1>2. x \in Cols /\ x \in Live
    BY <1>1, PointedLive, FrameIs
  <1>3. node[x].refs = 1
    BY <1>1, <1>2 DEF CopyOK, FrameOK
  <1>4. Pointers(x) <= 1
    <2>1. node[x].refs >= Pointers(x)
      BY <1>1, <1>2 DEF CountSound
    <2> QED
      BY <2>1, <1>3
  <1>5. Occurrences(x, Dsts) # 0
    <2>1. Len(copying) \in Nat
      BY <1>1, FrameIs
    <2>2. Dsts \in Seq(Cols) /\ Len(Dsts) = Len(copying) /\ Dsts[i] = x
      BY <1>1, <2>1 DEF Counted, Dsts
    <2> QED
      BY <2>2, OccPositive
  <1>6. held[x] = 0 /\ Cardinality(ItemsOf(SubsNow, x)) = 0
    <2> HIDE DEF x
    <2>1. /\ held[x] \in Nat /\ Occurrences(x, todo) \in Nat /\ Occurrences(x, Dsts) \in Nat
          /\ Cardinality(ItemsOf(SubsNow, x)) \in Nat
          /\ Pointers(x) = held[x] + Occurrences(x, todo) + Occurrences(x, Dsts)
                             + Cardinality(ItemsOf(SubsNow, x))
      BY <1>1, <1>2 DEF Counted, PointersIn
    <2> QED
      BY <2>1, <1>4, <1>5
  <1>7. \A d \in Cols : x \notin Range(Subs(d))
    BY <1>1, <1>6, ItemsNone DEF Counted, SubsNow
  <1> QED
    BY <1>3, <1>6, <1>7

\* Fewer items make no cycle.
LEMMA AcyclicShrinks ==
    ASSUME NEW old, AcyclicIn(old), NEW new, \A d \in Cols : Range(new[d]) \subseteq Range(old[d])
    PROVE  AcyclicIn(new)
  BY DEF AcyclicIn

ClosedIn(old, W) == \A d \in W : Range(old[d]) \subseteq W
OneMore(old, new, a, c) ==
    \A d \in Cols : \A x \in Range(new[d]) : x \in Range(old[d]) \/ (d = a /\ x = c)

\* Neither does an item in a collection a that points to c, if there is a set
\* that c is in and a is not and that no item leads out of.
LEMMA AcyclicEdge ==
    ASSUME NEW old, AcyclicIn(old), NEW new, NEW W \in SUBSET Cols, NEW a, a \notin W, NEW c \in W,
           ClosedIn(old, W), OneMore(old, new, a, c)
    PROVE  AcyclicIn(new)
  <1> SUFFICES ASSUME NEW S \in SUBSET Cols, S # {},
                      \A x \in S : \E d \in S : x \in Range(new[d])
               PROVE  FALSE
    BY DEF AcyclicIn
  <1>1. CASE a \notin S
    <2>1. PICK x \in S : \A d \in S : x \notin Range(old[d])
      BY DEF AcyclicIn
    <2>2. PICK d \in S : x \in Range(new[d])
      OBVIOUS
    <2> QED
      BY <1>1, <2>1, <2>2 DEF OneMore
  <1>2. CASE a \in S
    <2> DEFINE T == S \ W
    <2>1. T \in SUBSET Cols /\ T # {}
      BY <1>2
    <2>2. PICK x \in T : \A d \in T : x \notin Range(old[d])
      BY <2>1 DEF AcyclicIn
    <2>3. PICK d \in S : x \in Range(new[d])
      OBVIOUS
    <2>4. x \in Range(old[d])
      BY <2>2, <2>3 DEF OneMore
    <2> QED
      BY <2>2, <2>4 DEF ClosedIn
  <1> QED
    BY <1>1, <1>2

-----------------------------------------------------------------------------
(* What is reached from a collection                                       *)

Near(X) == X \cup UNION {Range(Subs(d)) : d \in X}

\* The recursive function of Within is the one its equations describe.
LEMMA WithinIs ==
    ASSUME TypeOK, NEW c \in Cols
    PROVE  \E r \in [Nat -> SUBSET Cols] :
              /\ r[0] = {c} /\ \A n \in Nat : r[n + 1] = Near(r[n])
              /\ Within(c) = r[Cardinality(Cols)]
  <1> DEFINE F == [X \in SUBSET Cols |-> Near(X)]
             reached[n \in Nat] ==
                IF n = 0 THEN {c}
                ELSE LET near == reached[n - 1]
                     IN  near \cup UNION {Range(Subs(d)) : d \in near}
  <1>1. \A d \in Cols : Range(Subs(d)) \subseteq Cols
    BY NodeIs DEF Range
  <1>2. F \in [SUBSET Cols -> SUBSET Cols]
    BY <1>1 DEF Near
  <1>3. PICK g \in [Nat -> SUBSET Cols] : g[0] = {c} /\ \A n \in Nat : g[n + 1] = F[g[n]]
    <2> DEFINE x0 == {c}
               X == SUBSET Cols
    <2>1. x0 \in X /\ F \in [X -> X]
      BY <1>2
    <2> HIDE DEF x0, X, F, reached
    <2>2. PICK H \in [X -> X] : H = F
      BY <2>1
    <2>3. \E g \in [Nat -> X] : Iterates(H, x0, g)
      BY <2>1, LoopExists
    <2>4. PICK g \in [Nat -> X] : Iterates(H, x0, g)
      BY <2>3
    <2>5. g[0] = x0 /\ \A n \in Nat : g[n + 1] = H[g[n]]
      BY <2>4 DEF Iterates
    <2> QED
      BY <2>2, <2>5 DEF x0, X
  <1>4. Within(c) = reached[Cardinality(Cols)]
    BY DEF Within
  <1>5. reached = CHOOSE r : r = [n \in Nat |-> IF n = 0 THEN {c}
                        ELSE r[n - 1] \cup UNION {Range(Subs(d)) : d \in r[n - 1]}]
    BY DEF reached
  <1>6. g = [n \in Nat |-> IF n = 0 THEN {c}
                ELSE g[n - 1] \cup UNION {Range(Subs(d)) : d \in g[n - 1]}]
    <2> SUFFICES ASSUME NEW n \in Nat
                 PROVE  g[n] = IF n = 0 THEN {c}
                               ELSE g[n - 1] \cup UNION {Range(Subs(d)) : d \in g[n - 1]}
      OBVIOUS
    <2>1. CASE n = 0
      BY <1>3, <2>1
    <2>2. CASE n # 0
      <3>1. n - 1 \in Nat /\ (n - 1) + 1 = n
        BY <2>2
      <3>2. g[n] = F[g[n - 1]]
        BY <1>3, <3>1
      <3> QED
        BY <2>2, <3>1, <3>2 DEF Near
    <2> QED
      BY <2>1, <2>2
  <1> HIDE DEF reached
  <1>7. reached = [n \in Nat |-> IF n = 0 THEN {c}
                ELSE reached[n - 1] \cup UNION {Range(Subs(d)) : d \in reached[n - 1]}]
    BY <1>5, <1>6
  <1>8. reached[0] = {c} /\ \A n \in Nat : reached[n + 1] = Near(reached[n])
    <2>1. reached[0] = {c}
      BY <1>7
    <2>2. ASSUME NEW n \in Nat PROVE reached[n + 1] = Near(reached[n])
      <3>1. n + 1 \in Nat /\ n + 1 # 0 /\ (n + 1) - 1 = n
        OBVIOUS
      <3>2. reached[n + 1] = reached[(n + 1) - 1] \cup UNION {Range(Subs(d)) : d \in reached[(n + 1) - 1]}
        BY <1>7, <3>1
      <3> QED
        BY <3>1, <3>2 DEF Near
    <2> QED
      BY <2>1, <2>2
  <1>9. reached \in [Nat -> SUBSET Cols]
    <2>1. ASSUME NEW k \in Nat PROVE reached[k] = g[k]
      <3>1. \A n \in 1..k : reached[n - 1] = g[n - 1] => reached[n] = g[n]
        <4> SUFFICES ASSUME NEW n \in 1..k, reached[n - 1] = g[n - 1] PROVE reached[n] = g[n]
          OBVIOUS
        <4>1. n - 1 \in Nat /\ (n - 1) + 1 = n
          OBVIOUS
        <4>2. reached[n] = Near(reached[n - 1])
          BY <1>8, <4>1
        <4>3. g[n] = F[g[n - 1]] /\ g[n - 1] \in SUBSET Cols
          BY <1>3, <4>1
        <4> QED
          BY <4>2, <4>3
      <3>2. reached[0] = g[0]
        BY <1>3, <1>8
      <3>3. \A n \in 0..k : reached[n] = g[n]
        BY <3>1, <3>2, LoopsAgree
      <3> QED
        BY <3>3
    <2>2. DOMAIN reached = Nat
      BY <1>7
    <2> QED
      BY <1>7, <2>1, <2>2
  <1> QED
    BY <1>4, <1>8, <1>9

\* No item leads out of what is reached, and the search is long enough to
\* reach it all.
LEMMA WithinClosed ==
    ASSUME TypeOK, NEW c \in Cols
    PROVE  /\ c \in Within(c) /\ Within(c) \subseteq Cols
           /\ \A d \in Within(c) : Range(Subs(d)) \subseteq Within(c)
  <1> DEFINE k == Cardinality(Cols)
  <1>1. k \in Nat /\ IsFiniteSet(Cols)
    BY CollectionRefsAssumption, FS_CardinalityType
  <1> HIDE DEF k
  <1>2. PICK r \in [Nat -> SUBSET Cols] :
           r[0] = {c} /\ (\A n \in Nat : r[n + 1] = Near(r[n])) /\ Within(c) = r[k]
    BY WithinIs DEF k
  <1>3. \A n \in 1..k : n - 1 \in Nat /\ n \in Nat /\ r[n] = Near(r[n - 1])
    <2> SUFFICES ASSUME NEW n \in 1..k PROVE n - 1 \in Nat /\ n \in Nat /\ r[n] = Near(r[n - 1])
      OBVIOUS
    <2>1. n - 1 \in Nat /\ n \in Nat /\ (n - 1) + 1 = n
      BY <1>1
    <2> QED
      BY <1>2, <2>1
  <1>4. \A n \in Nat : IsFiniteSet(r[n]) /\ Cardinality(r[n]) \in Nat /\ Cardinality(r[n]) <= k
    BY <1>1, FS_Subset, FS_CardinalityType DEF k
  <1>5. c \in r[k]
    <2> DEFINE S == {n \in 0..k : c \in r[n]}
    <2>1. 0 \in S
      BY <1>1, <1>2
    <2>2. \A n \in 1..k : n - 1 \in S => n \in S
      BY <1>3 DEF Near
    <2> HIDE DEF S
    <2>3. 0..k \subseteq S
      BY <1>1, <2>1, <2>2, SetInduction
    <2> QED
      BY <1>1, <2>3 DEF S
  <1>6. Near(r[k]) = r[k]
    <2> DEFINE S == {n \in 0..k : Near(r[n]) = r[n] \/ Cardinality(r[n]) >= n + 1}
    <2>1. 0 \in S
      <3>1. Cardinality(r[0]) = 1
        BY <1>2, FS_Singleton
      <3> QED
        BY <1>1, <3>1
    <2>2. ASSUME NEW n \in 1..k, n - 1 \in S PROVE n \in S
      <3>1. n - 1 \in Nat /\ n \in Nat /\ r[n] = Near(r[n - 1]) /\ r[n - 1] \subseteq r[n]
        BY <1>3 DEF Near
      <3>2. CASE Near(r[n - 1]) = r[n - 1]
        BY <3>1, <3>2
      <3>3. CASE Near(r[n - 1]) # r[n - 1]
        <4>1. Cardinality(r[n - 1]) >= (n - 1) + 1
          BY <2>2, <3>3
        <4>2. Cardinality(r[n - 1]) <= Cardinality(r[n]) /\ Cardinality(r[n]) # Cardinality(r[n - 1])
          BY <1>4, <3>1, <3>3, FS_Subset
        <4>3. Cardinality(r[n - 1]) \in Nat /\ Cardinality(r[n]) \in Nat
          BY <1>4, <3>1
        <4>4. Cardinality(r[n]) >= n + 1
          BY <3>1, <4>1, <4>2, <4>3
        <4> QED
          BY <4>4
      <3> QED
        BY <3>2, <3>3
    <2> HIDE DEF S
    <2>3. 0..k \subseteq S
      BY <1>1, <2>1, <2>2, SetInduction
    <2>4. Near(r[k]) = r[k] \/ Cardinality(r[k]) >= k + 1
      BY <1>1, <2>3 DEF S
    <2> QED
      BY <1>1, <1>4, <2>4
  <1>7. Within(c) = r[k] /\ r[k] \subseteq Cols
    BY <1>1, <1>2
  <1> QED
    BY <1>5, <1>6, <1>7 DEF Near

\* What is reached from c is in every set that has c and that no item leads
\* out of.
LEMMA WithinInside ==
    ASSUME TypeOK, NEW N \in SUBSET Cols, NEW c \in N,
           \A d \in N : Range(Subs(d)) \subseteq N
    PROVE  Within(c) \subseteq N
  <1> DEFINE k == Cardinality(Cols)
  <1>1. k \in Nat
    BY CollectionRefsAssumption, FS_CardinalityType
  <1> HIDE DEF k
  <1>2. PICK r \in [Nat -> SUBSET Cols] :
           r[0] = {c} /\ (\A n \in Nat : r[n + 1] = Near(r[n])) /\ Within(c) = r[k]
    BY WithinIs DEF k
  <1> DEFINE S == {n \in 0..k : r[n] \subseteq N}
  <1>3. 0 \in S
    BY <1>1, <1>2
  <1>4. ASSUME NEW n \in 1..k, n - 1 \in S PROVE n \in S
    <2>1. n - 1 \in Nat /\ (n - 1) + 1 = n
      BY <1>1
    <2>2. r[n] = Near(r[n - 1])
      BY <1>2, <2>1
    <2> QED
      BY <1>4, <2>2 DEF Near
  <1> HIDE DEF S
  <1>5. 0..k \subseteq S
    BY <1>1, <1>3, <1>4, SetInduction
  <1>6. r[k] \subseteq N
    BY <1>1, <1>5 DEF S
  <1> QED
    BY <1>2, <1>6

\* What a caller can name was not deleted.
LEMMA VisibleLive ==
    ASSUME TypeOK, NoDangling
    PROVE  Visible \subseteq Live /\ Live \subseteq Cols
  <1>1. Live \in SUBSET Cols
    BY DEF Live
  <1>2. ASSUME NEW h \in Cols, held[h] > 0 PROVE Within(h) \subseteq Live
    <2>1. h \in Live
      BY <1>2, PointedLive
    <2>2. \A d \in Live : Range(Subs(d)) \subseteq Live
      BY <1>1, PointedLive
    <2> QED
      BY <1>1, <2>1, <2>2, WithinInside
  <1> QED
    BY <1>1, <1>2 DEF Visible

-----------------------------------------------------------------------------
(* What a step does to the headers                                         *)

NodeTyped ==
    /\ node \in [Cols -> NodeType \cup {NULL}]
    /\ \A c \in Live : Len(node[c].subs) <= MaxSubs

\* A step that changes the items of d at most: the number of references to x
\* changes by what each place says.
Moves(x, d) ==
    /\ Pointers(x)' + held[x] + Occurrences(x, todo) + Occurrences(x, Dsts) + Occurrences(x, Subs(d)) =
       Pointers(x) + held'[x] + Occurrences(x, todo') + Occurrences(x, Dsts') + Occurrences(x, Subs(d)')
    /\ Pointers(x) \in Nat /\ Pointers(x)' \in Nat /\ held[x] \in Nat /\ held'[x] \in Nat
    /\ Occurrences(x, todo) \in Nat /\ Occurrences(x, todo') \in Nat
    /\ Occurrences(x, Dsts) \in Nat /\ Occurrences(x, Dsts') \in Nat
    /\ Occurrences(x, Subs(d)) \in Nat /\ Occurrences(x, Subs(d)') \in Nat

\* The places account for every change of the number of references.
LEMMA CountStep ==
    ASSUME Counted, Counted', NEW d \in Cols,
           \A c \in Cols : c # d => Subs(c)' = Subs(c), NEW x \in Cols
    PROVE  Moves(x, d)
  <1>1. PICK old : old = SubsNow
    OBVIOUS
  <1>2. PICK new : new = SubsNow'
    OBVIOUS
  <1>3. Fits(old) /\ Fits(new)
    BY <1>1, <1>2 DEF Counted
  <1>4. \A c \in Cols : c # d => new[c] = old[c]
    BY <1>1, <1>2 DEF SubsNow
  <1>5. Cardinality(ItemsOf(new, x)) + Occurrences(x, old[d]) =
        Cardinality(ItemsOf(old, x)) + Occurrences(x, new[d])
    BY <1>3, <1>4, ItemsMove
  <1>6. old[d] = Subs(d) /\ new[d] = Subs(d)'
    BY <1>1, <1>2 DEF SubsNow
  <1>7. /\ Cardinality(ItemsOf(old, x)) \in Nat /\ Cardinality(ItemsOf(new, x)) \in Nat
        /\ Occurrences(x, old[d]) \in Nat /\ Occurrences(x, new[d]) \in Nat
    BY <1>3, ItemsNone, SpotsFinite DEF Fits
  <1>8. /\ held[x] \in Nat /\ Occurrences(x, todo) \in Nat /\ Occurrences(x, Dsts) \in Nat
        /\ Pointers(x) = held[x] + Occurrences(x, todo) + Occurrences(x, Dsts) + Cardinality(ItemsOf(old, x))
        /\ Pointers(x) \in Nat
    BY <1>1 DEF Counted, PointersIn
  <1>9. /\ held'[x] \in Nat /\ Occurrences(x, todo') \in Nat /\ Occurrences(x, Dsts') \in Nat
        /\ Pointers(x)' = held'[x] + Occurrences(x, todo') + Occurrences(x, Dsts') + Cardinality(ItemsOf(new, x))
        /\ Pointers(x)' \in Nat
    BY <1>2 DEF Counted, PointersIn
  <1> QED
    BY <1>5, <1>6, <1>7, <1>8, <1>9 DEF Moves

\* The count of x and the number of references to it change together; after a
\* copy has failed the count may be the greater.
Balanced(x) ==
    /\ x \notin Live' => Pointers(x)' = 0
    /\ x \in Live' /\ x \notin Live => node'[x].refs = 1 /\ Pointers(x)' = 1
    /\ x \in Live' /\ x \in Live =>
          /\ node'[x].refs + Pointers(x) >= node[x].refs + Pointers(x)'
          /\ failures' = 0 => /\ failures = 0
                              /\ node'[x].refs + Pointers(x) = node[x].refs + Pointers(x)'

\* A header that is there has a count above zero.
LEMMA RefsNat == TypeOK => \A x \in Live : x \in Cols /\ node[x].refs \in Nat \ {0}
  BY NodeIs DEF Live

\* The same of the next state.
LEMMA RefsNatNext == TypeOK' => \A x \in Live' : x \in Cols /\ node'[x].refs \in Nat \ {0}
  <1>1. (TypeOK => \A x \in Live : x \in Cols /\ node[x].refs \in Nat \ {0})'
    BY RefsNat, PTL
  <1> QED
    BY <1>1

\* Neither the count nor the references change.
LEMMA BalancedKept ==
    ASSUME TypeOK, NoDangling, NEW x \in Cols, x \in Live' <=> x \in Live,
           x \in Live => node'[x].refs = node[x].refs,
           Pointers(x)' = Pointers(x), failures' = 0 => failures = 0
    PROVE  Balanced(x)
  <1>1. Pointers(x) \in Nat
    BY PointersAre DEF Counted
  <1>2. CASE x \notin Live
    BY <1>2 DEF Balanced, NoDangling
  <1>3. CASE x \in Live
    <2>1. node[x].refs \in Nat
      BY <1>3, RefsNat
    <2>2. node'[x].refs + Pointers(x) = node[x].refs + Pointers(x)'
      BY <1>3
    <2>3. node'[x].refs + Pointers(x) >= node[x].refs + Pointers(x)'
      BY <1>1, <1>3, <2>1
    <2> QED
      BY <1>3, <2>2, <2>3 DEF Balanced
  <1> QED
    BY <1>2, <1>3

\* Both go up by one, or both go down by one.
LEMMA BalancedMoved ==
    ASSUME TypeOK, NEW x \in Live, x \in Live',
           \/ node'[x].refs = node[x].refs + 1 /\ Pointers(x)' = Pointers(x) + 1
           \/ node'[x].refs = node[x].refs - 1 /\ Pointers(x)' = Pointers(x) - 1,
           failures' = 0 => failures = 0
    PROVE  Balanced(x)
  <1>1. Pointers(x) \in Nat /\ node[x].refs \in Nat
    BY PointersAre, RefsNat DEF Counted
  <1>2. node'[x].refs + Pointers(x) = node[x].refs + Pointers(x)'
    BY <1>1
  <1>3. node'[x].refs + Pointers(x) >= node[x].refs + Pointers(x)'
    BY <1>1
  <1> QED
    BY <1>2, <1>3 DEF Balanced

\* Where every collection is balanced, the counts stay sound.
LEMMA CountsKept ==
    ASSUME TypeOK, TypeOK', CountSound, \A x \in Cols : Balanced(x)
    PROVE  NoDangling' /\ CountSound'
  <1>1. NoDangling'
    BY DEF NoDangling, Balanced
  <1>2. Counted /\ Counted'
    BY PointersAre, PointersAreNext
  <1>3. ASSUME NEW x \in Live'
        PROVE  node'[x].refs >= Pointers(x)' /\ (failures' = 0 => node'[x].refs = Pointers(x)')
    <2>1. x \in Cols /\ node'[x].refs \in Nat /\ Pointers(x)' \in Nat /\ Pointers(x) \in Nat
      BY <1>2, RefsNatNext DEF Counted
    <2>2. CASE x \notin Live
      BY <2>1, <2>2 DEF Balanced
    <2>3. CASE x \in Live
      <3>1. node[x].refs \in Nat
        BY <2>3, RefsNat
      <3>2. node[x].refs >= Pointers(x) /\ (failures = 0 => node[x].refs = Pointers(x))
        BY <2>3 DEF CountSound
      <3>3. /\ node'[x].refs + Pointers(x) >= node[x].refs + Pointers(x)'
            /\ failures' = 0 => /\ failures = 0
                                /\ node'[x].refs + Pointers(x) = node[x].refs + Pointers(x)'
        BY <2>1, <2>3 DEF Balanced
      <3> QED
        BY <2>1, <3>1, <3>2, <3>3
    <2> QED
      BY <2>2, <2>3
  <1> QED
    BY <1>1, <1>3 DEF CountSound

\* A new header.
LEMMA NodeMade ==
    ASSUME TypeOK, NEW c \in Cols, c \notin Live, node' = New(c)
    PROVE  /\ NodeTyped' /\ Live' = Live \cup {c} /\ node'[c].refs = 1 /\ Subs(c)' = <<>>
           /\ \A x \in Cols : Subs(x)' = Subs(x)
           /\ \A x \in Live : node'[x] = node[x]
  <1> DEFINE h == [refs |-> 1, subs |-> <<>>]
  <1>1. node' = [node EXCEPT ![c] = h] /\ node \in [Cols -> NodeType \cup {NULL}]
    BY DEF New, TypeOK
  <1>2. h \in NodeType /\ h # NULL /\ h.refs = 1 /\ h.subs = <<>> /\ Len(h.subs) <= MaxSubs
    <2>1. <<>> \in Seq(Cols) /\ Len(<<>>) <= MaxSubs
      BY EmptySeq, CollectionRefsAssumption
    <2>2. h \in NodeType
      BY <2>1 DEF NodeType
    <2> QED
      BY <2>1, <2>2, NullAssumption
  <1> HIDE DEF h
  <1>3. node' \in [Cols -> NodeType \cup {NULL}] /\ node'[c] = h /\ \A x \in Cols : x # c => node'[x] = node[x]
    BY <1>1, <1>2
  <1>4. Live' = Live \cup {c}
    BY <1>2, <1>3 DEF Live
  <1>5. \A x \in Cols : Subs(x)' = Subs(x)
    BY <1>2, <1>3 DEF Subs, Live
  <1>6. \A x \in Live' : Len(node'[x].subs) <= MaxSubs
    BY <1>2, <1>3, <1>4 DEF TypeOK, Live
  <1> QED
    BY <1>2, <1>3, <1>4, <1>5, <1>6 DEF NodeTyped, Live, Subs

\* One header is changed, and stays one.
LEMMA NodeChanged ==
    ASSUME TypeOK, NEW c \in Live, NEW h \in NodeType, Len(h.subs) <= MaxSubs,
           node' = [node EXCEPT ![c] = h]
    PROVE  /\ NodeTyped' /\ Live' = Live /\ node'[c] = h /\ Subs(c)' = h.subs
           /\ \A x \in Cols : x # c => node'[x] = node[x] /\ Subs(x)' = Subs(x)
  <1>1. node \in [Cols -> NodeType \cup {NULL}] /\ c \in Cols /\ h # NULL
    BY NullAssumption DEF TypeOK, Live
  <1>2. node' \in [Cols -> NodeType \cup {NULL}] /\ node'[c] = h /\ \A x \in Cols : x # c => node'[x] = node[x]
    BY <1>1
  <1>3. Live' = Live
    BY <1>1, <1>2 DEF Live
  <1>4. Subs(c)' = h.subs /\ \A x \in Cols : x # c => Subs(x)' = Subs(x)
    BY <1>1, <1>2 DEF Subs
  <1>5. \A x \in Live' : Len(node'[x].subs) <= MaxSubs
    BY <1>2, <1>3 DEF TypeOK, Live
  <1> QED
    BY <1>2, <1>3, <1>4, <1>5 DEF NodeTyped

\* An item is added at the end.
LEMMA ItemAdded ==
    ASSUME TypeOK, NEW a \in Live, NEW c \in Cols, HasRoom(a),
           node' = [node EXCEPT ![a].subs = Append(@, c)]
    PROVE  /\ NodeTyped' /\ Live' = Live
           /\ Subs(a)' = Append(Subs(a), c) /\ \A x \in Cols : x # a => Subs(x)' = Subs(x)
           /\ \A x \in Live : node'[x].refs = node[x].refs
  <1> DEFINE h == [node[a] EXCEPT !.subs = Append(@, c)]
  <1>1. a \in Cols /\ node[a] \in NodeType /\ Subs(a) = node[a].subs /\ node[a].subs \in Seq(Cols)
    BY NodeIs DEF Live
  <1>2. /\ Append(node[a].subs, c) \in Seq(Cols) /\ Len(Append(node[a].subs, c)) <= MaxSubs
    BY <1>1, AppendProperties, LenProperties, CollectionRefsAssumption DEF HasRoom
  <1>3. h \in NodeType /\ h.subs = Append(node[a].subs, c) /\ h.refs = node[a].refs
    BY <1>1, <1>2 DEF NodeType
  <1>4. node' = [node EXCEPT ![a] = h]
    OBVIOUS
  <1> HIDE DEF h
  <1>5. /\ NodeTyped' /\ Live' = Live /\ node'[a] = h /\ Subs(a)' = h.subs
        /\ \A x \in Cols : x # a => node'[x] = node[x] /\ Subs(x)' = Subs(x)
    BY <1>2, <1>3, <1>4, NodeChanged
  <1>6. \A x \in Live : node'[x].refs = node[x].refs
    BY <1>3, <1>5 DEF Live
  <1> QED
    BY <1>1, <1>3, <1>5, <1>6

\* The count of one header changes.
LEMMA RefsChanged ==
    ASSUME TypeOK, NEW c \in Live, NEW n \in Nat \ {0}, node' = [node EXCEPT ![c].refs = n]
    PROVE  /\ NodeTyped' /\ Live' = Live /\ node'[c].refs = n
           /\ \A x \in Cols : Subs(x)' = Subs(x)
           /\ \A x \in Cols : x # c => node'[x] = node[x]
  <1> DEFINE h == [node[c] EXCEPT !.refs = n]
  <1>1. /\ c \in Cols /\ node[c] \in NodeType /\ Subs(c) = node[c].subs
        /\ Len(Subs(c)) <= MaxSubs
    BY NodeIs DEF Live
  <1>2. h \in NodeType /\ h.subs = node[c].subs /\ h.refs = n
    BY <1>1 DEF NodeType
  <1>3. node' = [node EXCEPT ![c] = h]
    OBVIOUS
  <1> HIDE DEF h
  <1>4. /\ NodeTyped' /\ Live' = Live /\ node'[c] = h /\ Subs(c)' = h.subs
        /\ \A x \in Cols : x # c => node'[x] = node[x] /\ Subs(x)' = Subs(x)
    BY <1>1, <1>2, <1>3, NodeChanged
  <1> QED
    BY <1>1, <1>2, <1>4

\* An item is added and the collection it points to has one reference more.
LEMMA ReferenceAdded ==
    ASSUME TypeOK, NEW a \in Live, NEW c \in Live, a # c, HasRoom(a),
           node' = [node EXCEPT ![a].subs = Append(@, c), ![c].refs = @ + 1]
    PROVE  /\ NodeTyped' /\ Live' = Live
           /\ Subs(a)' = Append(Subs(a), c) /\ \A x \in Cols : x # a => Subs(x)' = Subs(x)
           /\ node'[c].refs = node[c].refs + 1
           /\ \A x \in Live : x # c => node'[x].refs = node[x].refs
  <1> DEFINE g == [node[a] EXCEPT !.subs = Append(@, c)]
             h == [node[c] EXCEPT !.refs = @ + 1]
  <1>1. /\ a \in Cols /\ node[a] \in NodeType /\ Subs(a) = node[a].subs /\ node[a].subs \in Seq(Cols)
        /\ c \in Cols /\ node[c] \in NodeType /\ Subs(c) = node[c].subs /\ node[c].refs \in Nat \ {0}
        /\ Len(Subs(c)) <= MaxSubs
    BY NodeIs DEF Live
  <1>2. /\ Append(node[a].subs, c) \in Seq(Cols) /\ Len(Append(node[a].subs, c)) <= MaxSubs
    BY <1>1, AppendProperties, LenProperties, CollectionRefsAssumption DEF HasRoom
  <1>3. /\ g \in NodeType /\ g.subs = Append(node[a].subs, c) /\ g.refs = node[a].refs
        /\ h \in NodeType /\ h.subs = node[c].subs /\ h.refs = node[c].refs + 1
    <2>1. node[c].refs + 1 \in Nat \ {0}
      BY <1>1
    <2>2. g \in NodeType /\ g.subs = Append(node[a].subs, c) /\ g.refs = node[a].refs
      BY <1>1, <1>2 DEF NodeType
    <2>3. h \in NodeType /\ h.subs = node[c].subs /\ h.refs = node[c].refs + 1
      BY <1>1, <2>1 DEF NodeType
    <2> QED
      BY <2>2, <2>3
  <1>4. node \in [Cols -> NodeType \cup {NULL}]
    BY DEF TypeOK
  <1>5. node'[a] = g /\ node'[c] = h /\ \A x \in Cols : x # a /\ x # c => node'[x] = node[x]
    BY <1>1, <1>4
  <1>6. node' \in [Cols -> NodeType \cup {NULL}]
    <2>1. node' \in [Cols -> {node'[x] : x \in Cols}]
      BY <1>4
    <2>2. \A x \in Cols : node'[x] \in NodeType \cup {NULL}
      BY <1>3, <1>4, <1>5
    <2> QED
      BY <2>1, <2>2
  <1> HIDE DEF g, h
  <1>7. g # NULL /\ h # NULL
    BY <1>3, NullAssumption
  <1>8. Live' = Live
    BY <1>5, <1>7 DEF Live
  <1>9. /\ Subs(a)' = Append(Subs(a), c)
        /\ \A x \in Cols : x # a => Subs(x)' = Subs(x)
    <2>1. Subs(a)' = Append(Subs(a), c)
      BY <1>1, <1>3, <1>5, <1>7 DEF Subs
    <2>2. Subs(c)' = Subs(c)
      BY <1>1, <1>3, <1>5, <1>7 DEF Subs
    <2>3. ASSUME NEW x \in Cols, x # a, x # c PROVE Subs(x)' = Subs(x)
      <3>1. node'[x] = node[x]
        BY <1>5, <2>3
      <3> QED
        BY <3>1 DEF Subs
    <2> QED
      BY <2>1, <2>2, <2>3
  <1>10. \A x \in Live' : Len(node'[x].subs) <= MaxSubs
    BY <1>1, <1>2, <1>3, <1>5, <1>8 DEF TypeOK, Live
  <1>11. /\ node'[c].refs = node[c].refs + 1
         /\ \A x \in Live : x # c => node'[x].refs = node[x].refs
    BY <1>3, <1>5 DEF Live
  <1> QED
    BY <1>6, <1>8, <1>9, <1>10, <1>11 DEF NodeTyped

\* An item is removed.
LEMMA ItemRemoved ==
    ASSUME TypeOK, NEW c \in Live, NEW k \in 1..Len(Subs(c)),
           node' = [node EXCEPT ![c].subs = RemoveAt(@, k)]
    PROVE  /\ NodeTyped' /\ Live' = Live
           /\ Subs(c)' = RemoveAt(Subs(c), k) /\ \A x \in Cols : x # c => Subs(x)' = Subs(x)
           /\ \A x \in Live : node'[x].refs = node[x].refs
  <1> DEFINE h == [node[c] EXCEPT !.subs = RemoveAt(@, k)]
  <1>1. /\ c \in Cols /\ node[c] \in NodeType /\ Subs(c) = node[c].subs /\ Subs(c) \in Seq(Cols)
        /\ Len(Subs(c)) \in Nat /\ Len(Subs(c)) <= MaxSubs
    BY NodeIs DEF Live
  <1>2. RemoveAt(Subs(c), k) \in Seq(Cols) /\ Len(RemoveAt(Subs(c), k)) = Len(Subs(c)) - 1
    BY <1>1, OccRemoveAt
  <1>3. h \in NodeType /\ h.subs = RemoveAt(Subs(c), k) /\ h.refs = node[c].refs
    BY <1>1, <1>2 DEF NodeType
  <1>4. node' = [node EXCEPT ![c] = h]
    OBVIOUS
  <1>5. Len(h.subs) <= MaxSubs
    BY <1>1, <1>2, <1>3, CollectionRefsAssumption
  <1> HIDE DEF h
  <1>6. /\ NodeTyped' /\ Live' = Live /\ node'[c] = h /\ Subs(c)' = h.subs
        /\ \A x \in Cols : x # c => node'[x] = node[x] /\ Subs(x)' = Subs(x)
    BY <1>3, <1>4, <1>5, NodeChanged
  <1>7. \A x \in Live : node'[x].refs = node[x].refs
    BY <1>3, <1>6 DEF Live
  <1> QED
    BY <1>3, <1>6, <1>7

\* A header is freed.
LEMMA NodeFreed ==
    ASSUME TypeOK, NEW c \in Live, node' = [node EXCEPT ![c] = NULL]
    PROVE  /\ NodeTyped' /\ Live' = Live \ {c} /\ Subs(c)' = <<>>
           /\ \A x \in Cols : x # c => node'[x] = node[x] /\ Subs(x)' = Subs(x)
  <1>1. node \in [Cols -> NodeType \cup {NULL}] /\ c \in Cols
    BY DEF TypeOK, Live
  <1>2. node' \in [Cols -> NodeType \cup {NULL}] /\ node'[c] = NULL /\ \A x \in Cols : x # c => node'[x] = node[x]
    BY <1>1
  <1>3. Live' = Live \ {c}
    BY <1>2 DEF Live
  <1>4. Subs(c)' = <<>> /\ \A x \in Cols : x # c => Subs(x)' = Subs(x)
    BY <1>2 DEF Subs
  <1>5. \A x \in Live' : Len(node'[x].subs) <= MaxSubs
    BY <1>2, <1>3 DEF TypeOK, Live
  <1> QED
    BY <1>2, <1>3, <1>4, <1>5 DEF NodeTyped

-----------------------------------------------------------------------------
(* The steps of the invariant                                              *)

\* No copy is under way.
LEMMA NoCopy == copying = <<>> => CopyOK
  <1> SUFFICES ASSUME copying = <<>> PROVE CopyOK
    OBVIOUS
  <1>1. Len(copying) = 0
    OBVIOUS
  <1> QED
    BY <1>1 DEF CopyOK

\* The same of the next state.
LEMMA NoCopyNext == copying' = <<>> => CopyOK'
  <1> SUFFICES ASSUME copying' = <<>> PROVE CopyOK'
    OBVIOUS
  <1>1. Len(copying') = 0
    OBVIOUS
  <1> QED
    BY <1>1 DEF CopyOK

\* Nothing is in a sequence without places.
LEMMA OccNowhere ==
    ASSUME NEW s, DOMAIN s = {}, NEW x
    PROVE  Occurrences(x, s) = 0
  <1>1. {i \in DOMAIN s : s[i] = x} = {}
    OBVIOUS
  <1> QED
    BY <1>1, FS_EmptySet DEF Occurrences

\* Without a copy under way nothing is being built.
LEMMA NoDsts ==
    ASSUME NEW x
    PROVE  /\ copying = <<>> => Occurrences(x, Dsts) = 0
           /\ copying' = <<>> => Occurrences(x, Dsts') = 0
  <1>1. copying = <<>> => DOMAIN Dsts = {}
    BY DEF Dsts
  <1>2. copying' = <<>> => DOMAIN Dsts' = {}
    BY DEF Dsts
  <1> QED
    BY <1>1, <1>2, OccNowhere

\* Everything but the items is as before: no cycle arises.
LEMMA AcyclicSame ==
    ASSUME AcyclicIn(SubsNow), \A x \in Cols : Subs(x)' = Subs(x)
    PROVE  AcyclicIn(SubsNow)'
  BY DEF SubsNow, AcyclicIn

\* col_create_collection: the new collection is its caller's.
LEMMA CreateKeeps ==
    ASSUME IInv, NEW c \in Cols, col_create_collection(c)
    PROVE  IInv'
  <1>1. /\ c \notin Live /\ node' = New(c) /\ held' = [held EXCEPT ![c] = 1]
        /\ todo = <<>> /\ todo' = <<>> /\ copying = <<>> /\ copying' = <<>> /\ failures' = failures
    BY DEF col_create_collection, Idle
  <1>2. TypeOK /\ NoDangling /\ CountSound /\ AcyclicIn(SubsNow) /\ Counted
    BY PointersAre DEF IInv
  <1>3. /\ NodeTyped' /\ Live' = Live \cup {c} /\ node'[c].refs = 1
        /\ \A x \in Cols : Subs(x)' = Subs(x)
        /\ \A x \in Live : node'[x] = node[x]
    BY <1>1, <1>2, NodeMade
  <1>4. TypeOK'
    <2>1. held' \in [Cols -> 0..MaxHeld]
      BY <1>1, <1>2, CollectionRefsAssumption DEF TypeOK
    <2> QED
      BY <1>1, <1>2, <1>3, <2>1 DEF TypeOK, NodeTyped
  <1>5. Counted'
    BY <1>4, PointersAreNext
  <1>6. Pointers(c) = 0 /\ held[c] = 0
    BY <1>1, <1>2, PointedLive DEF NoDangling, Counted
  <1>7. ASSUME NEW x \in Cols PROVE Balanced(x)
    <2>1. Moves(x, c)
      BY <1>2, <1>3, <1>5, CountStep
    <2>2. held'[x] = IF x = c THEN 1 ELSE held[x]
      BY <1>1, <1>2 DEF TypeOK
    <2>3. Occurrences(x, Dsts) = 0 /\ Occurrences(x, Dsts') = 0
      BY <1>1, NoDsts
    <2>4. todo' = todo /\ Subs(c)' = Subs(c)
      BY <1>1, <1>3
    <2>5. Pointers(x)' = IF x = c THEN 1 ELSE Pointers(x)
      BY <1>6, <2>1, <2>2, <2>3, <2>4 DEF Moves
    <2>6. CASE x = c
      BY <1>1, <1>3, <2>5, <2>6 DEF Balanced
    <2>7. CASE x # c
      <3>1. x \in Live => node'[x].refs = node[x].refs
        BY <1>3
      <3>2. x \in Live' <=> x \in Live
        BY <1>3, <2>7
      <3> QED
        BY <1>1, <1>2, <2>5, <2>7, <3>1, <3>2, BalancedKept
    <2> QED
      BY <2>6, <2>7
  <1>8. NoDangling' /\ CountSound'
    BY <1>2, <1>4, <1>7, CountsKept
  <1>9. AcyclicIn(SubsNow)'
    BY <1>2, <1>3, AcyclicSame
  <1> QED
    BY <1>1, <1>4, <1>8, <1>9, NoCopyNext DEF IInv

\* What is in a list after an addition.
LEMMA AppendRange ==
    ASSUME NEW S, NEW s \in Seq(S), NEW e \in S, NEW x \in Range(Append(s, e))
    PROVE  x \in Range(s) \/ x = e
  <1>1. /\ Len(s) \in Nat /\ DOMAIN s = 1..Len(s)
        /\ DOMAIN Append(s, e) = 1..(Len(s) + 1)
        /\ \A i \in 1..Len(s) : Append(s, e)[i] = s[i]
        /\ Append(s, e)[Len(s) + 1] = e
    BY AppendProperties, LenProperties
  <1>2. PICK i \in 1..(Len(s) + 1) : Append(s, e)[i] = x
    BY <1>1 DEF Range
  <1>3. i \in 1..Len(s) \/ i = Len(s) + 1
    BY <1>1
  <1> QED
    BY <1>1, <1>2, <1>3 DEF Range

\* An item of a that points to c closes no cycle if no item leads out of W, and
\* c is in it and a is not.
LEMMA AcyclicAdd ==
    ASSUME TypeOK, AcyclicIn(SubsNow), NEW W \in SUBSET Cols, NEW a \in Cols, a \notin W, NEW c \in W,
           \A d \in W : Range(Subs(d)) \subseteq W,
           Subs(a)' = Append(Subs(a), c), \A d \in Cols : d # a => Subs(d)' = Subs(d)
    PROVE  AcyclicIn(SubsNow)'
  <1>1. PICK old : old = SubsNow
    OBVIOUS
  <1>2. PICK new : new = SubsNow'
    OBVIOUS
  <1>3. \A d \in Cols : old[d] = Subs(d) /\ new[d] = Subs(d)'
    BY <1>1, <1>2 DEF SubsNow
  <1>4. ASSUME NEW d \in Cols, NEW x \in Range(new[d]) PROVE x \in Range(old[d]) \/ (d = a /\ x = c)
    <2>1. CASE d # a
      BY <1>3, <2>1
    <2>2. CASE d = a
      <3>1. Subs(a) \in Seq(Cols) /\ c \in Cols
        BY NodeIs
      <3>2. new[d] = Append(Subs(a), c) /\ old[d] = Subs(a)
        BY <1>3, <2>2
      <3>3. x \in Range(Append(Subs(a), c))
        BY <3>2
      <3> QED
        BY <2>2, <3>1, <3>2, <3>3, AppendRange
    <2> QED
      BY <2>1, <2>2
  <1>5. AcyclicIn(old)
    BY <1>1
  <1>6. ClosedIn(old, W) /\ OneMore(old, new, a, c)
    BY <1>3, <1>4 DEF ClosedIn, OneMore
  <1>7. AcyclicIn(new)
    BY <1>5, <1>6, AcyclicEdge
  <1> QED
    BY <1>2, <1>7 DEF AcyclicIn

\* What a call may take for granted.
LEMMA AtCall ==
    ASSUME IInv, Idle
    PROVE  /\ todo = <<>> /\ copying = <<>>
           /\ TypeOK /\ NoDangling /\ CountSound /\ AcyclicIn(SubsNow) /\ Counted
           /\ Live \subseteq Cols /\ Visible \subseteq Live
           /\ \A c \in Cols : held[c] > 0 => c \in Live
  BY PointersAre, VisibleLive, PointedLive DEF IInv, Idle

\* COL_ADD_MODE_REFERENCE: a new item and a count raised by one.
LEMMA AddReferenceKeeps ==
    ASSUME IInv, NEW a \in Cols, NEW c \in Cols, AddReference(a, c)
    PROVE  IInv'
  <1>1. /\ Idle /\ a \in Visible /\ held[c] > 0 /\ HasRoom(a) /\ a \notin Within(c)
        /\ node' = [node EXCEPT ![a].subs = Append(@, c), ![c].refs = @ + 1]
        /\ held' = held /\ todo' = todo /\ copying' = copying /\ failures' = failures
    BY DEF AddReference
  <1>2. /\ TypeOK /\ NoDangling /\ CountSound /\ AcyclicIn(SubsNow) /\ Counted
        /\ copying = <<>> /\ Live \subseteq Cols /\ a \in Live /\ c \in Live
    BY <1>1, AtCall
  <1>3. /\ c \in Within(c) /\ Within(c) \subseteq Cols
        /\ \A d \in Within(c) : Range(Subs(d)) \subseteq Within(c)
    BY <1>2, WithinClosed
  <1>4. a # c
    BY <1>1, <1>3
  <1>5. /\ NodeTyped' /\ Live' = Live
        /\ Subs(a)' = Append(Subs(a), c) /\ \A x \in Cols : x # a => Subs(x)' = Subs(x)
        /\ node'[c].refs = node[c].refs + 1
        /\ \A x \in Live : x # c => node'[x].refs = node[x].refs
    BY <1>1, <1>2, <1>4, ReferenceAdded
  <1>6. TypeOK' /\ Counted'
    <2>1. TypeOK'
      BY <1>1, <1>2, <1>5 DEF TypeOK, NodeTyped
    <2> QED
      BY <2>1, PointersAreNext
  <1>7. ASSUME NEW x \in Cols PROVE Balanced(x)
    <2>1. Moves(x, a)
      BY <1>2, <1>5, <1>6, CountStep
    <2>2. Occurrences(x, Subs(a)') = Occurrences(x, Subs(a)) + IF c = x THEN 1 ELSE 0
      BY <1>2, <1>5, OccAppend, NodeIs
    <2>3. held' = held /\ todo' = todo /\ Dsts' = Dsts
      BY <1>1 DEF Dsts
    <2>4. Pointers(x)' = Pointers(x) + IF c = x THEN 1 ELSE 0
      BY <2>1, <2>2, <2>3 DEF Moves
    <2>5. CASE x = c
      <3>1. Pointers(x)' = Pointers(x) + 1 /\ node'[x].refs = node[x].refs + 1 /\ x \in Live
        BY <1>2, <1>5, <2>4, <2>5
      <3> QED
        BY <1>1, <1>2, <1>5, <3>1, BalancedMoved
    <2>6. CASE x # c
      <3>1. Pointers(x)' = Pointers(x)
        BY <2>4, <2>6, <2>1 DEF Moves
      <3> QED
        BY <1>1, <1>2, <1>5, <2>6, <3>1, BalancedKept
    <2> QED
      BY <2>5, <2>6
  <1>8. NoDangling' /\ CountSound'
    BY <1>2, <1>6, <1>7, CountsKept
  <1>9. AcyclicIn(SubsNow)'
    <2>1. PICK W : W = Within(c)
      OBVIOUS
    <2> QED
      BY <1>1, <1>2, <1>3, <1>5, <2>1, AcyclicAdd
  <1> QED
    BY <1>1, <1>2, <1>6, <1>8, <1>9, NoCopyNext DEF IInv

\* COL_ADD_MODE_EMBED: the caller's reference becomes the item's.
LEMMA AddEmbeddedKeeps ==
    ASSUME IInv, NEW a \in Cols, NEW c \in Cols, AddEmbedded(a, c)
    PROVE  IInv'
  <1>1. /\ Idle /\ a \in Visible /\ held[c] > 0 /\ HasRoom(a) /\ a \notin Within(c)
        /\ node' = [node EXCEPT ![a].subs = Append(@, c)]
        /\ held' = [held EXCEPT ![c] = @ - 1]
        /\ todo' = todo /\ copying' = copying /\ failures' = failures
    BY DEF AddEmbedded
  <1>2. /\ TypeOK /\ NoDangling /\ CountSound /\ AcyclicIn(SubsNow) /\ Counted
        /\ copying = <<>> /\ Live \subseteq Cols /\ a \in Live /\ c \in Live
    BY <1>1, AtCall
  <1>3. /\ c \in Within(c) /\ Within(c) \subseteq Cols
        /\ \A d \in Within(c) : Range(Subs(d)) \subseteq Within(c)
    BY <1>2, WithinClosed
  <1>4. /\ NodeTyped' /\ Live' = Live
        /\ Subs(a)' = Append(Subs(a), c) /\ \A x \in Cols : x # a => Subs(x)' = Subs(x)
        /\ \A x \in Live : node'[x].refs = node[x].refs
    BY <1>1, <1>2, ItemAdded
  <1>5. TypeOK' /\ Counted'
    <2>1. held' \in [Cols -> 0..MaxHeld]
      BY <1>1, <1>2, CollectionRefsAssumption DEF TypeOK
    <2>2. TypeOK'
      BY <1>1, <1>2, <1>4, <2>1 DEF TypeOK, NodeTyped
    <2> QED
      BY <2>2, PointersAreNext
  <1>6. ASSUME NEW x \in Cols PROVE Balanced(x)
    <2>1. Moves(x, a)
      BY <1>2, <1>4, <1>5, CountStep
    <2>2. Occurrences(x, Subs(a)') = Occurrences(x, Subs(a)) + IF c = x THEN 1 ELSE 0
      BY <1>2, <1>4, OccAppend, NodeIs
    <2>3. held'[x] = held[x] - IF c = x THEN 1 ELSE 0
      <3>1. held \in [Cols -> 0..MaxHeld]
        BY <1>2 DEF TypeOK
      <3>2. held[x] \in Nat
        BY <1>2 DEF Counted
      <3> QED
        BY <1>1, <3>1, <3>2
    <2>4. todo' = todo /\ Dsts' = Dsts
      BY <1>1 DEF Dsts
    <2>5. Pointers(x)' = Pointers(x)
      BY <2>1, <2>2, <2>3, <2>4 DEF Moves
    <2> QED
      BY <1>1, <1>2, <1>4, <2>5, BalancedKept
  <1>7. NoDangling' /\ CountSound'
    BY <1>2, <1>5, <1>6, CountsKept
  <1>8. AcyclicIn(SubsNow)'
    <2>1. PICK W : W = Within(c)
      OBVIOUS
    <2> QED
      BY <1>1, <1>2, <1>3, <1>4, <2>1, AcyclicAdd
  <1> QED
    BY <1>1, <1>2, <1>5, <1>7, <1>8, NoCopyNext DEF IInv

\* col_get_collection_reference: a new handle and a count raised by one.
LEMMA GetReferenceKeeps ==
    ASSUME IInv, NEW c \in Cols, col_get_collection_reference(c)
    PROVE  IInv'
  <1>1. /\ Idle /\ c \in Visible /\ held[c] < MaxHeld
        /\ node' = [node EXCEPT ![c].refs = @ + 1]
        /\ held' = [held EXCEPT ![c] = @ + 1]
        /\ todo' = todo /\ copying' = copying /\ failures' = failures
    BY DEF col_get_collection_reference
  <1>2. /\ TypeOK /\ NoDangling /\ CountSound /\ AcyclicIn(SubsNow) /\ Counted
        /\ copying = <<>> /\ Live \subseteq Cols /\ c \in Live
    BY <1>1, AtCall
  <1>3. /\ NodeTyped' /\ Live' = Live /\ node'[c].refs = node[c].refs + 1
        /\ \A x \in Cols : Subs(x)' = Subs(x)
        /\ \A x \in Cols : x # c => node'[x] = node[x]
    <2>1. PICK n \in Nat \ {0} : n = node[c].refs + 1
      BY <1>2, RefsNat
    <2>2. node' = [node EXCEPT ![c].refs = n]
      BY <1>1, <2>1
    <2> QED
      BY <1>2, <2>1, <2>2, RefsChanged
  <1>4. TypeOK' /\ Counted'
    <2>1. held' \in [Cols -> 0..MaxHeld]
      <3>1. held \in [Cols -> 0..MaxHeld] /\ held[c] \in 0..MaxHeld
        BY <1>2 DEF TypeOK
      <3>2. held[c] + 1 \in 0..MaxHeld
        BY <1>1, <3>1, CollectionRefsAssumption
      <3> QED
        BY <1>1, <3>1, <3>2
    <2>2. TypeOK'
      BY <1>1, <1>2, <1>3, <2>1 DEF TypeOK, NodeTyped
    <2> QED
      BY <2>2, PointersAreNext
  <1>5. ASSUME NEW x \in Cols PROVE Balanced(x)
    <2>1. Moves(x, c)
      BY <1>2, <1>3, <1>4, CountStep
    <2>2. held'[x] = held[x] + IF c = x THEN 1 ELSE 0
      <3>1. held \in [Cols -> 0..MaxHeld]
        BY <1>2 DEF TypeOK
      <3>2. held[x] \in Nat
        BY <1>2 DEF Counted
      <3> QED
        BY <1>1, <3>1, <3>2
    <2>3. todo' = todo /\ Dsts' = Dsts /\ Subs(c)' = Subs(c)
      BY <1>1, <1>3 DEF Dsts
    <2>4. Pointers(x)' = Pointers(x) + IF c = x THEN 1 ELSE 0
      BY <2>1, <2>2, <2>3 DEF Moves
    <2>5. CASE x = c
      <3>1. Pointers(x)' = Pointers(x) + 1 /\ node'[x].refs = node[x].refs + 1 /\ x \in Live
        BY <1>2, <1>3, <2>4, <2>5
      <3> QED
        BY <1>1, <1>2, <1>3, <3>1, BalancedMoved
    <2>6. CASE x # c
      <3>1. Pointers(x)' = Pointers(x) /\ node'[x].refs = node[x].refs
        BY <1>3, <2>4, <2>6, <2>1 DEF Moves
      <3> QED
        BY <1>1, <1>2, <1>3, <3>1, BalancedKept
    <2> QED
      BY <2>5, <2>6
  <1>6. NoDangling' /\ CountSound'
    BY <1>2, <1>4, <1>5, CountsKept
  <1>7. AcyclicIn(SubsNow)'
    BY <1>2, <1>3, AcyclicSame
  <1> QED
    BY <1>1, <1>2, <1>4, <1>6, <1>7, NoCopyNext DEF IInv

\* The headers are as before.
LEMMA NodesSame ==
    ASSUME node' = node
    PROVE  /\ Live' = Live /\ (NodeTyped => NodeTyped')
           /\ \A x \in Cols : Subs(x)' = Subs(x)
  BY DEF Live, Subs, NodeTyped

\* col_destroy_collection: the handle becomes a destroy call to be made.
LEMMA DestroyKeeps ==
    ASSUME IInv, NEW c \in Cols, col_destroy_collection(c)
    PROVE  IInv'
  <1>1. /\ Idle /\ held[c] > 0
        /\ held' = [held EXCEPT ![c] = @ - 1] /\ todo' = <<c>>
        /\ node' = node /\ copying' = copying /\ failures' = failures
    BY DEF col_destroy_collection
  <1>2. /\ TypeOK /\ NoDangling /\ CountSound /\ AcyclicIn(SubsNow) /\ Counted
        /\ todo = <<>> /\ copying = <<>>
    BY <1>1, AtCall
  <1>3. Live' = Live /\ NodeTyped' /\ \A x \in Cols : Subs(x)' = Subs(x)
    BY <1>1, <1>2, NodesSame DEF NodeTyped, TypeOK
  <1>4. TypeOK' /\ Counted'
    <2>1. held' \in [Cols -> 0..MaxHeld]
      BY <1>1, <1>2, CollectionRefsAssumption DEF TypeOK
    <2>2. todo' \in Seq(Cols)
      BY <1>1
    <2>3. TypeOK'
      BY <1>1, <1>2, <1>3, <2>1, <2>2 DEF TypeOK, NodeTyped
    <2> QED
      BY <2>3, PointersAreNext
  <1>5. ASSUME NEW x \in Cols PROVE Balanced(x)
    <2>1. Moves(x, c)
      BY <1>2, <1>3, <1>4, CountStep
    <2>2. held'[x] = held[x] - IF c = x THEN 1 ELSE 0
      <3>1. held \in [Cols -> 0..MaxHeld]
        BY <1>2 DEF TypeOK
      <3>2. held[x] \in Nat
        BY <1>2 DEF Counted
      <3> QED
        BY <1>1, <3>1, <3>2
    <2>3. Occurrences(x, todo) = 0 /\ Occurrences(x, todo') = IF c = x THEN 1 ELSE 0
      BY <1>1, <1>2, OccEmpty, OccOne
    <2>4. Dsts' = Dsts /\ Subs(c)' = Subs(c)
      BY <1>1, <1>3 DEF Dsts
    <2>5. Pointers(x)' = Pointers(x)
      BY <2>1, <2>2, <2>3, <2>4 DEF Moves
    <2> QED
      BY <1>1, <1>2, <1>3, <2>5, BalancedKept
  <1>6. NoDangling' /\ CountSound'
    BY <1>2, <1>4, <1>5, CountsKept
  <1>7. AcyclicIn(SubsNow)'
    BY <1>2, <1>3, AcyclicSame
  <1> QED
    BY <1>1, <1>2, <1>4, <1>6, <1>7, NoCopyNext DEF IInv

\* Nothing is new in a list after a removal.
LEMMA RemoveRange ==
    ASSUME NEW S, NEW s \in Seq(S), NEW k \in 1..Len(s)
    PROVE  Range(RemoveAt(s, k)) \subseteq Range(s)
  <1> SUFFICES ASSUME NEW x \in Range(RemoveAt(s, k)) PROVE x \in Range(s)
    OBVIOUS
  <1>1. PICK t : t = RemoveAt(s, k)
    OBVIOUS
  <1>2. t \in Seq(S) /\ Occurrences(x, s) = Occurrences(x, t) + IF s[k] = x THEN 1 ELSE 0
    BY <1>1, OccRemoveAt
  <1>3. Occurrences(x, t) # 0
    <2>1. PICK i \in DOMAIN t : t[i] = x
      BY <1>1 DEF Range
    <2>2. i \in 1..Len(t)
      BY <1>2, <2>1, LenProperties
    <2> QED
      BY <1>2, <2>1, <2>2, OccPositive
  <1>4. Occurrences(x, t) \in Nat /\ Occurrences(x, s) \in Nat
    BY <1>2, SpotsFinite
  <1>5. Occurrences(x, s) # 0
    BY <1>2, <1>3, <1>4
  <1>6. PICK i \in 1..Len(s) : s[i] = x
    BY <1>5, OccPositive
  <1> QED
    BY <1>6, LenProperties DEF Range

\* col_delete_item: the item becomes a destroy call to be made.
LEMMA DeleteItemKeeps ==
    ASSUME IInv, NEW c \in Cols, NEW k, col_delete_item(c, k)
    PROVE  IInv'
  <1>1. /\ Idle /\ c \in Visible /\ k \in DOMAIN node[c].subs
        /\ node' = [node EXCEPT ![c].subs = RemoveAt(@, k)]
        /\ todo' = <<node[c].subs[k]>>
        /\ held' = held /\ copying' = copying /\ failures' = failures
    BY DEF col_delete_item
  <1>2. /\ TypeOK /\ NoDangling /\ CountSound /\ AcyclicIn(SubsNow) /\ Counted
        /\ todo = <<>> /\ copying = <<>> /\ c \in Live
    BY <1>1, AtCall
  <1>3. Subs(c) = node[c].subs /\ Subs(c) \in Seq(Cols) /\ k \in 1..Len(Subs(c))
    BY <1>1, <1>2, NodeIs
  <1>4. PICK e \in Cols : e = Subs(c)[k]
    BY <1>3, ElementOfSeq
  <1>5. todo' = <<e>>
    BY <1>1, <1>3, <1>4
  <1>6. /\ NodeTyped' /\ Live' = Live
        /\ Subs(c)' = RemoveAt(Subs(c), k) /\ \A x \in Cols : x # c => Subs(x)' = Subs(x)
        /\ \A x \in Live : node'[x].refs = node[x].refs
    BY <1>1, <1>2, <1>3, ItemRemoved
  <1>7. TypeOK' /\ Counted'
    <2>1. todo' \in Seq(Cols)
      BY <1>5
    <2>2. TypeOK'
      BY <1>1, <1>2, <1>6, <2>1 DEF TypeOK, NodeTyped
    <2> QED
      BY <2>2, PointersAreNext
  <1>8. ASSUME NEW x \in Cols PROVE Balanced(x)
    <2>1. Moves(x, c)
      BY <1>2, <1>6, <1>7, CountStep
    <2>2. Occurrences(x, Subs(c)) = Occurrences(x, Subs(c)') + IF e = x THEN 1 ELSE 0
      BY <1>3, <1>4, <1>6, OccRemoveAt
    <2>3. Occurrences(x, todo) = 0 /\ Occurrences(x, todo') = IF e = x THEN 1 ELSE 0
      BY <1>2, <1>5, OccEmpty, OccOne
    <2>4. Dsts' = Dsts /\ held' = held
      BY <1>1 DEF Dsts
    <2>5. Pointers(x)' = Pointers(x)
      BY <2>1, <2>2, <2>3, <2>4 DEF Moves
    <2> QED
      BY <1>1, <1>2, <1>6, <2>5, BalancedKept
  <1>9. NoDangling' /\ CountSound'
    BY <1>2, <1>7, <1>8, CountsKept
  <1>10. AcyclicIn(SubsNow)'
    <2>1. PICK old : old = SubsNow
      OBVIOUS
    <2>2. PICK new : new = SubsNow'
      OBVIOUS
    <2>3. Range(RemoveAt(Subs(c), k)) \subseteq Range(Subs(c))
      BY <1>3, RemoveRange
    <2>4. \A d \in Cols : old[d] = Subs(d) /\ new[d] = Subs(d)'
      BY <2>1, <2>2 DEF SubsNow
    <2>5. \A d \in Cols : Range(new[d]) \subseteq Range(old[d])
      BY <1>6, <2>3, <2>4
    <2>6. AcyclicIn(old)
      BY <1>2, <2>1
    <2>7. AcyclicIn(new)
      BY <2>5, <2>6, AcyclicShrinks
    <2> QED
      BY <2>2, <2>7 DEF AcyclicIn
  <1> QED
    BY <1>1, <1>2, <1>7, <1>9, <1>10, NoCopyNext DEF IInv

\* A step that only removes items makes no cycle.
LEMMA AcyclicFewer ==
    ASSUME AcyclicIn(SubsNow), \A d \in Cols : Range(Subs(d)') \subseteq Range(Subs(d))
    PROVE  AcyclicIn(SubsNow)'
  <1>1. PICK old : old = SubsNow
    OBVIOUS
  <1>2. PICK new : new = SubsNow'
    OBVIOUS
  <1>3. \A d \in Cols : Range(new[d]) \subseteq Range(old[d])
    BY <1>1, <1>2 DEF SubsNow
  <1>4. AcyclicIn(new)
    BY <1>1, <1>3, AcyclicShrinks
  <1> QED
    BY <1>2, <1>4 DEF AcyclicIn

Destroys(c) == copying = <<>> /\ c = Head(todo)
Shared(c) == node[c].refs > 1

\* The call that destroys c returns at once: a reference is left.
LEMMA DestroyLeavesKeeps ==
    ASSUME IInv, DestroyStep, NEW c \in Live, Destroys(c), Shared(c)
    PROVE  IInv'
  <1>0. /\ todo # <<>> /\ copying = <<>> /\ c = Head(todo) /\ node[c].refs > 1
        /\ node' = [node EXCEPT ![c].refs = @ - 1] /\ todo' = Tail(todo)
        /\ held' = held /\ copying' = copying /\ failures' = failures
    BY DEF DestroyStep, DestroyOne, Destroys, Shared
  <1>1. /\ TypeOK /\ NoDangling /\ CountSound /\ AcyclicIn(SubsNow) /\ Counted
        /\ todo \in Seq(Cols) /\ c \in Cols
    BY PointersAre DEF IInv, TypeOK, Live
  <1>2. /\ NodeTyped' /\ Live' = Live /\ node'[c].refs = node[c].refs - 1
        /\ \A x \in Cols : Subs(x)' = Subs(x)
        /\ \A x \in Cols : x # c => node'[x] = node[x]
    <2>1. PICK n \in Nat \ {0} : n = node[c].refs - 1
      BY <1>0, <1>1, RefsNat
    <2>2. node' = [node EXCEPT ![c].refs = n]
      BY <1>0, <2>1
    <2> QED
      BY <1>1, <2>1, <2>2, RefsChanged
  <1>3. TypeOK' /\ Counted'
    <2>1. todo' \in Seq(Cols)
      BY <1>0, <1>1, OccTail
    <2>2. TypeOK'
      BY <1>0, <1>1, <1>2, <2>1 DEF TypeOK, NodeTyped
    <2> QED
      BY <2>2, PointersAreNext
  <1>4. ASSUME NEW x \in Cols PROVE Balanced(x)
    <2>1. Moves(x, c)
      BY <1>1, <1>2, <1>3, CountStep
    <2>2. Occurrences(x, todo) = Occurrences(x, todo') + IF c = x THEN 1 ELSE 0
      BY <1>0, <1>1, OccTail
    <2>3. held' = held /\ Dsts' = Dsts /\ Subs(c)' = Subs(c)
      <3>1. copying' = copying /\ held' = held
        BY <1>0
      <3>2. Dsts' = Dsts
        BY <3>1 DEF Dsts
      <3> QED
        BY <1>1, <1>2, <3>1, <3>2
    <2>4. Pointers(x)' = Pointers(x) - IF c = x THEN 1 ELSE 0
      BY <2>1, <2>2, <2>3 DEF Moves
    <2>5. CASE x = c
      <3>1. Pointers(x)' = Pointers(x) - 1 /\ node'[x].refs = node[x].refs - 1 /\ x \in Live
        BY <1>1, <1>2, <2>4, <2>5
      <3> QED
        BY <1>0, <1>1, <1>2, <3>1, BalancedMoved
    <2>6. CASE x # c
      <3>1. Pointers(x)' = Pointers(x) /\ node'[x].refs = node[x].refs
        BY <1>2, <2>4, <2>6, <2>1 DEF Moves
      <3> QED
        BY <1>0, <1>1, <1>2, <3>1, BalancedKept
    <2> QED
      BY <2>5, <2>6
  <1>5. NoDangling' /\ CountSound'
    BY <1>1, <1>3, <1>4, CountsKept
  <1>6. AcyclicIn(SubsNow)'
    BY <1>1, <1>2, AcyclicSame
  <1> QED
    BY <1>0, <1>3, <1>5, <1>6, NoCopyNext DEF IInv

\* References when a header goes: those of its items become destroy calls.
LEMMA MovesFreed ==
    ASSUME NEW x, NEW d, Moves(x, d), NEW n \in Nat, NEW m \in Nat,
           held'[x] = held[x], Occurrences(x, Dsts') = Occurrences(x, Dsts),
           Occurrences(x, Subs(d)') = 0, Occurrences(x, todo) = n + m,
           Occurrences(x, todo') = Occurrences(x, Subs(d)) + n
    PROVE  Pointers(x)' = Pointers(x) - m
  BY DEF Moves

\* The call deletes c and leaves the calls for its items to be made.
LEMMA DestroyFreesKeeps ==
    ASSUME IInv, DestroyStep, NEW c \in Live, Destroys(c), ~Shared(c)
    PROVE  IInv'
  <1>0. /\ todo # <<>> /\ copying = <<>> /\ c = Head(todo) /\ ~(node[c].refs > 1)
        /\ node' = [node EXCEPT ![c] = NULL] /\ todo' = Reverse(node[c].subs) \o Tail(todo)
        /\ held' = held /\ copying' = copying /\ failures' = failures
    BY DEF DestroyStep, DestroyOne, Destroys, Shared
  <1>1. /\ TypeOK /\ NoDangling /\ CountSound /\ AcyclicIn(SubsNow) /\ Counted
        /\ todo \in Seq(Cols) /\ c \in Cols
    BY PointersAre DEF IInv, TypeOK, Live
  <1>2. Subs(c) = node[c].subs /\ Subs(c) \in Seq(Cols)
    BY <1>1, NodeIs
  <1>3. /\ NodeTyped' /\ Live' = Live \ {c} /\ Subs(c)' = <<>>
        /\ \A x \in Cols : x # c => node'[x] = node[x] /\ Subs(x)' = Subs(x)
    BY <1>0, <1>1, NodeFreed
  <1>4. PICK t \in Seq(Cols) : t = Tail(todo)
    BY <1>0, <1>1, OccTail
  <1>5. PICK r \in Seq(Cols) : r = Reverse(Subs(c))
    BY <1>2, OccReverse
  <1>6. todo' = r \o t
    BY <1>0, <1>2, <1>4, <1>5
  <1>7. TypeOK' /\ Counted'
    <2>1. todo' \in Seq(Cols)
      BY <1>6, ConcatProperties
    <2>2. TypeOK'
      BY <1>0, <1>1, <1>3, <2>1 DEF TypeOK, NodeTyped
    <2> QED
      BY <2>2, PointersAreNext
  <1>8. ASSUME NEW x \in Cols PROVE Balanced(x)
    <2>1. Moves(x, c)
      BY <1>1, <1>3, <1>7, CountStep
    <2>2. Occurrences(x, todo) = Occurrences(x, t) + IF c = x THEN 1 ELSE 0
      BY <1>0, <1>1, <1>4, OccTail
    <2>3. Occurrences(x, todo') = Occurrences(x, Subs(c)) + Occurrences(x, t)
      <3>1. Occurrences(x, r \o t) = Occurrences(x, r) + Occurrences(x, t)
        BY OccConcat
      <3>2. Occurrences(x, r) = Occurrences(x, Subs(c))
        BY <1>2, <1>5, OccReverse
      <3> QED
        BY <1>6, <3>1, <3>2
    <2>4. Occurrences(x, Subs(c)') = 0 /\ Occurrences(x, t) \in Nat
      BY <1>3, OccEmpty, SpotsFinite
    <2>5. held' = held /\ Dsts' = Dsts
      BY <1>0 DEF Dsts
    <2>6. Pointers(x)' = Pointers(x) - IF c = x THEN 1 ELSE 0
      <3>1. PICK m \in Nat : m = IF c = x THEN 1 ELSE 0
        OBVIOUS
      <3>2. PICK n \in Nat : n = Occurrences(x, t)
        BY <2>4
      <3>3. Occurrences(x, todo) = n + m /\ Occurrences(x, todo') = Occurrences(x, Subs(c)) + n
        BY <2>2, <2>3, <3>1, <3>2
      <3>4. held'[x] = held[x] /\ Occurrences(x, Dsts') = Occurrences(x, Dsts)
        BY <2>5
      <3>5. Pointers(x)' = Pointers(x) - m
        BY <2>1, <2>4, <3>3, <3>4, MovesFreed
      <3> QED
        BY <3>1, <3>5
    <2>7. CASE x = c
      <3>1. Pointers(x) <= 1
        <4>1. node[c].refs >= Pointers(c) /\ node[c].refs \in Nat /\ Pointers(c) \in Nat
          BY <1>1, RefsNat DEF CountSound, Counted
        <4> QED
          BY <1>0, <2>7, <4>1
      <3>2. Pointers(x)' = 0
        BY <2>1, <2>6, <2>7, <3>1 DEF Moves
      <3> QED
        BY <1>3, <2>7, <3>2 DEF Balanced
    <2>8. CASE x # c
      <3>1. Pointers(x)' = Pointers(x) /\ node'[x].refs = node[x].refs
        <4>1. Pointers(x) \in Nat
          BY <1>1 DEF Counted
        <4>2. Pointers(x)' = Pointers(x)
          BY <2>6, <2>8, <4>1
        <4> QED
          BY <1>3, <2>8, <4>2
      <3>2. x \in Live' <=> x \in Live
        BY <1>3, <2>8
      <3> QED
        BY <1>0, <1>1, <3>1, <3>2, BalancedKept
    <2> QED
      BY <2>7, <2>8
  <1>9. NoDangling' /\ CountSound'
    BY <1>1, <1>7, <1>8, CountsKept
  <1>10. AcyclicIn(SubsNow)'
    <2>1. ASSUME NEW d \in Cols PROVE Range(Subs(d)') \subseteq Range(Subs(d))
      <3>1. CASE d = c
        <4>1. Range(<<>>) = {}
          BY DEF Range
        <4> QED
          BY <1>3, <3>1, <4>1
      <3>2. CASE d # c
        BY <1>3, <3>2
      <3> QED
        BY <3>1, <3>2
    <2> QED
      BY <1>1, <2>1, AcyclicFewer
  <1> QED
    BY <1>0, <1>7, <1>9, <1>10, NoCopyNext DEF IInv

\* One activation of col_destroy_collection_with_cb, in both its outcomes.
LEMMA DestroyStepKeeps ==
    ASSUME IInv, DestroyStep
    PROVE  IInv'
  <1>1. TypeOK /\ NoDangling /\ CopyOK /\ todo # <<>> /\ todo \in Seq(Cols)
    BY DEF IInv, DestroyStep, TypeOK
  <1>2. copying = <<>>
    BY <1>1 DEF CopyOK
  <1>3. PICK c \in Live : c = Head(todo)
    <2>1. 1 \in 1..Len(todo) /\ Head(todo) = todo[1]
      BY <1>1, EmptySeq, HeadTailProperties
    <2> QED
      BY <1>1, <2>1, PointedLive
  <1>4. Destroys(c)
    BY <1>2, <1>3 DEF Destroys
  <1> QED
    BY <1>3, <1>4, DestroyLeavesKeeps, DestroyFreesKeeps

-----------------------------------------------------------------------------
(* The steps of the copy                                                   *)

\* Every level destroys what it was building.
LEMMA UnwoundIs ==
    ASSUME TypeOK, copying # <<>>, NEW x \in Cols
    PROVE  /\ Unwound \in Seq(Cols) /\ Occurrences(x, Unwound) = Occurrences(x, Dsts)
           /\ Tail(Unwound) \in Seq(Cols) /\ Occurrences(x, Tail(Unwound)) <= Occurrences(x, Dsts)
  <1> DEFINE n == Len(copying)
  <1>1. n \in Nat /\ n >= 1 /\ copying \in Seq(FrameType)
    BY FrameIs DEF TypeOK
  <1>2. Dsts \in Seq(Cols) /\ Len(Dsts) = n
    BY <1>1, PointersAre DEF Counted, Dsts
  <1>3. Unwound = Reverse(Dsts)
    <2>1. Unwound = [i \in 1..n |-> Reverse(copying)[i].dst]
      BY DEF Unwound
    <2>2. Reverse(copying) = [i \in 1..n |-> copying[(n - i) + 1]]
      BY DEF Reverse
    <2>3. Reverse(Dsts) = [i \in 1..n |-> Dsts[(n - i) + 1]]
      BY <1>2 DEF Reverse
    <2>4. \A i \in 1..n : (n - i) + 1 \in 1..n
      BY <1>1
    <2>5. \A i \in 1..n : Dsts[i] = copying[i].dst
      BY DEF Dsts
    <2> HIDE DEF n
    <2>6. \A i \in 1..n : Reverse(copying)[i].dst = Dsts[(n - i) + 1]
      BY <2>2, <2>4, <2>5
    <2> QED
      BY <2>1, <2>3, <2>6
  <1>4. PICK d \in Seq(Cols) : d = Dsts
    BY <1>2
  <1>5. PICK u : u = Unwound
    OBVIOUS
  <1>6. u \in Seq(Cols) /\ Occurrences(x, u) = Occurrences(x, d)
    BY <1>3, <1>4, <1>5, OccReverse
  <1>7. Len(u) = n
    BY <1>1, <1>5 DEF Unwound
  <1> HIDE DEF n
  <1>8. u # <<>>
    BY <1>1, <1>6, <1>7
  <1>9. Tail(u) \in Seq(Cols) /\ Occurrences(x, u) = Occurrences(x, Tail(u)) + IF Head(u) = x THEN 1 ELSE 0
    BY <1>6, <1>8, OccTail
  <1>10. Occurrences(x, Tail(u)) \in Nat
    BY <1>9, SpotsFinite
  <1>11. Occurrences(x, Tail(u)) <= Occurrences(x, u)
    BY <1>9, <1>10
  <1> QED
    BY <1>4, <1>5, <1>6, <1>9, <1>11

\* A copy gives up: what it was building is to be destroyed, or some of it is
\* left with nobody.  A count may have been raised.
GivesUp(td) ==
    /\ copying # <<>> /\ copying' = <<>> /\ todo' = td /\ held' = held
    /\ failures' \in 0..MaxFailures
    /\ td \in Seq(Cols) /\ \A x \in Cols : Occurrences(x, td) <= Occurrences(x, Dsts)
    /\ NodeTyped' /\ Live' = Live /\ \A x \in Cols : Subs(x)' = Subs(x)
    /\ \A x \in Live : node'[x].refs \in Nat /\ node'[x].refs >= node[x].refs
    /\ \/ failures' = failures + 1
       \/ /\ failures' = failures /\ node' = node
          /\ \A x \in Cols : Occurrences(x, td) = Occurrences(x, Dsts)

\* After a failed copy no count is below its references.
LEMMA GiveUpKeeps ==
    ASSUME IInv, NEW td, GivesUp(td)
    PROVE  IInv'
  <1>1. /\ TypeOK /\ NoDangling /\ CountSound /\ AcyclicIn(SubsNow) /\ Counted
        /\ CopyOK
    BY PointersAre DEF IInv
  <1>2. /\ copying # <<>> /\ copying' = <<>> /\ todo' = td /\ held' = held
        /\ failures' \in 0..MaxFailures /\ td \in Seq(Cols)
        /\ NodeTyped' /\ Live' = Live /\ \A x \in Cols : Subs(x)' = Subs(x)
    BY DEF GivesUp
  <1>3. TypeOK' /\ Counted'
    <2>1. copying' \in Seq(FrameType)
      BY <1>2
    <2>2. held' \in [Cols -> 0..MaxHeld]
      BY <1>1, <1>2 DEF TypeOK
    <2>3. TypeOK'
      BY <1>2, <2>1, <2>2 DEF TypeOK, NodeTyped
    <2> QED
      BY <2>3, PointersAreNext
  <1>4. todo = <<>>
    BY <1>1, <1>2 DEF CopyOK
  <1>5. ASSUME NEW x \in Cols PROVE Balanced(x)
    <2>1. Moves(x, x)
      BY <1>1, <1>2, <1>3, CountStep
    <2>2. Occurrences(x, todo) = 0 /\ Occurrences(x, Dsts') = 0
      BY <1>2, <1>4, OccEmpty, NoDsts
    <2>3. held'[x] = held[x] /\ Occurrences(x, Subs(x)') = Occurrences(x, Subs(x))
      BY <1>2
    <2>4. Pointers(x)' + Occurrences(x, Dsts) = Pointers(x) + Occurrences(x, todo')
      BY <2>1, <2>2, <2>3 DEF Moves
    <2>5. /\ Pointers(x) \in Nat /\ Pointers(x)' \in Nat
          /\ Occurrences(x, Dsts) \in Nat /\ Occurrences(x, todo') \in Nat
      BY <2>1 DEF Moves
    <2>6. Occurrences(x, todo') <= Occurrences(x, Dsts)
      BY <1>2 DEF GivesUp
    <2>7. Pointers(x)' <= Pointers(x)
      BY <2>4, <2>5, <2>6
    <2>8. failures \in Nat
      BY <1>1, CollectionRefsAssumption DEF TypeOK
    <2>9. CASE x \notin Live
      <3>1. Pointers(x) = 0
        BY <1>1, <2>9 DEF NoDangling
      <3>2. Pointers(x)' = 0
        BY <2>5, <2>7, <3>1
      <3> QED
        BY <1>2, <2>9, <3>2 DEF Balanced
    <2>10. CASE x \in Live
      <3>1. node[x].refs \in Nat /\ node'[x].refs \in Nat /\ node'[x].refs >= node[x].refs
        BY <1>1, <2>10, RefsNat DEF GivesUp
      <3>2. node'[x].refs + Pointers(x) >= node[x].refs + Pointers(x)'
        BY <2>5, <2>7, <3>1
      <3>3. CASE failures' = failures + 1
        <4>1. failures' # 0
          BY <2>8, <3>3
        <4> QED
          BY <1>2, <2>10, <3>2, <4>1 DEF Balanced
      <3>4. CASE failures' # failures + 1
        <4>1. failures' = failures /\ node' = node /\ Occurrences(x, todo') = Occurrences(x, Dsts)
          BY <1>2, <3>4 DEF GivesUp
        <4>2. Pointers(x)' = Pointers(x)
          BY <2>4, <2>5, <4>1
        <4> QED
          BY <1>1, <1>2, <4>1, <4>2, BalancedKept
      <3> QED
        BY <3>3, <3>4
    <2> QED
      BY <2>9, <2>10
  <1>6. NoDangling' /\ CountSound'
    BY <1>1, <1>3, <1>5, CountsKept
  <1>7. AcyclicIn(SubsNow)'
    BY <1>1, <1>2, AcyclicSame
  <1> QED
    BY <1>2, <1>3, <1>6, <1>7, NoCopyNext DEF IInv

\* The innermost activation.
LEMMA TopIs ==
    ASSUME IInv, copying # <<>>
    PROVE  /\ Len(copying) \in Nat /\ Len(copying) >= 1 /\ Len(copying) \in 1..Len(copying)
           /\ Top = copying[Len(copying)] /\ Top \in FrameType
           /\ Top.src \in Live /\ Top.dst \in Live /\ Top.src # Top.dst
           /\ node[Top.dst].refs = 1 /\ Len(Subs(Top.dst)) = Top.at
           /\ node[Top.src].subs = Subs(Top.src) /\ Live \subseteq Cols
           /\ Pending <=> Top.at < Len(Subs(Top.src))
           /\ Pending => /\ NextSub \in Live /\ NextSub = Subs(Top.src)[Top.at + 1]
                         /\ NextSub \in Range(Subs(Top.src)) /\ HasRoom(Top.dst)
  <1>1. TypeOK /\ NoDangling /\ CopyOK
    BY DEF IInv
  <1>2. PICK n \in Nat : n = Len(copying)
    BY <1>1, FrameIs
  <1>3. n >= 1 /\ n \in 1..Len(copying)
    BY <1>1, <1>2, FrameIs
  <1>4. PICK f \in FrameType : f = copying[n]
    BY <1>1, <1>2, <1>3, FrameIs
  <1>5. Top = f
    BY <1>2, <1>4 DEF Top
  <1>6. FrameOK(n) /\ f.dst \in Live
    BY <1>1, <1>3, <1>4, PointedLive DEF CopyOK
  <1>7. /\ f.src \in Live /\ f.src # f.dst /\ node[f.dst].refs = 1
        /\ Len(Subs(f.dst)) = f.at
    BY <1>4, <1>6 DEF FrameOK
  <1>8. /\ Live \subseteq Cols /\ f.src \in Cols /\ f.dst \in Cols
        /\ f.at \in Nat /\ MaxSubs \in Nat
    BY CollectionRefsAssumption DEF FrameType, Live
  <1>9. /\ node[f.src].subs = Subs(f.src) /\ node[f.dst].subs = Subs(f.dst)
        /\ Len(Subs(f.src)) \in Nat /\ Len(Subs(f.src)) <= MaxSubs
        /\ DOMAIN Subs(f.src) = 1..Len(Subs(f.src))
    BY <1>1, <1>6, <1>7, <1>8, NodeIs
  <1>10. Pending <=> f.at < Len(Subs(f.src))
    BY <1>5, <1>9 DEF Pending
  <1>11. ASSUME Pending
         PROVE  /\ NextSub \in Live /\ NextSub = Subs(f.src)[f.at + 1]
                /\ NextSub \in Range(Subs(f.src)) /\ HasRoom(f.dst)
    <2>1. f.at + 1 \in DOMAIN Subs(f.src) /\ f.at < MaxSubs
      BY <1>8, <1>9, <1>10, <1>11
    <2>2. NextSub = Subs(f.src)[f.at + 1]
      BY <1>5, <1>9 DEF NextSub
    <2>3. NextSub \in Range(Subs(f.src))
      BY <2>1, <2>2 DEF Range
    <2>4. NextSub \in Live
      BY <1>1, <1>8, <2>3, PointedLive
    <2>5. HasRoom(f.dst)
      BY <1>7, <1>9, <2>1 DEF HasRoom
    <2> QED
      BY <2>2, <2>3, <2>4, <2>5
  <1> QED
    BY <1>2, <1>3, <1>4, <1>5, <1>6, <1>7, <1>8, <1>9, <1>10, <1>11

\* A copy fails at a data item or for want of memory.
LEMMA CopyFailsKeeps ==
    ASSUME IInv, CopyFails
    PROVE  IInv'
  <1>1. TypeOK /\ copying # <<>> /\ node' = node /\ held' = held
    BY DEF IInv, CopyFails
  <1>2. copying' = <<>> /\ todo' = Unwound
    BY DEF CopyFails, Fail
  <1>3. failures' = failures \/ (failures' = failures + 1 /\ failures < MaxFailures)
    BY DEF CopyFails, Fail
  <1>4. PICK td : td = Unwound
    OBVIOUS
  <1>5. td \in Seq(Cols) /\ \A x \in Cols : Occurrences(x, td) = Occurrences(x, Dsts)
    <2>1. \A x \in Cols : Occurrences(x, td) = Occurrences(x, Dsts)
      BY <1>1, <1>4, UnwoundIs
    <2>2. td \in Seq(Cols)
      <3>1. copying[Len(copying)].dst \in Cols
        BY <1>1, FrameIs
      <3> QED
        BY <1>1, <1>4, <3>1, UnwoundIs
    <2> QED
      BY <2>1, <2>2
  <1>6. \A x \in Cols : Occurrences(x, Dsts) \in Nat
    BY <1>1, PointersAre DEF Counted
  <1>7. \A x \in Cols : Occurrences(x, td) <= Occurrences(x, Dsts)
    BY <1>5, <1>6
  <1>8. failures' \in 0..MaxFailures
    BY <1>1, <1>3, CollectionRefsAssumption DEF TypeOK
  <1>9. NodeTyped' /\ Live' = Live /\ \A x \in Cols : Subs(x)' = Subs(x)
    BY <1>1, NodesSame DEF TypeOK, NodeTyped
  <1>10. \A x \in Live : node'[x].refs \in Nat /\ node'[x].refs >= node[x].refs
    BY <1>1, RefsNat
  <1>11. GivesUp(td)
    BY <1>1, <1>2, <1>3, <1>4, <1>5, <1>7, <1>8, <1>9, <1>10 DEF GivesUp
  <1> QED
    BY <1>11, GiveUpKeeps

\* A count was raised for an item that could not be made.
LEMMA KeepRefFailsKeeps ==
    ASSUME IInv, failures < MaxFailures, KeepRef(FALSE)
    PROVE  IInv'
  <1>1. TypeOK /\ copying # <<>> /\ Pending /\ held' = held
    BY DEF IInv, KeepRef
  <1>2. copying' = <<>> /\ todo' = Unwound /\ failures' = failures + 1
    BY DEF KeepRef, Fail
  <1>3. PICK s \in Live : s = NextSub
    BY <1>1, TopIs
  <1>4. node' = [node EXCEPT ![s].refs = @ + 1]
    BY <1>3 DEF KeepRef
  <1>5. PICK td : td = Unwound
    OBVIOUS
  <1>6. td \in Seq(Cols) /\ \A x \in Cols : Occurrences(x, td) <= Occurrences(x, Dsts)
    <2>1. \A x \in Cols : Occurrences(x, Dsts) \in Nat
      BY <1>1, PointersAre DEF Counted
    <2>2. \A x \in Cols : Occurrences(x, td) = Occurrences(x, Dsts)
      BY <1>1, <1>5, UnwoundIs
    <2>3. td \in Seq(Cols)
      <3>1. copying[Len(copying)].dst \in Cols
        BY <1>1, FrameIs
      <3> QED
        BY <1>1, <1>5, <3>1, UnwoundIs
    <2> QED
      BY <2>1, <2>2, <2>3
  <1>7. failures' \in 0..MaxFailures
    BY <1>1, <1>2, CollectionRefsAssumption DEF TypeOK
  <1>8. /\ NodeTyped' /\ Live' = Live /\ node'[s].refs = node[s].refs + 1
        /\ \A x \in Cols : Subs(x)' = Subs(x)
        /\ \A x \in Cols : x # s => node'[x] = node[x]
    <2>1. PICK n \in Nat \ {0} : n = node[s].refs + 1
      BY <1>1, RefsNat
    <2>2. node' = [node EXCEPT ![s].refs = n]
      BY <1>4, <2>1
    <2> QED
      BY <1>1, <2>1, <2>2, RefsChanged
  <1>9. ASSUME NEW x \in Live PROVE node'[x].refs \in Nat /\ node'[x].refs >= node[x].refs
    <2>1. node[x].refs \in Nat /\ x \in Cols
      BY <1>1, RefsNat
    <2>2. CASE x = s
      BY <1>8, <2>1, <2>2
    <2>3. CASE x # s
      BY <1>8, <2>1, <2>3
    <2> QED
      BY <2>2, <2>3
  <1>10. GivesUp(td)
    BY <1>1, <1>2, <1>5, <1>6, <1>7, <1>8, <1>9 DEF GivesUp
  <1> QED
    BY <1>10, GiveUpKeeps

\* The copy of a subcollection cannot be added, and is left with nobody.
LEMMA CopyReturnFailsKeeps ==
    ASSUME IInv, failures < MaxFailures, CopyReturn(FALSE)
    PROVE  IInv'
  <1>1. TypeOK /\ Len(copying) > 1 /\ held' = held /\ node' = node
    BY DEF IInv, CopyReturn
  <1>2. copying' = <<>> /\ todo' = Tail(Unwound) /\ failures' = failures + 1
    BY DEF CopyReturn, Fail
  <1>3. copying # <<>>
    <2>1. Len(<<>>) = 0
      BY EmptySeq
    <2> QED
      BY <1>1, <2>1
  <1>4. PICK td : td = Tail(Unwound)
    OBVIOUS
  <1>5. td \in Seq(Cols) /\ \A x \in Cols : Occurrences(x, td) <= Occurrences(x, Dsts)
    <2>1. \A x \in Cols : Occurrences(x, td) <= Occurrences(x, Dsts)
      BY <1>1, <1>3, <1>4, UnwoundIs
    <2>2. td \in Seq(Cols)
      <3>1. copying[Len(copying)].dst \in Cols
        BY <1>1, <1>3, FrameIs
      <3> QED
        BY <1>1, <1>3, <1>4, <3>1, UnwoundIs
    <2> QED
      BY <2>1, <2>2
  <1>6. failures' \in 0..MaxFailures
    BY <1>1, <1>2, CollectionRefsAssumption DEF TypeOK
  <1>7. NodeTyped' /\ Live' = Live /\ \A x \in Cols : Subs(x)' = Subs(x)
    BY <1>1, NodesSame DEF TypeOK, NodeTyped
  <1>8. \A x \in Live : node'[x].refs \in Nat /\ node'[x].refs >= node[x].refs
    BY <1>1, RefsNat
  <1>9. GivesUp(td)
    BY <1>1, <1>2, <1>3, <1>4, <1>5, <1>6, <1>7, <1>8 DEF GivesUp
  <1> QED
    BY <1>9, GiveUpKeeps

\* The acceptor cannot take the copy, which is left with nobody.
LEMMA CopyDoneFailsKeeps ==
    ASSUME IInv, failures < MaxFailures, CopyDone(FALSE)
    PROVE  IInv'
  <1>1. TypeOK /\ Len(copying) = 1 /\ held' = held /\ node' = node
    BY DEF IInv, CopyDone
  <1>2. copying' = <<>> /\ todo' = <<>> /\ failures' = failures + 1
    BY DEF CopyDone, Fail
  <1>3. copying # <<>>
    <2>1. Len(<<>>) = 0
      BY EmptySeq
    <2> QED
      BY <1>1, <2>1
  <1>4. PICK td : td = <<>>
    OBVIOUS
  <1>5. td \in Seq(Cols) /\ \A x \in Cols : Occurrences(x, td) <= Occurrences(x, Dsts)
    <2>1. \A x \in Cols : Occurrences(x, Dsts) \in Nat
      BY <1>1, PointersAre DEF Counted
    <2>2. td \in Seq(Cols)
      BY <1>4
    <2>3. \A x \in Cols : Occurrences(x, td) = 0
      BY <1>4, OccEmpty
    <2> QED
      BY <2>1, <2>2, <2>3
  <1>6. failures' \in 0..MaxFailures
    BY <1>1, <1>2, CollectionRefsAssumption DEF TypeOK
  <1>7. NodeTyped' /\ Live' = Live /\ \A x \in Cols : Subs(x)' = Subs(x)
    BY <1>1, NodesSame DEF TypeOK, NodeTyped
  <1>8. \A x \in Live : node'[x].refs \in Nat /\ node'[x].refs >= node[x].refs
    BY <1>1, RefsNat
  <1>9. GivesUp(td)
    BY <1>1, <1>2, <1>3, <1>4, <1>5, <1>6, <1>7, <1>8 DEF GivesUp
  <1> QED
    BY <1>9, GiveUpKeeps

\* col_copy_collection: the first activation, with its new collection apart
\* from all others.
LEMMA CopyStartKeeps ==
    ASSUME IInv, NEW src \in Cols, NEW dst \in Cols, NEW mode \in {"NORMAL", "KEEPREF"},
           NEW into \in Cols \cup {NULL}, col_copy_collection(src, dst, mode, into)
    PROVE  IInv'
  <1>1. /\ Idle /\ src \in Visible /\ dst \notin Live
        /\ into # NULL => mode = "NORMAL" /\ into \in Visible /\ HasRoom(into)
        /\ node' = New(dst) /\ held' = held /\ todo' = todo /\ failures' = failures
    BY DEF col_copy_collection
  <1>2. /\ TypeOK /\ NoDangling /\ CountSound /\ AcyclicIn(SubsNow) /\ Counted
        /\ todo = <<>> /\ copying = <<>> /\ src \in Live /\ Live \subseteq Cols
        /\ into # NULL => into \in Live
    BY <1>1, AtCall
  <1>3. PICK f : f = Frame(src, dst, mode, into)
    OBVIOUS
  <1>4. copying' = <<f>>
    BY <1>3 DEF col_copy_collection
  <1>5. /\ f \in FrameType /\ f.src = src /\ f.dst = dst /\ f.at = 0 /\ f.mode = mode /\ f.into = into
    <2>1. 0 \in 0..MaxSubs
      BY CollectionRefsAssumption
    <2> QED
      BY <1>3, <2>1 DEF Frame, FrameType
  <1>6. /\ NodeTyped' /\ Live' = Live \cup {dst} /\ node'[dst].refs = 1 /\ Subs(dst)' = <<>>
        /\ \A x \in Cols : Subs(x)' = Subs(x)
        /\ \A x \in Live : node'[x] = node[x]
    BY <1>1, <1>2, NodeMade
  <1>7. Len(copying') = 1 /\ copying'[1] = f /\ copying' \in Seq(FrameType)
    BY <1>4, <1>5
  <1>8. TypeOK' /\ Counted'
    <2>1. TypeOK'
      BY <1>1, <1>2, <1>6, <1>7 DEF TypeOK, NodeTyped
    <2> QED
      BY <2>1, PointersAreNext
  <1>9. Pointers(dst) = 0 /\ Pointers(dst)' \in Nat
    BY <1>1, <1>2, <1>8 DEF NoDangling, Counted
  <1>10. ASSUME NEW x \in Cols PROVE Balanced(x)
    <2>1. Moves(x, dst)
      BY <1>2, <1>6, <1>8, CountStep
    <2>2. Occurrences(x, Dsts) = 0
      BY <1>2, NoDsts
    <2>3. Occurrences(x, Dsts') = IF dst = x THEN 1 ELSE 0
      <3>1. Dsts' = <<dst>>
        BY <1>5, <1>7 DEF Dsts
      <3> QED
        BY <3>1, OccOne
    <2>4. held' = held /\ todo' = todo /\ Subs(dst)' = Subs(dst)
      BY <1>1, <1>6
    <2>5. Pointers(x)' = Pointers(x) + IF dst = x THEN 1 ELSE 0
      BY <2>1, <2>2, <2>3, <2>4 DEF Moves
    <2>6. CASE x = dst
      <3>1. Pointers(x)' = 1
        BY <1>9, <2>5, <2>6
      <3> QED
        BY <1>1, <1>6, <2>6, <3>1 DEF Balanced
    <2>7. CASE x # dst
      <3>1. Pointers(x)' = Pointers(x)
        BY <2>1, <2>5, <2>7 DEF Moves
      <3>2. x \in Live => node'[x].refs = node[x].refs
        BY <1>6
      <3>3. x \in Live' <=> x \in Live
        BY <1>6, <2>7
      <3> QED
        BY <1>1, <1>2, <3>1, <3>2, <3>3, BalancedKept
    <2> QED
      BY <2>6, <2>7
  <1>11. NoDangling' /\ CountSound'
    BY <1>2, <1>8, <1>10, CountsKept
  <1>12. AcyclicIn(SubsNow)'
    BY <1>2, <1>6, AcyclicSame
  <1>13. FrameOK(1)'
    <2>1. Len(Subs(src)') \in Nat /\ Len(Subs(dst)') = 0
      BY <1>2, <1>6, NodeIs
    <2>2. f.into # NULL => HasRoom(f.into)'
      BY <1>1, <1>2, <1>5, <1>6 DEF HasRoom
    <2>3. f.src \in Live' /\ f.src # f.dst
      BY <1>1, <1>2, <1>5, <1>6
    <2>4. /\ f.at <= Len(Subs(f.src)') /\ Len(Subs(f.dst)') = f.at
      BY <1>5, <2>1
    <2>5. f.into # NULL => f.mode = "NORMAL" /\ f.into \in Live'
      BY <1>1, <1>2, <1>5, <1>6
    <2>6. node'[f.dst].refs = 1
      BY <1>5, <1>6
    <2> QED
      BY <1>7, <2>2, <2>3, <2>4, <2>5, <2>6 DEF FrameOK
  <1>14. PICK N \in SUBSET Cols : N = {dst}
    OBVIOUS
  <1>15. Splits(N)'
    <2>1. ASSUME NEW d \in N PROVE Range(Subs(d)') \subseteq N
      <3>1. Subs(d)' = <<>>
        BY <1>6, <1>14
      <3>2. Range(<<>>) = {}
        BY DEF Range
      <3> QED
        BY <3>1, <3>2
    <2>2. ASSUME NEW d \in Cols \ N PROVE Range(Subs(d)') \cap N = {}
      <3>1. Range(Subs(d)) \subseteq Live
        BY <1>2, PointedLive
      <3> QED
        BY <1>1, <1>6, <1>14, <3>1
    <2>3. f.dst \in N /\ f.src \notin N /\ f.into \notin N
      BY <1>1, <1>2, <1>5, <1>14, CollectionRefsAssumption
    <2> QED
      BY <1>7, <2>1, <2>2, <2>3 DEF Splits
  <1>16. CopyOK'
    BY <1>1, <1>2, <1>7, <1>13, <1>15 DEF CopyOK
  <1> QED
    BY <1>8, <1>11, <1>12, <1>16 DEF IInv

\* The handler copies a subcollection: one activation and one new collection
\* more.
LEMMA CopySubKeeps ==
    ASSUME IInv, NEW dst \in Cols, CopySub(dst)
    PROVE  IInv'
  <1>1. /\ copying # <<>> /\ Pending /\ Top.mode = "NORMAL" /\ dst \notin Live
        /\ node' = New(dst) /\ held' = held /\ todo' = todo /\ failures' = failures
    BY DEF CopySub
  <1>2. /\ TypeOK /\ NoDangling /\ CountSound /\ AcyclicIn(SubsNow) /\ Counted
        /\ CopyOK /\ Live \subseteq Cols
    BY PointersAre DEF IInv, Live
  <1>3. PICK n \in Nat : n = Len(copying) /\ n >= 1
    BY <1>1, TopIs
  <1>4. PICK t : t = Top
    OBVIOUS
  <1>5. /\ t = copying[n] /\ t.src \in Live /\ t.mode = "NORMAL"
        /\ t.at < Len(Subs(t.src))
    BY <1>1, <1>3, <1>4, TopIs
  <1>6. PICK s \in Live : s = NextSub /\ s \in Range(Subs(t.src))
    BY <1>1, <1>4, TopIs
  <1>7. PICK f : f = Frame(s, dst, "NORMAL", NULL)
    OBVIOUS
  <1>8. /\ f \in FrameType /\ f.src = s /\ f.dst = dst /\ f.at = 0 /\ f.mode = "NORMAL" /\ f.into = NULL
    <2>1. 0 \in 0..MaxSubs
      BY CollectionRefsAssumption
    <2> QED
      BY <1>2, <1>7, <2>1 DEF Frame, FrameType
  <1>9. copying' = Append(copying, f)
    BY <1>6, <1>7 DEF CopySub
  <1>10. /\ copying' \in Seq(FrameType) /\ Len(copying') = n + 1
         /\ copying'[n + 1] = f /\ \A i \in 1..n : copying'[i] = copying[i]
    <2>1. copying \in Seq(FrameType)
      BY <1>2 DEF TypeOK
    <2> QED
      BY <1>3, <1>8, <1>9, <2>1, AppendProperties
  <1>11. /\ NodeTyped' /\ Live' = Live \cup {dst} /\ node'[dst].refs = 1 /\ Subs(dst)' = <<>>
         /\ \A x \in Cols : Subs(x)' = Subs(x)
         /\ \A x \in Live : node'[x] = node[x]
    BY <1>1, <1>2, NodeMade
  <1>12. TypeOK' /\ Counted'
    <2>1. TypeOK'
      BY <1>1, <1>2, <1>10, <1>11 DEF TypeOK, NodeTyped
    <2> QED
      BY <2>1, PointersAreNext
  <1>13. Pointers(dst) = 0 /\ Pointers(dst)' \in Nat
    BY <1>1, <1>2, <1>12 DEF NoDangling, Counted
  <1>14. ASSUME NEW x \in Cols PROVE Balanced(x)
    <2>1. Moves(x, dst)
      BY <1>2, <1>11, <1>12, CountStep
    <2>2. Occurrences(x, Dsts') = Occurrences(x, Dsts) + IF dst = x THEN 1 ELSE 0
      <3>1. Dsts \in Seq(Cols) /\ Dsts' \in Seq(Cols)
        BY <1>2, <1>12 DEF Counted
      <3>2. Dsts = [i \in 1..n |-> copying[i].dst] /\ Dsts' = [i \in 1..(n + 1) |-> copying'[i].dst]
        BY <1>3, <1>10 DEF Dsts
      <3>3. PICK a \in Seq(Cols) : a = Dsts
        BY <3>1
      <3>4. PICK b \in Seq(Cols) : b = Dsts'
        BY <3>1
      <3>5. /\ Len(a) = n /\ Len(b) = n + 1 /\ b[n + 1] = dst /\ \A i \in 1..n : b[i] = a[i]
        BY <1>3, <1>8, <1>10, <3>2, <3>3, <3>4
      <3>6. b = Append(a, dst)
        <4>1. Append(a, dst) \in Seq(Cols) /\ Len(Append(a, dst)) = n + 1
          BY <3>5, AppendProperties
        <4>2. ASSUME NEW i \in 1..Len(b) PROVE b[i] = Append(a, dst)[i]
          <5>1. i \in 1..n \/ i = n + 1
            BY <3>5
          <5> QED
            BY <3>5, <5>1, AppendProperties
        <4> QED
          BY <3>5, <4>1, <4>2, SeqEqual
      <3> QED
        BY <3>3, <3>4, <3>6, OccAppend
    <2>3. held' = held /\ todo' = todo /\ Subs(dst)' = Subs(dst)
      BY <1>1, <1>11
    <2>4. Pointers(x)' = Pointers(x) + IF dst = x THEN 1 ELSE 0
      BY <2>1, <2>2, <2>3 DEF Moves
    <2>5. CASE x = dst
      <3>1. Pointers(x)' = 1
        BY <1>13, <2>4, <2>5
      <3> QED
        BY <1>1, <1>11, <2>5, <3>1 DEF Balanced
    <2>6. CASE x # dst
      <3>1. Pointers(x)' = Pointers(x)
        BY <2>1, <2>4, <2>6 DEF Moves
      <3>2. x \in Live => node'[x].refs = node[x].refs
        BY <1>11
      <3>3. x \in Live' <=> x \in Live
        BY <1>11, <2>6
      <3> QED
        BY <1>1, <1>2, <3>1, <3>2, <3>3, BalancedKept
    <2> QED
      BY <2>5, <2>6
  <1>15. NoDangling' /\ CountSound'
    BY <1>2, <1>12, <1>14, CountsKept
  <1>16. AcyclicIn(SubsNow)'
    BY <1>2, <1>11, AcyclicSame
  <1>17. ASSUME NEW i \in 1..n PROVE FrameOK(i)'
    <2>1. PICK g : g = copying[i]
      OBVIOUS
    <2>2. copying'[i] = g /\ i \in 1..Len(copying)
      BY <1>3, <1>10, <2>1
    <2>3. FrameOK(i) /\ g.dst \in Live /\ g.src \in Cols
      BY <1>2, <2>1, <2>2, PointedLive, FrameIs DEF CopyOK
    <2>4. g.src \in Live' /\ g.src # g.dst /\ node'[g.dst].refs = 1
      BY <1>11, <2>1, <2>3 DEF FrameOK
    <2>5. Len(Subs(g.dst)') = g.at
      BY <1>2, <1>11, <2>1, <2>3 DEF FrameOK
    <2>6. g.at < Len(Subs(g.src)')
      <3>1. CASE i = n
        BY <1>2, <1>5, <1>11, <2>1, <3>1
      <3>2. CASE i # n
        <4>1. i < Len(copying)
          BY <1>3, <3>2
        <4> QED
          BY <1>11, <2>1, <2>3, <4>1 DEF FrameOK
      <3> QED
        BY <3>1, <3>2
    <2>7. g.at <= Len(Subs(g.src)')
      <3>1. g.at \in Nat /\ Len(Subs(g.src)) \in Nat
        BY <1>2, <2>1, <2>2, <2>3, FrameIs, NodeIs
      <3> QED
        BY <1>11, <2>3, <2>6, <3>1
    <2>8. ASSUME NEW j \in 1..(n + 1), j # i PROVE copying'[j].dst # g.dst
      <3>1. CASE j = n + 1
        BY <1>1, <1>8, <1>10, <2>3, <3>1
      <3>2. CASE j # n + 1
        <4>1. j \in 1..Len(copying) /\ copying'[j] = copying[j]
          BY <1>3, <1>10, <3>2
        <4> QED
          BY <2>1, <2>3, <2>8, <4>1 DEF FrameOK
      <3> QED
        BY <3>1, <3>2
    <2>9. g.mode # "KEEPREF"
      <3>1. g.mode = "KEEPREF" => Len(copying) = 1
        BY <2>1, <2>3 DEF FrameOK
      <3>2. Len(copying) = 1 => i = n
        BY <1>3
      <3> QED
        BY <1>5, <2>1, <3>1, <3>2
    <2>10. g.into # NULL => i = 1 /\ g.mode = "NORMAL" /\ g.into \in Live' /\ HasRoom(g.into)'
      <3>1. g.into # NULL => i = 1 /\ g.mode = "NORMAL" /\ g.into \in Live /\ HasRoom(g.into)
        BY <2>1, <2>3 DEF FrameOK
      <3>2. ASSUME g.into \in Live, HasRoom(g.into) PROVE HasRoom(g.into)'
        BY <1>11, <3>2 DEF HasRoom
      <3> QED
        BY <1>11, <3>1, <3>2
    <2> QED
      BY <1>10, <2>2, <2>4, <2>5, <2>6, <2>7, <2>8, <2>9, <2>10 DEF FrameOK
  <1>18. FrameOK(n + 1)'
    <2>1. Len(Subs(s)') \in Nat /\ Len(Subs(dst)') = 0 /\ s \in Cols
      BY <1>2, <1>11, NodeIs
    <2>2. f.src \in Live' /\ f.src # f.dst
      BY <1>1, <1>8, <1>11
    <2>3. f.at <= Len(Subs(f.src)') /\ Len(Subs(f.dst)') = f.at
      BY <1>8, <2>1
    <2>4. node'[f.dst].refs = 1
      BY <1>8, <1>11
    <2>5. ASSUME NEW j \in 1..(n + 1), j # n + 1 PROVE copying'[j].dst # f.dst
      <3>1. j \in 1..Len(copying) /\ copying'[j] = copying[j]
        BY <1>3, <1>10, <2>5
      <3>2. copying[j].dst \in Live
        BY <1>2, <3>1, PointedLive
      <3> QED
        BY <1>1, <1>8, <3>1, <3>2
    <2>6. ~(n + 1 < Len(copying')) /\ f.mode # "KEEPREF" /\ f.into = NULL
      BY <1>3, <1>8, <1>10
    <2> QED
      BY <1>10, <2>2, <2>3, <2>4, <2>5, <2>6 DEF FrameOK
  <1>19. PICK M \in SUBSET Cols : Splits(M)
    BY <1>1, <1>2 DEF CopyOK
  <1>20. PICK N \in SUBSET Cols : N = M \cup {dst}
    OBVIOUS
  <1>21. /\ \A d \in M : Range(Subs(d)) \subseteq M
         /\ \A d \in Cols \ M : Range(Subs(d)) \cap M = {}
         /\ \A i \in 1..n : copying[i].dst \in M /\ copying[i].src \notin M /\ copying[i].into \notin M
    BY <1>3, <1>19 DEF Splits
  <1>22. Splits(N)'
    <2>1. ASSUME NEW d \in N PROVE Range(Subs(d)') \subseteq N
      <3>1. CASE d = dst
        <4>1. Range(<<>>) = {}
          BY DEF Range
        <4> QED
          BY <1>11, <3>1, <4>1
      <3>2. CASE d # dst
        BY <1>11, <1>20, <1>21, <3>2
      <3> QED
        BY <3>1, <3>2
    <2>2. ASSUME NEW d \in Cols \ N PROVE Range(Subs(d)') \cap N = {}
      <3>1. Range(Subs(d)) \subseteq Live
        BY <1>2, PointedLive
      <3>2. Range(Subs(d)) \cap M = {}
        BY <1>20, <1>21
      <3> QED
        BY <1>1, <1>11, <1>20, <3>1, <3>2
    <2>3. ASSUME NEW i \in 1..(n + 1)
          PROVE  copying'[i].dst \in N /\ copying'[i].src \notin N /\ copying'[i].into \notin N
      <3>1. CASE i = n + 1
        <4>1. s \notin M
          <5>1. n \in 1..n
            BY <1>3
          <5>2. t.src \in Cols \ M
            BY <1>2, <1>5, <1>21, <5>1
          <5> QED
            BY <1>6, <1>21, <5>2
        <4>2. f.dst \in N /\ f.src \notin N /\ f.into \notin N
          BY <1>1, <1>8, <1>20, <4>1, CollectionRefsAssumption
        <4> QED
          BY <1>10, <3>1, <4>2
      <3>2. CASE i # n + 1
        <4>1. i \in 1..n /\ copying'[i] = copying[i] /\ i \in 1..Len(copying)
          BY <1>3, <1>10, <3>2
        <4>2. FrameOK(i)
          BY <1>2, <4>1 DEF CopyOK
        <4>3. copying[i].src # dst /\ copying[i].into # dst
          BY <1>1, <4>2, CollectionRefsAssumption DEF FrameOK
        <4> QED
          BY <1>20, <1>21, <4>1, <4>3
      <3> QED
        BY <3>1, <3>2
    <2> QED
      BY <1>10, <2>1, <2>2, <2>3 DEF Splits
  <1>23. CopyOK'
    <2>1. todo' = <<>>
      BY <1>1, <1>2 DEF CopyOK
    <2>2. ASSUME NEW i \in 1..(n + 1) PROVE FrameOK(i)'
      <3>1. i \in 1..n \/ i = n + 1
        BY <1>3
      <3> QED
        BY <1>17, <1>18, <3>1
    <2> QED
      BY <1>10, <1>22, <2>1, <2>2 DEF CopyOK
  <1> QED
    BY <1>12, <1>15, <1>16, <1>23 DEF IInv

\* A frame passes one item; the others are as before.
Passes(old, new, k) ==
    /\ new \in Seq(FrameType) /\ Len(new) = k
    /\ \A i \in 1..k : /\ new[i].src = old[i].src /\ new[i].dst = old[i].dst
                       /\ new[i].mode = old[i].mode /\ new[i].into = old[i].into
                       /\ new[i].at = IF i = k THEN old[i].at + 1 ELSE old[i].at

\* Advancing the last activation leaves the others alone.
LEMMA FramePasses ==
    ASSUME NEW old \in Seq(FrameType), Len(old) >= 1, old[Len(old)].at + 1 <= MaxSubs
    PROVE  Passes(old, [old EXCEPT ![Len(old)].at = @ + 1], Len(old))
  <1> DEFINE k == Len(old)
             f == [old[k] EXCEPT !.at = @ + 1]
             new == [old EXCEPT ![k] = f]
  <1>1. k \in Nat /\ k >= 1 /\ k \in 1..k /\ \A i \in 1..k : old[i] \in FrameType
    BY LenProperties, ElementOfSeq
  <1>2. old[k] \in FrameType /\ old[k].at \in 0..MaxSubs /\ MaxSubs \in Nat
    BY <1>1, CollectionRefsAssumption DEF FrameType
  <1>3. old[k].at + 1 \in 0..MaxSubs
    BY <1>2
  <1>4. /\ f \in FrameType /\ f.src = old[k].src /\ f.dst = old[k].dst /\ f.mode = old[k].mode
        /\ f.into = old[k].into /\ f.at = old[k].at + 1
    BY <1>2, <1>3 DEF FrameType
  <1>5. [old EXCEPT ![Len(old)].at = @ + 1] = new
    OBVIOUS
  <1> HIDE DEF f, k
  <1>6. new \in Seq(FrameType) /\ Len(new) = k /\ \A i \in 1..k : new[i] = IF i = k THEN f ELSE old[i]
    BY <1>1, <1>4, ExceptSeq DEF k
  <1> HIDE DEF new
  <1>7. Passes(old, new, k)
    BY <1>1, <1>4, <1>6 DEF Passes
  <1> QED
    BY <1>5, <1>7 DEF k

\* COL_COPY_KEEPREF: the copy gets an item that points to the original's
\* subcollection.
LEMMA KeepRefKeeps ==
    ASSUME IInv, KeepRef(TRUE)
    PROVE  IInv'
  <1>1. /\ copying # <<>> /\ Pending /\ Top.mode = "KEEPREF"
        /\ held' = held /\ todo' = todo /\ failures' = failures
    BY DEF KeepRef
  <1>2. /\ TypeOK /\ NoDangling /\ CountSound /\ AcyclicIn(SubsNow) /\ Counted
        /\ CopyOK /\ Live \subseteq Cols /\ todo = <<>>
    BY <1>1, PointersAre DEF IInv, Live, CopyOK
  <1>3. PICK t \in FrameType : t = Top
    BY <1>1, TopIs
  <1>4. Len(copying) = 1 /\ t = copying[1]
    <2>1. Len(copying) \in 1..Len(copying) /\ t = copying[Len(copying)]
      BY <1>1, <1>3, TopIs
    <2>2. FrameOK(Len(copying))
      BY <1>2, <2>1 DEF CopyOK
    <2>3. Len(copying) = 1
      BY <1>1, <1>3, <2>1, <2>2 DEF FrameOK
    <2> QED
      BY <2>1, <2>3
  <1>5. /\ t.src \in Live /\ t.dst \in Live /\ t.src # t.dst /\ t.mode = "KEEPREF"
        /\ node[t.dst].refs = 1 /\ Len(Subs(t.dst)) = t.at
        /\ t.at < Len(Subs(t.src)) /\ HasRoom(t.dst)
    BY <1>1, <1>3, TopIs
  <1>6. PICK s \in Live : s = NextSub /\ s \in Range(Subs(t.src))
    BY <1>1, <1>3, TopIs
  <1>7. PICK a \in Live : a = t.dst
    BY <1>5
  <1>8. a # s /\ \A d \in Cols : a \notin Range(Subs(d))
    <2>1. 1 \in 1..Len(copying)
      BY <1>4
    <2>2. \A d \in Cols : a \notin Range(Subs(d))
      BY <1>4, <1>7, <2>1, CopyUnshared
    <2> QED
      BY <1>2, <1>5, <1>6, <2>2
  <1>9. /\ node' = [node EXCEPT ![s].refs = @ + 1, ![a].subs = Append(@, s)]
        /\ copying' = Advanced
    BY <1>3, <1>6, <1>7 DEF KeepRef
  <1>10. node' = [node EXCEPT ![a].subs = Append(@, s), ![s].refs = @ + 1]
    <2>1. node \in [Cols -> NodeType \cup {NULL}] /\ a \in Cols /\ s \in Cols
      BY <1>2 DEF TypeOK
    <2> QED
      BY <1>8, <1>9, <2>1
  <1>11. /\ NodeTyped' /\ Live' = Live
         /\ Subs(a)' = Append(Subs(a), s) /\ \A x \in Cols : x # a => Subs(x)' = Subs(x)
         /\ node'[s].refs = node[s].refs + 1
         /\ \A x \in Live : x # s => node'[x].refs = node[x].refs
    BY <1>2, <1>5, <1>7, <1>8, <1>10, ReferenceAdded
  <1>12. /\ Len(Subs(t.src)) \in Nat /\ Len(Subs(t.src)) <= MaxSubs /\ t.at \in Nat /\ MaxSubs \in Nat
         /\ Subs(a) \in Seq(Cols) /\ Len(Subs(a)) \in Nat
    BY <1>2, <1>3, <1>5, <1>7, NodeIs, CollectionRefsAssumption DEF FrameType
  <1>13. Passes(copying, copying', 1)
    <2>1. copying \in Seq(FrameType) /\ t.at + 1 <= MaxSubs
      BY <1>2, <1>5, <1>12 DEF TypeOK
    <2>2. copying[Len(copying)].at + 1 <= MaxSubs /\ Len(copying) >= 1
      BY <1>4, <2>1
    <2>3. Passes(copying, [copying EXCEPT ![Len(copying)].at = @ + 1], Len(copying))
      BY <2>1, <2>2, FramePasses
    <2> QED
      BY <1>4, <1>9, <2>3 DEF Advanced
  <1>14. PICK g \in FrameType : g = copying'[1]
    <2>1. PICK q : q = copying'
      OBVIOUS
    <2>2. q \in Seq(FrameType) /\ Len(q) = 1
      BY <1>13, <2>1 DEF Passes
    <2>3. 1 \in 1..Len(q)
      BY <2>2
    <2>4. q[1] \in FrameType
      BY <2>2, <2>3, ElementOfSeq
    <2> QED
      BY <2>1, <2>4
  <1>15. /\ copying' \in Seq(FrameType) /\ Len(copying') = 1
         /\ g.src = t.src /\ g.dst = a /\ g.mode = "KEEPREF" /\ g.into = t.into /\ g.at = t.at + 1
    BY <1>4, <1>5, <1>7, <1>13, <1>14 DEF Passes
  <1>16. TypeOK' /\ Counted'
    <2>1. TypeOK'
      BY <1>1, <1>2, <1>11, <1>15 DEF TypeOK, NodeTyped
    <2> QED
      BY <2>1, PointersAreNext
  <1>17. ASSUME NEW x \in Cols PROVE Balanced(x)
    <2>1. Moves(x, a)
      BY <1>2, <1>11, <1>16, CountStep
    <2>2. Occurrences(x, Subs(a)') = Occurrences(x, Subs(a)) + IF s = x THEN 1 ELSE 0
      BY <1>2, <1>11, <1>12, OccAppend
    <2>3. held' = held /\ todo' = todo
      BY <1>1
    <2>4. Dsts' = Dsts
      BY <1>4, <1>7, <1>14, <1>15 DEF Dsts
    <2>5. Pointers(x)' = Pointers(x) + IF s = x THEN 1 ELSE 0
      BY <2>1, <2>2, <2>3, <2>4 DEF Moves
    <2>6. CASE x = s
      <3>1. Pointers(x)' = Pointers(x) + 1 /\ node'[x].refs = node[x].refs + 1 /\ x \in Live
        BY <1>2, <1>11, <2>5, <2>6
      <3> QED
        BY <1>1, <1>2, <1>11, <3>1, BalancedMoved
    <2>7. CASE x # s
      <3>1. Pointers(x)' = Pointers(x)
        BY <2>5, <2>7, <2>1 DEF Moves
      <3> QED
        BY <1>1, <1>2, <1>11, <2>7, <3>1, BalancedKept
    <2> QED
      BY <2>6, <2>7
  <1>18. NoDangling' /\ CountSound'
    BY <1>2, <1>16, <1>17, CountsKept
  <1>19. AcyclicIn(SubsNow)'
    <2>1. PICK W \in SUBSET Cols : W = Cols \ {a}
      OBVIOUS
    <2>2. \A d \in W : Range(Subs(d)) \subseteq W
      BY <1>2, <1>8, <2>1, PointedLive
    <2>3. a \notin W /\ s \in W /\ a \in Cols
      BY <1>2, <1>8, <2>1
    <2> QED
      BY <1>2, <1>11, <2>2, <2>3, AcyclicAdd
  <1>20. FrameOK(1)'
    <2>1. FrameOK(1)
      BY <1>2, <1>4 DEF CopyOK
    <2>2. t.into = NULL
      BY <1>4, <1>5, <2>1 DEF FrameOK
    <2>3. g.src \in Live' /\ g.src # g.dst /\ node'[g.dst].refs = 1
      BY <1>5, <1>7, <1>8, <1>11, <1>15
    <2>4. Len(Subs(g.dst)') = g.at
      BY <1>2, <1>5, <1>7, <1>11, <1>12, <1>15, AppendProperties
    <2>5. Subs(g.src)' = Subs(t.src)
      BY <1>2, <1>5, <1>7, <1>11, <1>15
    <2>6. g.at <= Len(Subs(g.src)')
      BY <1>5, <1>12, <1>15, <2>5
    <2> QED
      BY <1>14, <1>15, <2>2, <2>3, <2>4, <2>6 DEF FrameOK
  <1>21. Top'.mode = "KEEPREF"
    BY <1>14, <1>15 DEF Top
  <1>22. CopyOK'
    BY <1>1, <1>2, <1>15, <1>20, <1>21 DEF CopyOK
  <1> QED
    BY <1>16, <1>18, <1>19, <1>22 DEF IInv

\* The copy is done: what was being built is the caller's.
LEMMA CopyHeldKeeps ==
    ASSUME IInv, CopyDone(TRUE), Top.into = NULL
    PROVE  IInv'
  <1>1. /\ Len(copying) = 1 /\ held' = [held EXCEPT ![Top.dst] = 1] /\ copying' = <<>>
        /\ node' = node /\ todo' = todo /\ failures' = failures
    BY DEF CopyDone
  <1>2. /\ TypeOK /\ NoDangling /\ CountSound /\ AcyclicIn(SubsNow) /\ Counted
    BY PointersAre DEF IInv
  <1>3. copying # <<>>
    <2>1. Len(<<>>) = 0
      BY EmptySeq
    <2> QED
      BY <1>1, <2>1
  <1>4. PICK c \in Cols : c = Top.dst
    BY <1>3, TopIs
  <1>5. copying[1].dst = c
    BY <1>1, <1>4 DEF Top
  <1>6. held[c] = 0
    BY <1>1, <1>5, CopyUnshared
  <1>7. Live' = Live /\ NodeTyped' /\ \A x \in Cols : Subs(x)' = Subs(x)
    BY <1>1, <1>2, NodesSame DEF NodeTyped, TypeOK
  <1>8. held' = [held EXCEPT ![c] = 1]
    BY <1>1, <1>4
  <1>9. TypeOK' /\ Counted'
    <2>1. held' \in [Cols -> 0..MaxHeld]
      BY <1>2, <1>8, CollectionRefsAssumption DEF TypeOK
    <2>2. copying' \in Seq(FrameType)
      BY <1>1
    <2>3. TypeOK'
      BY <1>1, <1>2, <1>7, <2>1, <2>2 DEF TypeOK, NodeTyped
    <2> QED
      BY <2>3, PointersAreNext
  <1>10. ASSUME NEW x \in Cols PROVE Balanced(x)
    <2>1. Moves(x, c)
      BY <1>2, <1>7, <1>9, CountStep
    <2>2. held'[x] = held[x] + IF c = x THEN 1 ELSE 0
      <3>1. held \in [Cols -> 0..MaxHeld]
        BY <1>2 DEF TypeOK
      <3>2. held[x] \in Nat
        BY <1>2 DEF Counted
      <3> QED
        BY <1>6, <1>8, <3>1, <3>2
    <2>3. Occurrences(x, Dsts) = IF c = x THEN 1 ELSE 0
      <3>1. Dsts = <<c>>
        BY <1>1, <1>5 DEF Dsts
      <3> QED
        BY <3>1, OccOne
    <2>4. Occurrences(x, Dsts') = 0
      BY <1>1, NoDsts
    <2>5. todo' = todo /\ Subs(c)' = Subs(c)
      BY <1>1, <1>7
    <2>6. Pointers(x)' = Pointers(x)
      BY <2>1, <2>2, <2>3, <2>4, <2>5 DEF Moves
    <2> QED
      BY <1>1, <1>2, <1>7, <2>6, BalancedKept
  <1>11. NoDangling' /\ CountSound'
    BY <1>2, <1>9, <1>10, CountsKept
  <1>12. AcyclicIn(SubsNow)'
    BY <1>2, <1>7, AcyclicSame
  <1> QED
    BY <1>1, <1>9, <1>11, <1>12, NoCopyNext DEF IInv

\* COL_ADD_MODE_CLONE: what was being built becomes an item of the acceptor.
LEMMA CopyIntoKeeps ==
    ASSUME IInv, CopyDone(TRUE), Top.into # NULL
    PROVE  IInv'
  <1>1. /\ Len(copying) = 1 /\ node' = [node EXCEPT ![Top.into].subs = Append(@, Top.dst)] /\ copying' = <<>>
        /\ held' = held /\ todo' = todo /\ failures' = failures
    BY DEF CopyDone
  <1>2. /\ TypeOK /\ NoDangling /\ CountSound /\ AcyclicIn(SubsNow) /\ Counted /\ CopyOK
        /\ Live \subseteq Cols
    BY PointersAre DEF IInv, Live
  <1>3. copying # <<>>
    <2>1. Len(<<>>) = 0
      BY EmptySeq
    <2> QED
      BY <1>1, <2>1
  <1>4. PICK t \in FrameType : t = Top /\ t = copying[1]
    BY <1>1, <1>3, TopIs
  <1>5. FrameOK(1) /\ t.into # NULL /\ t.dst \in Live
    BY <1>1, <1>2, <1>3, <1>4, TopIs DEF CopyOK
  <1>6. t.into \in Live /\ t.mode = "NORMAL" /\ HasRoom(t.into)
    BY <1>4, <1>5 DEF FrameOK
  <1>7. PICK c \in Live : c = t.dst
    BY <1>5
  <1>8. PICK a \in Live : a = t.into
    BY <1>6
  <1>9. PICK N \in SUBSET Cols : Splits(N)
    BY <1>2, <1>3, <1>4, <1>6 DEF CopyOK
  <1>10. c \in N /\ a \notin N /\ \A d \in N : Range(Subs(d)) \subseteq N
    BY <1>1, <1>4, <1>7, <1>8, <1>9 DEF Splits
  <1>11. node' = [node EXCEPT ![a].subs = Append(@, c)] /\ HasRoom(a)
    BY <1>1, <1>4, <1>6, <1>7, <1>8
  <1>12. /\ NodeTyped' /\ Live' = Live
         /\ Subs(a)' = Append(Subs(a), c) /\ \A x \in Cols : x # a => Subs(x)' = Subs(x)
         /\ \A x \in Live : node'[x].refs = node[x].refs
    BY <1>2, <1>11, ItemAdded
  <1>13. TypeOK' /\ Counted'
    <2>1. copying' \in Seq(FrameType)
      BY <1>1
    <2>2. TypeOK'
      BY <1>1, <1>2, <1>12, <2>1 DEF TypeOK, NodeTyped
    <2> QED
      BY <2>2, PointersAreNext
  <1>14. ASSUME NEW x \in Cols PROVE Balanced(x)
    <2>1. Moves(x, a)
      BY <1>2, <1>12, <1>13, CountStep
    <2>2. Occurrences(x, Subs(a)') = Occurrences(x, Subs(a)) + IF c = x THEN 1 ELSE 0
      BY <1>2, <1>12, OccAppend, NodeIs
    <2>3. Occurrences(x, Dsts) = IF c = x THEN 1 ELSE 0
      <3>1. Dsts = <<c>>
        BY <1>1, <1>4, <1>7 DEF Dsts
      <3> QED
        BY <3>1, OccOne
    <2>4. Occurrences(x, Dsts') = 0
      BY <1>1, NoDsts
    <2>5. todo' = todo /\ held' = held
      BY <1>1
    <2>6. Pointers(x)' = Pointers(x)
      BY <2>1, <2>2, <2>3, <2>4, <2>5 DEF Moves
    <2> QED
      BY <1>1, <1>2, <1>12, <2>6, BalancedKept
  <1>15. NoDangling' /\ CountSound'
    BY <1>2, <1>13, <1>14, CountsKept
  <1>16. AcyclicIn(SubsNow)'
    BY <1>2, <1>10, <1>12, AcyclicAdd
  <1> QED
    BY <1>1, <1>13, <1>15, <1>16, NoCopyNext DEF IInv

\* References when what was being built becomes an item.
LEMMA MovesBack ==
    ASSUME NEW x, NEW d, Moves(x, d), NEW m \in Nat,
           held'[x] = held[x], Occurrences(x, todo') = Occurrences(x, todo),
           Occurrences(x, Subs(d)') = Occurrences(x, Subs(d)) + m,
           Occurrences(x, Dsts) = Occurrences(x, Dsts') + m
    PROVE  Pointers(x)' = Pointers(x)
  <1>1. /\ Pointers(x)' + held[x] + Occurrences(x, todo) + Occurrences(x, Dsts) + Occurrences(x, Subs(d)) =
           Pointers(x) + held'[x] + Occurrences(x, todo') + Occurrences(x, Dsts') + Occurrences(x, Subs(d)')
        /\ Pointers(x) \in Nat /\ Pointers(x)' \in Nat /\ held[x] \in Nat /\ Occurrences(x, todo) \in Nat
        /\ Occurrences(x, Dsts') \in Nat /\ Occurrences(x, Subs(d)) \in Nat
    BY DEF Moves
  <1>2. PICK p \in Nat, q \in Nat : p = Pointers(x) /\ q = Pointers(x)'
    BY <1>1
  <1>3. PICK h \in Nat, t \in Nat : h = held[x] /\ t = Occurrences(x, todo)
    BY <1>1
  <1>4. PICK e \in Nat, s \in Nat : e = Occurrences(x, Dsts') /\ s = Occurrences(x, Subs(d))
    BY <1>1
  <1>5. q + h + t + (e + m) + s = p + h + t + e + (s + m)
    BY <1>1, <1>2, <1>3, <1>4
  <1>6. q = p
    BY <1>5
  <1> QED
    BY <1>2, <1>6

\* The copy of a subcollection is added to the copy above it.
LEMMA CopyReturnKeeps ==
    ASSUME IInv, CopyReturn(TRUE)
    PROVE  IInv'
  <1>1. /\ Len(copying) > 1 /\ held' = held /\ todo' = todo /\ failures' = failures
    BY DEF CopyReturn
  <1>2. /\ TypeOK /\ NoDangling /\ CountSound /\ AcyclicIn(SubsNow) /\ Counted /\ CopyOK
        /\ Live \subseteq Cols /\ copying \in Seq(FrameType)
    BY PointersAre DEF IInv, Live, TypeOK
  <1>3. copying # <<>>
    <2>1. Len(<<>>) = 0
      BY EmptySeq
    <2> QED
      BY <1>1, <2>1
  <1>4. PICK n \in Nat : n = Len(copying)
    BY <1>2, LenProperties
  <1>5. PICK k \in Nat : k = n - 1 /\ k >= 1 /\ n = k + 1
    BY <1>1, <1>4
  <1>6. n \in 1..Len(copying) /\ k \in 1..Len(copying) /\ k # n /\ k < Len(copying)
    BY <1>4, <1>5
  <1>7. PICK above \in Seq(FrameType) : above = Front(copying)
    BY <1>2, <1>3, OccFront
  <1>8. Len(above) = k /\ \A i \in 1..k : above[i] = copying[i]
    BY <1>2, <1>3, <1>4, <1>5, <1>7, OccFront
  <1>9. PICK t \in FrameType : t = copying[n]
    BY <1>2, <1>6, FrameIs
  <1>10. PICK o \in FrameType : o = copying[k]
    BY <1>2, <1>6, FrameIs
  <1>11. Top = t /\ above[Len(above)] = o
    BY <1>4, <1>5, <1>8, <1>9, <1>10 DEF Top
  <1>12. FrameOK(n) /\ FrameOK(k) /\ t.dst \in Live /\ o.dst \in Live
    BY <1>2, <1>6, <1>9, <1>10, PointedLive DEF CopyOK
  <1>13. PICK c \in Live : c = t.dst
    BY <1>12
  <1>14. PICK a \in Live : a = o.dst
    BY <1>12
  <1>15. a # c /\ held[a] = 0 /\ node[a].refs = 1 /\ \A d \in Cols : a \notin Range(Subs(d))
    <2>1. a # c
      BY <1>6, <1>9, <1>10, <1>12, <1>13, <1>14 DEF FrameOK
    <2> QED
      BY <1>6, <1>10, <1>14, <2>1, CopyUnshared
  <1>16. /\ node' = [node EXCEPT ![a].subs = Append(@, c)]
         /\ copying' = [above EXCEPT ![Len(above)].at = @ + 1]
    BY <1>7, <1>11, <1>13, <1>14 DEF CopyReturn
  <1>17. /\ o.src \in Live /\ o.src # a /\ Len(Subs(a)) = o.at /\ o.at < Len(Subs(o.src))
    BY <1>6, <1>10, <1>12, <1>14 DEF FrameOK
  <1>18. /\ Len(Subs(o.src)) \in Nat /\ Len(Subs(o.src)) <= MaxSubs /\ o.at \in Nat /\ MaxSubs \in Nat
         /\ Subs(a) \in Seq(Cols) /\ Subs(a) = node[a].subs /\ o.src \in Cols
    BY <1>2, <1>17, NodeIs, CollectionRefsAssumption DEF FrameType
  <1>19. HasRoom(a)
    BY <1>17, <1>18 DEF HasRoom
  <1>20. /\ NodeTyped' /\ Live' = Live
         /\ Subs(a)' = Append(Subs(a), c) /\ \A x \in Cols : x # a => Subs(x)' = Subs(x)
         /\ \A x \in Live : node'[x].refs = node[x].refs
    BY <1>2, <1>16, <1>19, ItemAdded
  <1>21. Passes(above, copying', k)
    <2>1. above[Len(above)].at + 1 <= MaxSubs /\ Len(above) >= 1
      BY <1>5, <1>8, <1>11, <1>17, <1>18
    <2>2. Passes(above, [above EXCEPT ![Len(above)].at = @ + 1], Len(above))
      BY <2>1, FramePasses
    <2> QED
      BY <1>8, <1>16, <2>2
  <1>22. /\ copying' \in Seq(FrameType) /\ Len(copying') = k
         /\ \A i \in 1..k : /\ copying'[i].src = copying[i].src /\ copying'[i].dst = copying[i].dst
                            /\ copying'[i].mode = copying[i].mode /\ copying'[i].into = copying[i].into
                            /\ copying'[i].at = IF i = k THEN copying[i].at + 1 ELSE copying[i].at
    BY <1>8, <1>21 DEF Passes
  <1>23. TypeOK' /\ Counted'
    <2>1. TypeOK'
      BY <1>1, <1>2, <1>20, <1>22 DEF TypeOK, NodeTyped
    <2> QED
      BY <2>1, PointersAreNext
  <1>24. ASSUME NEW x \in Cols PROVE Balanced(x)
    <2>1. Moves(x, a)
      BY <1>2, <1>20, <1>23, CountStep
    <2>2. Occurrences(x, Subs(a)') = Occurrences(x, Subs(a)) + IF c = x THEN 1 ELSE 0
      BY <1>2, <1>18, <1>20, OccAppend
    <2>3. Occurrences(x, Dsts) = Occurrences(x, Dsts') + IF c = x THEN 1 ELSE 0
      <3>1. Dsts \in Seq(Cols) /\ Dsts' \in Seq(Cols)
        BY <1>2, <1>23 DEF Counted
      <3>2. Dsts = [i \in 1..n |-> copying[i].dst] /\ Dsts' = [i \in 1..k |-> copying'[i].dst]
        BY <1>4, <1>22 DEF Dsts
      <3>3. PICK p \in Seq(Cols) : p = Dsts
        BY <3>1
      <3>4. PICK q \in Seq(Cols) : q = Dsts'
        BY <3>1
      <3>5. /\ Len(p) = k + 1 /\ Len(q) = k /\ p[k + 1] = c /\ \A i \in 1..k : p[i] = q[i]
        BY <1>5, <1>9, <1>13, <1>22, <3>2, <3>3, <3>4
      <3>6. p = Append(q, c)
        <4>1. Append(q, c) \in Seq(Cols) /\ Len(Append(q, c)) = k + 1 /\ c \in Cols
          BY <1>2, <3>5, AppendProperties
        <4>2. ASSUME NEW i \in 1..Len(p) PROVE p[i] = Append(q, c)[i]
          <5>1. i \in 1..k \/ i = k + 1
            BY <3>5
          <5> QED
            BY <1>2, <3>5, <5>1, AppendProperties
        <4> QED
          BY <3>5, <4>1, <4>2, SeqEqual
      <3> QED
        BY <1>2, <3>3, <3>4, <3>6, OccAppend
    <2>4. todo' = todo /\ held' = held
      BY <1>1
    <2>5. Pointers(x)' = Pointers(x)
      <3>1. PICK m \in Nat : m = IF c = x THEN 1 ELSE 0
        OBVIOUS
      <3>2. /\ Occurrences(x, Subs(a)') = Occurrences(x, Subs(a)) + m
            /\ Occurrences(x, Dsts) = Occurrences(x, Dsts') + m
        BY <2>2, <2>3, <3>1
      <3>3. held'[x] = held[x] /\ Occurrences(x, todo') = Occurrences(x, todo)
        BY <2>4
      <3> QED
        BY <2>1, <3>2, <3>3, MovesBack
    <2> QED
      BY <1>1, <1>2, <1>20, <2>5, BalancedKept
  <1>25. NoDangling' /\ CountSound'
    BY <1>2, <1>23, <1>24, CountsKept
  <1>26. AcyclicIn(SubsNow)'
    <2>1. PICK W \in SUBSET Cols : W = Cols \ {a}
      OBVIOUS
    <2>2. \A d \in W : Range(Subs(d)) \subseteq W
      BY <1>2, <1>15, <2>1, PointedLive
    <2>3. a \notin W /\ c \in W /\ a \in Cols
      BY <1>2, <1>15, <2>1
    <2> QED
      BY <1>2, <1>20, <2>2, <2>3, AcyclicAdd
  <1>27. t.mode = "NORMAL"
    <2>1. t.mode # "KEEPREF"
      BY <1>1, <1>9, <1>12 DEF FrameOK
    <2> QED
      BY <2>1 DEF FrameType
  <1>28. PICK N \in SUBSET Cols : Splits(N)
    BY <1>2, <1>3, <1>11, <1>27 DEF CopyOK
  <1>29. /\ \A d \in N : Range(Subs(d)) \subseteq N
         /\ \A d \in Cols \ N : Range(Subs(d)) \cap N = {}
         /\ \A i \in 1..n : copying[i].dst \in N /\ copying[i].src \notin N /\ copying[i].into \notin N
    BY <1>4, <1>28 DEF Splits
  <1>30. a \in N /\ c \in N
    BY <1>4, <1>6, <1>9, <1>10, <1>13, <1>14, <1>29
  <1>31. Splits(N)'
    <2>1. ASSUME NEW d \in N PROVE Range(Subs(d)') \subseteq N
      <3>1. CASE d # a
        BY <1>20, <1>29, <3>1
      <3>2. CASE d = a
        <4>1. ASSUME NEW x \in Range(Append(Subs(a), c)) PROVE x \in Range(Subs(a)) \/ x = c
          BY <1>2, <1>18, <4>1, AppendRange
        <4> QED
          BY <1>20, <1>29, <1>30, <3>2, <4>1
      <3> QED
        BY <3>1, <3>2
    <2>2. ASSUME NEW d \in Cols \ N PROVE Range(Subs(d)') \cap N = {}
      BY <1>20, <1>29, <1>30
    <2>3. ASSUME NEW i \in 1..k
          PROVE  copying'[i].dst \in N /\ copying'[i].src \notin N /\ copying'[i].into \notin N
      <3>1. i \in 1..n
        BY <1>5
      <3> QED
        BY <1>22, <1>29, <3>1
    <2> QED
      BY <1>22, <2>1, <2>2, <2>3 DEF Splits
  <1>32. ASSUME NEW i \in 1..k PROVE FrameOK(i)'
    <2>1. PICK g \in FrameType : g = copying[i]
      BY <1>2, <1>4, <1>5, FrameIs
    <2>2. PICK h : h = copying'[i]
      OBVIOUS
    <2>3. /\ h.src = g.src /\ h.dst = g.dst /\ h.mode = g.mode /\ h.into = g.into
          /\ h.at = IF i = k THEN g.at + 1 ELSE g.at
      BY <1>22, <2>1, <2>2
    <2>4. i \in 1..Len(copying) /\ i < Len(copying) /\ i \in 1..n
      BY <1>4, <1>5
    <2>5. FrameOK(i) /\ g.dst \in Live /\ g.src \in Cols /\ g.dst \in Cols
      BY <1>2, <2>1, <2>4, PointedLive, FrameIs DEF CopyOK
    <2>6. /\ g.src \in Live /\ g.src # g.dst /\ node[g.dst].refs = 1 /\ Len(Subs(g.dst)) = g.at
          /\ g.at < Len(Subs(g.src))
          /\ g.into # NULL => i = 1 /\ g.mode = "NORMAL" /\ g.into \in Live /\ HasRoom(g.into)
          /\ g.mode = "KEEPREF" => Len(copying) = 1
      BY <2>1, <2>4, <2>5 DEF FrameOK
    <2>7. g.src # a /\ g.into # a
      BY <1>29, <1>30, <2>1, <2>4
    <2>8. Subs(g.src)' = Subs(g.src) /\ node'[g.dst].refs = 1
      BY <1>20, <2>5, <2>6, <2>7
    <2>9. g.at \in Nat /\ Len(Subs(g.src)) \in Nat /\ Len(Subs(g.dst)) \in Nat
      BY <1>2, <2>1, <2>4, <2>5, FrameIs, NodeIs
    <2>10. Len(Subs(g.dst)') = h.at
      <3>1. CASE i = k
        <4>1. g.dst = a
          BY <1>10, <1>14, <2>1, <3>1
        <4>2. Len(Append(Subs(a), c)) = Len(Subs(a)) + 1
          BY <1>2, <1>18, AppendProperties
        <4> QED
          BY <1>20, <2>3, <2>6, <3>1, <4>1, <4>2
      <3>2. CASE i # k
        <4>1. g.dst # a
          BY <1>6, <1>10, <1>14, <2>1, <2>4, <2>5, <3>2 DEF FrameOK
        <4> QED
          BY <1>20, <2>3, <2>5, <2>6, <3>2, <4>1
      <3> QED
        BY <3>1, <3>2
    <2>11. h.at <= Len(Subs(g.src)') /\ (i < k => h.at < Len(Subs(g.src)'))
      BY <2>3, <2>6, <2>8, <2>9
    <2>12. ASSUME NEW j \in 1..k, j # i PROVE copying'[j].dst # g.dst
      <3>1. j \in 1..Len(copying)
        BY <1>4, <1>5
      <3>2. copying'[j].dst = copying[j].dst
        BY <1>22
      <3> QED
        BY <2>1, <2>5, <2>12, <3>1, <3>2 DEF FrameOK
    <2>13. h.mode # "KEEPREF"
      <3>1. Len(copying) # 1
        BY <1>1, <1>4
      <3>2. g.mode # "KEEPREF"
        BY <2>6, <3>1
      <3> QED
        BY <2>3, <3>2
    <2>14. ASSUME g.into # NULL
           PROVE  i = 1 /\ h.mode = "NORMAL" /\ g.into \in Live' /\ HasRoom(g.into)'
      <3>1. i = 1 /\ h.mode = "NORMAL" /\ g.into \in Live /\ HasRoom(g.into)
        BY <2>3, <2>6, <2>14
      <3>2. node[g.into].subs = Subs(g.into) /\ Subs(g.into)' = Subs(g.into)
        BY <1>2, <1>20, <2>7, <3>1, NodeIs
      <3>3. node'[g.into].subs = Subs(g.into)'
        BY <1>20, <3>1 DEF Live, Subs
      <3>4. HasRoom(g.into)'
        BY <3>1, <3>2, <3>3 DEF HasRoom
      <3> QED
        BY <1>20, <3>1, <3>4
    <2> QED
      BY <1>20, <1>22, <2>2, <2>3, <2>6, <2>8, <2>10, <2>11, <2>12, <2>13, <2>14 DEF FrameOK
  <1>33. CopyOK'
    <2>1. todo' = <<>>
      BY <1>1, <1>2, <1>3 DEF CopyOK
    <2> QED
      BY <1>22, <1>31, <1>32, <2>1 DEF CopyOK
  <1> QED
    BY <1>23, <1>25, <1>26, <1>33 DEF IInv

-----------------------------------------------------------------------------
(* The theorems                                                            *)

\* The invariant holds when there is no collection.
LEMMA InitKeeps == Init => IInv
  <1> SUFFICES ASSUME Init PROVE IInv
    OBVIOUS
  <1>1. /\ node = [c \in Cols |-> NULL] /\ held = [c \in Cols |-> 0]
        /\ todo = <<>> /\ copying = <<>> /\ failures = 0
    BY DEF Init
  <1>2. Live = {} /\ \A d \in Cols : Subs(d) = <<>>
    BY <1>1 DEF Live, Subs
  <1>3. TypeOK
    <2>1. node \in [Cols -> NodeType \cup {NULL}]
      BY <1>1
    <2>2. held \in [Cols -> 0..MaxHeld] /\ failures \in 0..MaxFailures
      BY <1>1, CollectionRefsAssumption
    <2>3. todo \in Seq(Cols) /\ copying \in Seq(FrameType)
      BY <1>1
    <2> QED
      BY <1>2, <2>1, <2>2, <2>3 DEF TypeOK
  <1>4. Counted
    BY <1>3, PointersAre
  <1>5. ASSUME NEW x \in Cols PROVE Pointers(x) = 0
    <2>1. held[x] = 0 /\ Occurrences(x, todo) = 0 /\ Occurrences(x, Dsts) = 0
      BY <1>1, OccEmpty, NoDsts
    <2>2. Cardinality(ItemsOf(SubsNow, x)) = 0
      <3>1. PICK subs : subs = SubsNow
        OBVIOUS
      <3>2. Range(<<>>) = {}
        BY DEF Range
      <3>3. \A d \in Cols : x \notin Range(subs[d])
        BY <1>2, <3>1, <3>2 DEF SubsNow
      <3> QED
        BY <1>4, <3>1, <3>3, ItemsNone DEF Counted
    <2> QED
      BY <1>4, <2>1, <2>2 DEF Counted, PointersIn
  <1>6. NoDangling /\ CountSound
    BY <1>2, <1>5 DEF NoDangling, CountSound
  <1>7. AcyclicIn(SubsNow)
    <2>1. PICK subs : subs = SubsNow
      OBVIOUS
    <2>2. Range(<<>>) = {}
      BY DEF Range
    <2>3. \A d \in Cols : Range(subs[d]) = {}
      BY <1>2, <2>1, <2>2 DEF SubsNow
    <2>4. AcyclicIn(subs)
      BY <2>3 DEF AcyclicIn
    <2> QED
      BY <2>1, <2>4
  <1> QED
    BY <1>1, <1>3, <1>6, <1>7, NoCopy DEF IInv

\* A step that changes nothing keeps the invariant.
LEMMA StutterKeeps == IInv /\ UNCHANGED vars => IInv'
  <1> SUFFICES ASSUME IInv, UNCHANGED vars PROVE IInv'
    OBVIOUS
  <1>1. /\ node' = node /\ held' = held /\ todo' = todo
        /\ copying' = copying /\ failures' = failures
    BY DEF vars
  <1>2. Live' = Live /\ \A x \in Cols : Subs(x)' = Subs(x)
    BY <1>1, NodesSame
  <1>3. TypeOK'
    BY <1>1, <1>2 DEF IInv, TypeOK
  <1>4. TypeOK /\ NoDangling /\ CountSound /\ AcyclicIn(SubsNow) /\ CopyOK /\ Counted /\ Counted'
    BY <1>3, PointersAre, PointersAreNext DEF IInv
  <1>5. ASSUME NEW x \in Cols PROVE Balanced(x)
    <2>1. Pointers(x)' = Pointers(x)
      <3>1. Items(x)' = Items(x) /\ Building(x)' = Building(x)
        BY <1>1 DEF Items, Building, Subs
      <3> QED
        BY <1>1, <3>1 DEF Pointers
    <2>2. node'[x].refs = node[x].refs /\ failures' = failures
      BY <1>1
    <2> QED
      BY <1>2, <1>4, <2>1, <2>2, BalancedKept
  <1>6. NoDangling' /\ CountSound'
    BY <1>3, <1>4, <1>5, CountsKept
  <1>7. AcyclicIn(SubsNow)'
    BY <1>2, <1>4, AcyclicSame
  <1>8. CopyOK'
    <2>1. ASSUME NEW i \in 1..Len(copying) PROVE FrameOK(i)'
      <3>1. FrameOK(i)
        BY <1>4 DEF CopyOK
      <3> QED
        BY <1>1, <3>1 DEF FrameOK, Subs, Live, HasRoom
    <2>2. ASSUME NEW N \in SUBSET Cols, Splits(N) PROVE Splits(N)'
      BY <1>1, <2>2 DEF Splits, Subs
    <2>3. Top' = Top
      BY <1>1 DEF Top
    <2>4. copying' # <<>> => todo' = <<>>
      BY <1>1, <1>4 DEF CopyOK
    <2>5. (copying' # <<>> /\ Top'.mode = "NORMAL") => \E N \in SUBSET Cols : Splits(N)'
      BY <1>1, <1>4, <2>2, <2>3 DEF CopyOK
    <2>6. \A i \in 1..Len(copying') : FrameOK(i)'
      BY <1>1, <2>1
    <2> QED
      BY <2>4, <2>5, <2>6 DEF CopyOK
  <1> QED
    BY <1>3, <1>6, <1>7, <1>8 DEF IInv

\* Every call keeps the invariant.
LEMMA CallKeeps == IInv /\ Call => IInv'
  <1> SUFFICES ASSUME IInv, Call PROVE IInv'
    OBVIOUS
  <1>1. CASE \E c \in Cols : \/ col_create_collection(c)
                             \/ col_get_collection_reference(c)
                             \/ col_destroy_collection(c)
    BY <1>1, CreateKeeps, GetReferenceKeeps, DestroyKeeps
  <1>2. CASE \E c, d \in Cols : AddReference(c, d) \/ AddEmbedded(c, d)
    BY <1>2, AddReferenceKeeps, AddEmbeddedKeeps
  <1>3. CASE \E c \in Cols, k \in 1..MaxSubs : col_delete_item(c, k)
    BY <1>3, DeleteItemKeeps
  <1>4. CASE \E src, dst \in Cols, mode \in {"NORMAL", "KEEPREF"},
                into \in Cols \cup {NULL} : col_copy_collection(src, dst, mode, into)
    BY <1>4, CopyStartKeeps
  <1> QED
    BY <1>1, <1>2, <1>3, <1>4 DEF Call

\* Every step of a destruction or of a copy keeps the invariant.
LEMMA ContinueKeeps == IInv /\ Continue => IInv'
  <1> SUFFICES ASSUME IInv, Continue PROVE IInv'
    OBVIOUS
  <1>1. CASE DestroyStep
    BY <1>1, DestroyStepKeeps
  <1>2. CASE \E c \in Cols : CopySub(c)
    BY <1>2, CopySubKeeps
  <1>3. CASE \E ok \in Outcomes : KeepRef(ok) \/ CopyReturn(ok) \/ CopyDone(ok)
    <2>1. PICK ok \in Outcomes : KeepRef(ok) \/ CopyReturn(ok) \/ CopyDone(ok)
      BY <1>3
    <2>2. ok = TRUE \/ (ok = FALSE /\ failures < MaxFailures)
      BY DEF Outcomes
    <2>3. CASE ok = TRUE
      <3>1. CASE KeepRef(TRUE)
        BY <3>1, KeepRefKeeps
      <3>2. CASE CopyReturn(TRUE)
        BY <3>2, CopyReturnKeeps
      <3>3. CASE CopyDone(TRUE)
        BY <3>3, CopyHeldKeeps, CopyIntoKeeps
      <3> QED
        BY <2>1, <2>3, <3>1, <3>2, <3>3
    <2>4. CASE ok = FALSE /\ failures < MaxFailures
      <3>1. CASE KeepRef(FALSE)
        BY <2>4, <3>1, KeepRefFailsKeeps
      <3>2. CASE CopyReturn(FALSE)
        BY <2>4, <3>2, CopyReturnFailsKeeps
      <3>3. CASE CopyDone(FALSE)
        BY <2>4, <3>3, CopyDoneFailsKeeps
      <3> QED
        BY <2>1, <2>4, <3>1, <3>2, <3>3
    <2> QED
      BY <2>2, <2>3, <2>4
  <1>4. CASE CopyFails
    BY <1>4, CopyFailsKeeps
  <1> QED
    BY <1>1, <1>2, <1>3, <1>4 DEF Continue

\* The inductive invariant: the counts, that no item points to a deleted
\* collection, that items form no cycle, and what the activations of a copy
\* under way may rely on.
THEOREM RefsInvariant == Spec => []IInv
  <1>1. Init => IInv
    BY InitKeeps
  <1>2. IInv /\ [Next]_vars => IInv'
    BY CallKeeps, ContinueKeeps, StutterKeeps DEF Next
  <1> QED
    BY <1>1, <1>2, PTL DEF Spec

\* A deep copy and its original are on two sides of a set that no item crosses.
LEMMA CopySplit == IInv => CopySharesNothing
  <1> SUFFICES ASSUME IInv, NEW i \in DOMAIN copying, copying[i].mode = "NORMAL"
               PROVE  Within(copying[1].src) \cap Within(copying[i].dst) = {}
    BY DEF CopySharesNothing
  <1>1. TypeOK /\ CopyOK
    BY DEF IInv
  <1>2. i \in 1..Len(copying) /\ Len(copying) \in Nat /\ 1 \in 1..Len(copying)
    BY <1>1, FrameIs
  <1>3. copying # <<>>
    BY <1>2
  <1>4. Top.mode = "NORMAL"
    <2>1. Len(copying) \in 1..Len(copying)
      BY <1>2
    <2>2. FrameOK(Len(copying))
      BY <1>1, <2>1 DEF CopyOK
    <2>3. Top.mode = "KEEPREF" => i = Len(copying)
      BY <1>2, <2>2 DEF FrameOK, Top
    <2>4. Top.mode \in {"NORMAL", "KEEPREF"}
      BY <1>1, <2>1, FrameIs DEF Top
    <2> QED
      BY <2>3, <2>4 DEF Top
  <1>5. PICK N \in SUBSET Cols : Splits(N)
    BY <1>1, <1>3, <1>4 DEF CopyOK
  <1>6. PICK M \in SUBSET Cols : M = Cols \ N
    OBVIOUS
  <1>7. PICK dst \in N : dst = copying[i].dst
    BY <1>2, <1>5 DEF Splits
  <1>8. PICK src \in M : src = copying[1].src
    BY <1>1, <1>2, <1>5, <1>6, FrameIs DEF Splits
  <1>9. \A d \in N : Range(Subs(d)) \subseteq N
    BY <1>5 DEF Splits
  <1>10. \A d \in M : Range(Subs(d)) \subseteq M
    <2>1. \A d \in Cols : Range(Subs(d)) \subseteq Cols
      BY <1>1, NodeIs DEF Range
    <2> QED
      BY <1>5, <1>6, <2>1 DEF Splits
  <1>11. Within(dst) \subseteq N /\ Within(src) \subseteq M
    BY <1>1, <1>9, <1>10, WithinInside
  <1> QED
    BY <1>6, <1>7, <1>8, <1>11

\* Recursive destruction and copies that fail midway leave no pointer to a
\* deleted collection, no count below its pointers, and no collection that a
\* copy shares with its original.
THEOREM PointersCorrect == Spec => []PointersSound
  <1>1. IInv => PointersSound
    BY CopySplit DEF IInv, PointersSound
  <1> QED
    BY <1>1, RefsInvariant, PTL

\* Without a cycle, some collection is pointed to by none: if nobody holds it
\* and nothing is under way, its count would be zero.
LEMMA NoneLeft == IInv => AllReclaimed
  <1> SUFFICES ASSUME IInv, Idle, failures = 0, \A c \in Cols : held[c] = 0, Live # {}
               PROVE  FALSE
    BY DEF AllReclaimed
  <1>1. /\ TypeOK /\ CountSound /\ Counted /\ todo = <<>> /\ copying = <<>>
    BY AtCall
  <1>2. PICK subs : subs = SubsNow
    OBVIOUS
  <1>3. AcyclicIn(subs) /\ Fits(subs) /\ \A d \in Cols : subs[d] = Subs(d)
    BY <1>1, <1>2 DEF IInv, Counted, SubsNow
  <1>4. PICK S \in SUBSET Cols : S = Live /\ S # {}
    BY DEF Live
  <1>5. PICK c \in S : \A d \in S : c \notin Range(subs[d])
    BY <1>3, <1>4 DEF AcyclicIn
  <1>6. \A d \in Cols : c \notin Range(subs[d])
    <2>1. ASSUME NEW d \in Cols, d \notin S PROVE c \notin Range(subs[d])
      <3>1. subs[d] = <<>>
        BY <1>1, <1>3, <1>4, <2>1, NodeIs
      <3> QED
        BY <3>1 DEF Range
    <2> QED
      BY <1>5, <2>1
  <1>7. c \in Cols /\ c \in Live
    BY <1>4
  <1>8. Pointers(c) = 0
    <2>1. Cardinality(ItemsOf(subs, c)) = 0
      BY <1>3, <1>6, ItemsNone
    <2>2. held[c] = 0 /\ Occurrences(c, todo) = 0 /\ Occurrences(c, Dsts) = 0
      BY <1>1, <1>7, OccEmpty, NoDsts
    <2> QED
      BY <1>1, <1>2, <1>7, <2>1, <2>2 DEF Counted, PointersIn
  <1>9. node[c].refs = Pointers(c) /\ node[c].refs \in Nat \ {0}
    BY <1>1, <1>7, RefsNat DEF CountSound
  <1> QED
    BY <1>8, <1>9

\* Once the callers have given up all their references, every collection has
\* been deleted, unless a copy has failed.
THEOREM ReclaimedCorrect == Spec => []AllReclaimed
  BY NoneLeft, RefsInvariant, PTL

=============================================================================
