-------------------------- MODULE CollectionProofs --------------------------
(***************************************************************************)
(* Theorems about Collection for every set of names, types and addresses   *)
(* and every length of the list: the list, its header and the ownership of *)
(* the items are sound, and the searches and insertions among duplicates   *)
(* do what collection.h says.                                              *)
(***************************************************************************)
EXTENDS Collection, FiniteSetTheorems, ProofBasics

-----------------------------------------------------------------------------
(* Members of a set of positions, counted from the least *)

Below(M, i) == {j \in M : j < i}

\* A set of positions is finite, and a member has fewer before it than there are.
LEMMA RankType ==
    ASSUME NEW n \in Nat, NEW M \in SUBSET (0..n)
    PROVE  /\ IsFiniteSet(M) /\ Cardinality(M) \in Nat
           /\ \A i : IsFiniteSet(Below(M, i)) /\ Cardinality(Below(M, i)) \in Nat
           /\ \A i \in M : Cardinality(Below(M, i)) < Cardinality(M)
  <1>1. IsFiniteSet(M) /\ Cardinality(M) \in Nat
    <2>1. IsFiniteSet(0..n)
      BY FS_Interval
    <2> QED
      BY <2>1, FS_Subset, FS_CardinalityType
  <1>2. ASSUME NEW i
        PROVE  /\ IsFiniteSet(Below(M, i)) /\ Cardinality(Below(M, i)) \in Nat
               /\ Cardinality(Below(M, i)) <= Cardinality(M)
               /\ Cardinality(M) = Cardinality(Below(M, i)) => M = Below(M, i)
    <2>1. Below(M, i) \in SUBSET M
      BY DEF Below
    <2> QED
      BY <1>1, <2>1, FS_Subset, FS_CardinalityType
  <1>3. ASSUME NEW i \in M PROVE Cardinality(Below(M, i)) < Cardinality(M)
    <2>1. i \notin Below(M, i)
      BY DEF Below
    <2> QED
      BY <1>1, <1>2, <2>1
  <1> QED
    BY <1>1, <1>2, <1>3

\* One more member before the next one.
LEMMA RankNext ==
    ASSUME NEW n \in Nat, NEW M \in SUBSET (0..n), NEW i \in M, NEW k \in M, i < k
    PROVE  /\ Cardinality(Below(M, i)) < Cardinality(Below(M, k))
           /\ (\A j \in M : j > i => j >= k) =>
                 Cardinality(Below(M, k)) = Cardinality(Below(M, i)) + 1
  <1> DEFINE A == Below(M, i)
             B == Below(M, k)
  <1>1. /\ IsFiniteSet(A) /\ Cardinality(A) \in Nat
        /\ IsFiniteSet(B) /\ Cardinality(B) \in Nat
    BY RankType
  <1>0. \A x \in M : x \in Int
    OBVIOUS
  <1>2. A \cup {i} \subseteq B /\ i \notin A
    <2>1. ASSUME NEW x \in M, x < i PROVE x < k
      <3>1. x \in Int /\ i \in Int /\ k \in Int
        BY <1>0
      <3> QED
        BY <2>1, <3>1
    <2>2. ~(i < i)
      BY <1>0
    <2> QED
      BY <2>1, <2>2 DEF Below
  <1> HIDE DEF A, B
  <1>3. IsFiniteSet(A \cup {i}) /\ Cardinality(A \cup {i}) = Cardinality(A) + 1
    BY <1>1, <1>2, FS_AddElement
  <1>4. Cardinality(A \cup {i}) <= Cardinality(B)
    BY <1>1, <1>2, FS_Subset
  <1>5. (\A j \in M : j > i => j >= k) => B = A \cup {i}
    <2> SUFFICES ASSUME \A j \in M : j > i => j >= k, NEW x \in M
                 PROVE  x < k <=> x < i \/ x = i
      BY DEF A, B, Below
    <2>1. x \in Int /\ i \in Int /\ k \in Int /\ (x > i => x >= k)
      BY <1>0
    <2> QED
      BY <2>1
  <1> QED
    BY <1>1, <1>3, <1>4, <1>5 DEF A, B

\* The first one is the one with none before it.
LEMMA RankFirst ==
    ASSUME NEW n \in Nat, NEW M \in SUBSET (0..n), NEW i \in M
    PROVE  Cardinality(Below(M, i)) = 0 <=> i = Min(M)
  <1>1. Min(M) \in M /\ \A x \in M : Min(M) <= x
    BY MinIs
  <1>2. Cardinality(Below(M, i)) = 0 <=> Below(M, i) = {}
    BY RankType, FS_EmptySet
  <1>3. Below(M, i) = {} <=> \A j \in M : ~(j < i)
    BY DEF Below
  <1>4. (\A j \in M : ~(j < i)) <=> i = Min(M)
    <2>1. M \subseteq Nat
      OBVIOUS
    <2>2. ASSUME \A j \in M : ~(j < i) PROVE i = Min(M)
      <3>1. ~(Min(M) < i) /\ Min(M) <= i /\ Min(M) \in Nat /\ i \in Nat
        BY <1>1, <2>1, <2>2
      <3> QED
        BY <3>1
    <2> QED
      BY <1>1, <2>1, <2>2
  <1> QED
    BY <1>2, <1>3, <1>4

\* As many as there are, each rank is taken.
LEMMA RankExists ==
    ASSUME NEW n \in Nat, NEW M \in SUBSET (0..n), NEW r \in Nat, r < Cardinality(M)
    PROVE  \E i \in M : Cardinality(Below(M, i)) = r
  <1> DEFINE S == {q \in 0..r : \E i \in M : Cardinality(Below(M, i)) = q}
  <1>1. IsFiniteSet(M) /\ Cardinality(M) \in Nat
    BY RankType
  <1>2. 0 \in S
    <2>1. M # {}
      BY <1>1, FS_EmptySet
    <2>2. Min(M) \in M
      BY <2>1, MinIs
    <2>3. Cardinality(Below(M, Min(M))) = 0
      BY <2>2, RankFirst
    <2>4. 0 \in 0..r
      OBVIOUS
    <2> QED
      BY <2>2, <2>3, <2>4
  <1>3. ASSUME NEW q \in 1..r, q - 1 \in S PROVE q \in S
    <2>1. PICK i \in M : Cardinality(Below(M, i)) = q - 1
      BY <1>3
    <2> DEFINE T == {j \in M : j > i}
    <2>2. T # {}
      <3> SUFFICES ASSUME T = {} PROVE FALSE
        OBVIOUS
      <3>0. ASSUME NEW x \in M PROVE x < i <=> x # i
        <4>1. x \in Int /\ i \in Int /\ ~(x > i)
          OBVIOUS
        <4> QED
          BY <4>1
      <3>1. M = Below(M, i) \cup {i} /\ i \notin Below(M, i)
        BY <3>0 DEF Below
      <3> DEFINE B == Below(M, i)
      <3>2. IsFiniteSet(B) /\ Cardinality(B) = q - 1
        BY <2>1, RankType
      <3> HIDE DEF B
      <3>3. Cardinality(B \cup {i}) = Cardinality(B) + 1
        BY <3>1, <3>2, FS_AddElement DEF B
      <3>4. Cardinality(M) = (q - 1) + 1
        BY <3>1, <3>2, <3>3 DEF B
      <3> QED
        BY <1>1, <3>4
    <2>3. T \in SUBSET Nat
      <3>1. \A x \in M : x \in Nat
        OBVIOUS
      <3> QED
        BY <3>1
    <2> HIDE DEF T
    <2>4. Min(T) \in T /\ \A x \in T : Min(T) <= x
      BY <2>2, <2>3, MinIs
    <2>5. Min(T) \in M /\ i < Min(T) /\ \A j \in M : j > i => j >= Min(T)
      BY <2>4 DEF T
    <2> DEFINE k == Min(T)
    <2> HIDE DEF k
    <2>6. k \in M /\ i < k /\ \A j \in M : j > i => j >= k
      BY <2>5 DEF k
    <2>7. Cardinality(Below(M, k)) = Cardinality(Below(M, i)) + 1
      BY <2>6, RankNext
    <2>8. Cardinality(Below(M, k)) = q
      BY <2>1, <2>7
    <2> QED
      BY <2>6, <2>8
  <1> HIDE DEF S
  <1>4. 0..r \subseteq S
    BY <1>2, <1>3, SetInduction
  <1> QED
    BY <1>4 DEF S

\* The member of a given rank: there is one, and Nth is it.
LEMMA NthIs ==
    ASSUME NEW n \in Nat, NEW M \in SUBSET (0..n), NEW r \in Nat, r < Cardinality(M)
    PROVE  /\ Nth(M, r) \in M /\ Cardinality(Below(M, Nth(M, r))) = r
           /\ \A i \in M : Cardinality(Below(M, i)) = r => i = Nth(M, r)
  <1>1. \E i \in M : Cardinality(Below(M, i)) = r
    BY RankExists
  <1>2. Nth(M, r) \in M /\ Cardinality(Below(M, Nth(M, r))) = r
    BY <1>1 DEF Nth, Below
  <1>3. ASSUME NEW i \in M, Cardinality(Below(M, i)) = r PROVE i = Nth(M, r)
    <2> DEFINE k == Nth(M, r)
    <2>1. k \in M /\ Cardinality(Below(M, k)) = r
      BY <1>2
    <2> HIDE DEF k
    <2>2. ~(i < k)
      <3> SUFFICES ASSUME i < k PROVE FALSE
        OBVIOUS
      <3>1. Cardinality(Below(M, i)) < Cardinality(Below(M, k))
        BY <2>1, RankNext
      <3> QED
        BY <1>3, <2>1, <3>1
    <2>3. ~(k < i)
      <3> SUFFICES ASSUME k < i PROVE FALSE
        OBVIOUS
      <3>1. Cardinality(Below(M, k)) < Cardinality(Below(M, i))
        BY <2>1, RankNext
      <3> QED
        BY <1>3, <2>1, <3>1
    <2>4. i \in Nat /\ k \in Nat
      BY <2>1
    <2> QED
      BY <2>2, <2>3, <2>4 DEF k
  <1> QED
    BY <1>2, <1>3

-----------------------------------------------------------------------------
(* Searches *)

\* Where the items of a name and type are.
LEMMA MatchingIn ==
    ASSUME NEW S, NEW l \in Seq(S), NEW nm, NEW ty
    PROVE  /\ Len(l) \in Nat /\ DOMAIN l = 1..Len(l)
           /\ SameName(l, nm) \in SUBSET (0..Len(l)) /\ SameName(l, nm) \subseteq 1..Len(l)
           /\ Matching(l, nm, ty) \in SUBSET (0..Len(l)) /\ Matching(l, nm, ty) \subseteq 1..Len(l)
           /\ Matching(l, nm, ty) \subseteq SameName(l, nm)
           /\ Matching(l, nm, ANY) = SameName(l, nm)
  <1>1. Len(l) \in Nat /\ DOMAIN l = 1..Len(l)
    BY LenProperties
  <1>2. SameName(l, nm) \subseteq 1..Len(l)
    BY <1>1 DEF SameName
  <1>3. Matching(l, nm, ty) \subseteq SameName(l, nm) /\ Matching(l, nm, ANY) = SameName(l, nm)
    BY DEF Matching
  <1>4. 1..Len(l) \subseteq 0..Len(l)
    BY <1>1
  <1> QED
    BY <1>1, <1>2, <1>3, <1>4

\* The first item of a name and type: col_find_property gives the one before it.
LEMMA FindFirst ==
    ASSUME NEW S, NEW l \in Seq(S), NEW nm, NEW ty
    PROVE  col_find_property(l, nm, ty) =
              IF Matching(l, nm, ty) = {} THEN 0 ELSE Min(Matching(l, nm, ty)) - 1
  <1> DEFINE M == Matching(l, nm, ty)
             done == DoneAt(M, 0)
             stops == done \cup GiveUpAt(l, nm, M, 0, TRUE)
  <1>1. M \in SUBSET (0..Len(l)) /\ Len(l) \in Nat
    BY MatchingIn
  <1>2. GiveUpAt(l, nm, M, 0, TRUE) = {}
    BY DEF GiveUpAt
  <1> HIDE DEF M
  <1>3. done = {i \in M : i = Min(M)}
    <2>1. ASSUME NEW i \in M
          PROVE  Cardinality(Below(M, i)) = 0 <=> i = Min(M)
      BY <1>1, RankFirst
    <2>2. done = {i \in M : Cardinality(Below(M, i)) = 0}
      BY DEF DoneAt, Below
    <2> QED
      BY <2>1, <2>2
  <1>4. CASE M = {}
    <2>1. stops = {}
      BY <1>2, <1>3, <1>4
    <2> QED
      BY <2>1, <1>4 DEF col_find_property, col_find_property_sub, M
  <1>5. CASE M # {}
    <2>0. M \in SUBSET Nat
      BY <1>1
    <2>1. Min(M) \in M /\ Min(M) \in Int
      <3>1. Min(M) \in M
        BY <1>5, <2>0, MinIs
      <3> DEFINE m == Min(M)
      <3>2. m \in M
        BY <3>1
      <3> HIDE DEF m
      <3>3. m \in Int
        BY <2>0, <3>2
      <3> QED
        BY <3>1, <3>3 DEF m
    <2>2. stops = {Min(M)} /\ done = {Min(M)}
      BY <1>2, <1>3, <2>1
    <2>3. Min({Min(M)}) = Min(M)
      <3> DEFINE m == Min(M)
      <3>1. m \in Int
        BY <2>1
      <3> HIDE DEF m
      <3>2. {m} \in SUBSET Int /\ m \in {m} /\ \A y \in {m} : m <= y
        BY <3>1
      <3>3. Min({m}) = m
        BY <3>2, IsMin
      <3> QED
        BY <3>3 DEF m
    <2> QED
      BY <1>5, <2>2, <2>3 DEF col_find_property, col_find_property_sub, M
  <1> QED
    BY <1>4, <1>5

\* The range of what a search gives.
LEMMA FindRange ==
    ASSUME NEW S, NEW l \in Seq(S), NEW nm, NEW ty, NEW interrupt, NEW exact \in BOOLEAN,
           NEW index \in Int
    PROVE  LET p == col_find_property_sub(l, interrupt, nm, index, exact, ty)
           IN  /\ p = CRASH \/ p \in 0..Len(l)
               /\ exact => p # CRASH /\ (p > 0 => p < Len(l))
  <1> DEFINE M == Matching(l, nm, ty)
             done == DoneAt(M, index)
             stops == done \cup GiveUpAt(l, nm, M, index, interrupt)
             stop == Min(stops)
             seen == {i \in M : i <= stop}
             match == Max(seen)
             p == col_find_property_sub(l, interrupt, nm, index, exact, ty)
  <1>1. /\ M \in SUBSET (0..Len(l)) /\ M \subseteq 1..Len(l) /\ Len(l) \in Nat
        /\ DOMAIN l = 1..Len(l)
    BY MatchingIn
  <1>2. p = IF stops = {} THEN 0
            ELSE IF stop \in done THEN stop - 1
            ELSE IF index = -2 THEN match - 1
            ELSE IF exact THEN 0
            ELSE IF match = 1 THEN CRASH ELSE match
    BY DEF col_find_property_sub
  <1>3. stops \subseteq 1..Len(l) /\ done \subseteq M
    <2>1. done \subseteq M
      BY DEF DoneAt
    <2>2. GiveUpAt(l, nm, M, index, interrupt) \subseteq DOMAIN l \cup M
      BY DEF GiveUpAt
    <2> QED
      BY <1>1, <2>1, <2>2
  <1>4. \A g \in stops : \E j \in M : j <= g
    <2>1. \A g \in GiveUpAt(l, nm, M, index, interrupt) : \E j \in M : j <= g
      BY DEF GiveUpAt
    <2>2. \A g \in done : g \in M /\ g <= g
      BY <1>1, <1>3
    <2> QED
      BY <2>1, <2>2
  <1> HIDE DEF M, done, stops, p
  <1>5. CASE stops = {}
    BY <1>1, <1>2, <1>5 DEF p, CRASH
  <1>6. CASE stops # {}
    <2>1. stop \in stops
      <3>1. stops \in SUBSET Nat
        BY <1>1, <1>3
      <3> QED
        BY <1>6, <3>1, MinIs
    <2>2. seen # {} /\ seen \subseteq M
      BY <1>4, <2>1
    <2>3. match \in M
      <3>1. seen \in SUBSET (0..Len(l))
        BY <1>1, <2>2
      <3> HIDE DEF seen
      <3>2. match \in seen
        BY <1>1, <2>2, <3>1, MaxIs
      <3> QED
        BY <2>2, <3>2
    <2>4. stop \in 1..Len(l) /\ match \in 1..Len(l)
      BY <1>1, <1>3, <2>1, <2>3
    <2> HIDE DEF stop, match
    <2>5. p \in {stop - 1, match - 1, 0, CRASH, match} /\ (exact => p \in {stop - 1, match - 1, 0})
      BY <1>2, <1>6
    <2> QED
      BY <1>1, <2>4, <2>5 DEF CRASH, p
  <1> QED
    BY <1>5, <1>6

-----------------------------------------------------------------------------
(* Changes to the list *)

\* A list of items of S, the header first, no address twice.
Sound(l, S) ==
    /\ l \in Seq(S) /\ Len(l) > 0
    /\ \A i, j \in 1..Len(l) : l[i].id = l[j].id => i = j

\* The collection whose header tells the truth of the list.
Made(l) == [list |-> l, last |-> l[Len(l)].id, count |-> Len(l)]

\* header->last finds the last item.
LEMMA LastIs ==
    ASSUME NEW S, NEW l, Sound(l, S)
    PROVE  /\ Len(l) \in Nat /\ Len(l) > 0 /\ DOMAIN l = 1..Len(l) /\ l \in Seq(S)
           /\ \A i \in 1..Len(l) : l[i] \in S
           /\ LastPosition(Made(l)) = Len(l)
           /\ \A i \in 1..Len(l) : Made(l).last = l[i].id <=> i = Len(l)
  <1>1. Len(l) \in Nat /\ Len(l) > 0 /\ DOMAIN l = 1..Len(l) /\ l \in Seq(S)
    BY LenProperties DEF Sound
  <1>2. \A i \in 1..Len(l) : l[i] \in S
    BY <1>1, ElementOfSeq
  <1>3. Len(l) \in 1..Len(l)
    BY <1>1
  <1>4. \A i \in 1..Len(l) : l[i].id = l[Len(l)].id => i = Len(l)
    BY <1>3 DEF Sound
  <1>5. LastPosition(Made(l)) = Len(l)
    BY <1>1, <1>3, <1>4 DEF LastPosition, Made
  <1> QED
    BY <1>1, <1>2, <1>3, <1>4, <1>5 DEF Made

\* A sequence with one member more.
LEMMA Inserted ==
    ASSUME NEW S, NEW l \in Seq(S), NEW item \in S, NEW k \in 1..(Len(l) + 1)
    PROVE  /\ InsertAt(l, k, item) \in Seq(S) /\ Len(InsertAt(l, k, item)) = Len(l) + 1
           /\ \A j \in 1..(Len(l) + 1) :
                 InsertAt(l, k, item)[j] = IF j < k THEN l[j] ELSE IF j = k THEN item ELSE l[j - 1]
  <1> DEFINE n == Len(l)
             t == InsertAt(l, k, item)
  <1>1. t = [j \in 1..(n + 1) |-> IF j < k THEN l[j] ELSE IF j = k THEN item ELSE l[j - 1]]
    BY InsertAtIs
  <1>2. n \in Nat
    BY LenProperties
  <1>3. \A j \in 1..n : l[j] \in S
    BY ElementOfSeq
  <1>4. k \in 1..(n + 1)
    OBVIOUS
  <1> HIDE DEF n, t
  <1>5. \A j \in 1..(n + 1) : t[j] = IF j < k THEN l[j] ELSE IF j = k THEN item ELSE l[j - 1]
    BY <1>1
  <1>6. ASSUME NEW j \in 1..(n + 1) PROVE t[j] \in S
    <2>1. CASE j < k
      <3>1. j \in 1..n
        BY <1>2, <1>4, <2>1
      <3> QED
        BY <1>3, <1>5, <2>1, <3>1
    <2>2. CASE j = k
      BY <1>2, <1>4, <1>5, <2>2
    <2>3. CASE j > k
      <3>1. j - 1 \in 1..n /\ ~(j < k) /\ j # k
        BY <1>2, <1>4, <2>3
      <3> QED
        BY <1>3, <1>5, <3>1
    <2> QED
      BY <1>2, <1>4, <2>1, <2>2, <2>3
  <1>7. n + 1 \in Nat
    BY <1>2
  <1>8. t = [j \in 1..(n + 1) |-> t[j]]
    BY <1>1
  <1>9. t \in Seq(S)
    BY <1>6, <1>7, <1>8, IsASeq
  <1>10. DOMAIN t = 1..(n + 1)
    BY <1>8
  <1>11. Len(t) = n + 1
    BY <1>7, <1>9, <1>10, LenProperties
  <1> QED
    BY <1>5, <1>9, <1>11 DEF t, n

\* A sequence with one member less.
LEMMA Removed ==
    ASSUME NEW S, NEW l \in Seq(S), NEW k \in 1..Len(l)
    PROVE  /\ RemoveAt(l, k) \in Seq(S) /\ Len(RemoveAt(l, k)) = Len(l) - 1
           /\ \A j \in 1..(Len(l) - 1) : RemoveAt(l, k)[j] = IF j < k THEN l[j] ELSE l[j + 1]
  <1> DEFINE n == Len(l)
             t == RemoveAt(l, k)
  <1>1. t = [j \in 1..(n - 1) |-> IF j < k THEN l[j] ELSE l[j + 1]]
    BY RemoveAtIs
  <1>2. n \in Nat
    BY LenProperties
  <1>3. \A j \in 1..n : l[j] \in S
    BY ElementOfSeq
  <1>4. k \in 1..n
    OBVIOUS
  <1> HIDE DEF n, t
  <1>5. \A j \in 1..(n - 1) : t[j] = IF j < k THEN l[j] ELSE l[j + 1]
    BY <1>1
  <1>6. ASSUME NEW j \in 1..(n - 1) PROVE t[j] \in S
    <2>1. j \in 1..n /\ j + 1 \in 1..n
      BY <1>2
    <2> QED
      BY <1>3, <1>5, <2>1
  <1>7. n - 1 \in Nat
    BY <1>2, <1>4
  <1>8. t = [j \in 1..(n - 1) |-> t[j]]
    BY <1>1
  <1>9. t \in Seq(S)
    BY <1>6, <1>7, <1>8, IsASeq
  <1>10. DOMAIN t = 1..(n - 1)
    BY <1>8
  <1>11. Len(t) = n - 1
    BY <1>7, <1>9, <1>10, LenProperties
  <1> QED
    BY <1>5, <1>9, <1>11 DEF t, n

\* What linking behind the last item writes.
LEMMA LinkLastIs ==
    ASSUME NEW c, NEW l, NEW last, NEW n, NEW item,
           c = [list |-> l, last |-> last, count |-> n]
    PROVE  LinkLast(c, item) =
              [list |-> Append(SubSeq(l, 1, LastPosition(c)), item), last |-> item.id, count |-> n + 1]
  <1> DEFINE r == [list |-> l, last |-> last, count |-> n]
             at == LastPosition(r)
  <1>1. LinkLast(r, item) = [r EXCEPT !.list = Append(SubSeq(@, 1, at), item), !.last = item.id, !.count = @ + 1]
    BY DEF LinkLast
  <1>2. LinkLast(r, item) =
           [list |-> Append(SubSeq(l, 1, at), item), last |-> item.id, count |-> n + 1]
    <2> HIDE DEF at
    <2> QED
      BY <1>1
  <1>3. c = r
    OBVIOUS
  <1> HIDE DEF r
  <1> QED
    BY <1>2, <1>3

\* What linking behind another item writes.
LEMMA LinkAfterIs ==
    ASSUME NEW c, NEW l, NEW last, NEW n, NEW item, NEW p,
           c = [list |-> l, last |-> last, count |-> n]
    PROVE  LinkAfter(c, p, item) =
              [list |-> InsertAt(l, p + 1, item), last |-> last, count |-> n + 1]
  <1> DEFINE r == [list |-> l, last |-> last, count |-> n]
  <1>1. LinkAfter(r, p, item) = [r EXCEPT !.list = InsertAt(@, p + 1, item), !.count = @ + 1]
    BY DEF LinkAfter
  <1>2. LinkAfter(r, p, item) =
           [list |-> InsertAt(l, p + 1, item), last |-> last, count |-> n + 1]
    BY <1>1
  <1>3. c = r
    OBVIOUS
  <1> HIDE DEF r
  <1> QED
    BY <1>2, <1>3

\* What unlinking an item writes.
LEMMA UnlinkIs ==
    ASSUME NEW c, NEW l, NEW last, NEW n, NEW p,
           c = [list |-> l, last |-> last, count |-> n]
    PROVE  Unlink(c, p) =
              [list |-> RemoveAt(l, p + 1), last |-> last, count |-> n - 1]
  <1> DEFINE r == [list |-> l, last |-> last, count |-> n]
  <1>1. Unlink(r, p) = [r EXCEPT !.list = RemoveAt(@, p + 1), !.count = @ - 1]
    BY DEF Unlink
  <1>2. Unlink(r, p) =
           [list |-> RemoveAt(l, p + 1), last |-> last, count |-> n - 1]
    BY <1>1
  <1>3. c = r
    OBVIOUS
  <1> HIDE DEF r
  <1> QED
    BY <1>2, <1>3

\* What overwriting an item writes.
LEMMA OverwriteIs ==
    ASSUME NEW c, NEW l, NEW last, NEW n, NEW item, NEW p,
           c = [list |-> l, last |-> last, count |-> n]
    PROVE  Overwrite(c, p, item) =
              [list |-> [l EXCEPT ![p + 1] = item],
               last |-> IF last = l[p + 1].id THEN item.id ELSE last, count |-> n]
  <1> DEFINE r == [list |-> l, last |-> last, count |-> n]
  <1>1. Overwrite(r, p, item) = [r EXCEPT !.list[p + 1] = item, !.last = IF @ = l[p + 1].id THEN item.id ELSE @]
    BY DEF Overwrite
  <1>2. Overwrite(r, p, item) =
           [list |-> [l EXCEPT ![p + 1] = item],
               last |-> IF last = l[p + 1].id THEN item.id ELSE last, count |-> n]
    BY <1>1
  <1>3. c = r
    OBVIOUS
  <1> HIDE DEF r
  <1> QED
    BY <1>2, <1>3

\* Linking an item behind the one at p.
LEMMA LinkIs ==
    ASSUME NEW S, NEW l, Sound(l, S), NEW item \in S, NEW p \in 1..Len(l)
    PROVE  /\ LinkLast(Made(l), item) = Made(InsertAt(l, Len(l) + 1, item))
           /\ AddBesideDup(Made(l), p, item) = Made(InsertAt(l, p + 1, item))
           /\ p < Len(l) => LinkAfter(Made(l), p, item) = Made(InsertAt(l, p + 1, item))
           /\ AddFirst(Made(l), item) = Made(InsertAt(l, 2, item))
  <1> DEFINE n == Len(l)
             new(k) == InsertAt(l, k, item)
             last == Made(l).last
  <1>1. n \in Nat /\ n > 0 /\ p \in 1..n
    BY LastIs
  <1>2. l \in Seq(S) /\ LastPosition(Made(l)) = n /\ \A i \in 1..n : last = l[i].id <=> i = n
    BY LastIs
  <1>3. Made(l) = [list |-> l, last |-> last, count |-> n] /\ last = l[n].id
    BY DEF Made
  <1>4. \A k \in 1..(n + 1) : /\ Len(new(k)) = n + 1
                             /\ new(k)[n + 1] = IF n + 1 < k THEN l[n + 1]
                                                ELSE IF n + 1 = k THEN item ELSE l[n + 1 - 1]
    <2>1. n + 1 \in 1..(n + 1)
      BY <1>1
    <2>2. ASSUME NEW k \in 1..(Len(l) + 1)
          PROVE  /\ Len(new(k)) = n + 1
                 /\ \A j \in 1..(n + 1) :
                       new(k)[j] = IF j < k THEN l[j] ELSE IF j = k THEN item ELSE l[j - 1]
      <3>1. l \in Seq(S)
        BY <1>2
      <3> QED
        BY <3>1, Inserted
    <2> SUFFICES ASSUME NEW k \in 1..(n + 1)
                 PROVE  /\ Len(new(k)) = n + 1
                        /\ new(k)[n + 1] = IF n + 1 < k THEN l[n + 1]
                                           ELSE IF n + 1 = k THEN item ELSE l[n + 1 - 1]
      OBVIOUS
    <2>3. /\ Len(new(k)) = n + 1
          /\ \A j \in 1..(n + 1) :
                new(k)[j] = IF j < k THEN l[j] ELSE IF j = k THEN item ELSE l[j - 1]
      BY <2>2
    <2> HIDE DEF new, n
    <2> QED
      BY <1>1, <2>1, <2>3
  <1>5. Append(SubSeq(l, 1, n), item) = new(n + 1)
    <2>1. SubSeq(l, 1, n) = l
      BY <1>2, SubSeqFull
    <2>2. Append(l, item) = [j \in 1..(n + 1) |-> IF j <= n THEN l[j] ELSE item]
      BY <1>2, AppendIs
    <2>3. n + 1 \in 1..(n + 1)
      BY <1>1
    <2>4. new(n + 1) = [j \in 1..(n + 1) |->
                          IF j < n + 1 THEN l[j] ELSE IF j = n + 1 THEN item ELSE l[j - 1]]
      <3>1. ASSUME NEW k \in 1..(n + 1)
            PROVE  new(k) = [j \in 1..(n + 1) |->
                               IF j < k THEN l[j] ELSE IF j = k THEN item ELSE l[j - 1]]
        BY <1>2, InsertAtIs
      <3> HIDE DEF new, n
      <3> QED
        BY <2>3, <3>1
    <2> HIDE DEF n
    <2>5. \A j \in 1..(n + 1) : (IF j <= n THEN l[j] ELSE item)
                = (IF j < n + 1 THEN l[j] ELSE IF j = n + 1 THEN item ELSE l[j - 1])
      BY <1>1
    <2> HIDE DEF new
    <2> QED
      BY <2>1, <2>2, <2>4, <2>5
  <1>6. LinkLast(Made(l), item) = [list |-> new(n + 1), last |-> item.id, count |-> n + 1]
    <2> DEFINE c == Made(l)
    <2>1. c = [list |-> l, last |-> last, count |-> n]
      BY <1>3
    <2> HIDE DEF c, n, last
    <2>2. LinkLast(c, item) = [list |-> Append(SubSeq(l, 1, LastPosition(c)), item),
                               last |-> item.id, count |-> n + 1]
      BY <2>1, LinkLastIs
    <2> QED
      BY <1>2, <1>5, <2>2 DEF c
  <1>7. \A q : LinkAfter(Made(l), q, item) = [list |-> new(q + 1), last |-> last, count |-> n + 1]
    <2> DEFINE c == Made(l)
    <2>1. c = [list |-> l, last |-> last, count |-> n]
      BY <1>3
    <2> HIDE DEF c, n, last
    <2>2. \A q : LinkAfter(c, q, item) = [list |-> InsertAt(l, q + 1, item), last |-> last, count |-> n + 1]
      BY <2>1, LinkAfterIs
    <2> QED
      BY <2>2 DEF c
  <1>8. AddBesideDup(Made(l), p, item) =
            [list |-> new(p + 1), last |-> IF last = l[p].id THEN item.id ELSE last, count |-> n + 1]
    BY <1>3, <1>7 DEF AddBesideDup
  <1>9. \A k : Made(new(k)) = [list |-> new(k), last |-> new(k)[Len(new(k))].id, count |-> Len(new(k))]
    BY DEF Made
  <1> HIDE DEF new, n, last
  <1>10. LinkLast(Made(l), item) = Made(new(n + 1))
    <2>1. n + 1 \in 1..(n + 1) /\ ~(n + 1 < n + 1)
      BY <1>1
    <2>2. Len(new(n + 1)) = n + 1 /\ new(n + 1)[n + 1] = item
      BY <1>4, <2>1
    <2> QED
      BY <1>6, <1>9, <2>2
  <1>11. ASSUME NEW q \in 1..n, q < n PROVE LinkAfter(Made(l), q, item) = Made(new(q + 1))
    <2>1. q + 1 \in 1..(n + 1) /\ ~(n + 1 < q + 1) /\ n + 1 # q + 1 /\ n + 1 - 1 = n
      BY <1>1, <1>11
    <2>2. Len(new(q + 1)) = n + 1 /\ new(q + 1)[n + 1] = l[n]
      BY <1>4, <2>1
    <2> QED
      BY <1>3, <1>7, <1>9, <2>2
  <1>12. AddBesideDup(Made(l), p, item) = Made(new(p + 1))
    <2>1. CASE p = n
      <3>1. n + 1 \in 1..(n + 1) /\ ~(n + 1 < n + 1)
        BY <1>1
      <3>2. Len(new(n + 1)) = n + 1 /\ new(n + 1)[n + 1] = item
        BY <1>4, <3>1
      <3> QED
        BY <1>1, <1>2, <1>8, <1>9, <2>1, <3>2
    <2>2. CASE p # n
      <3>1. p < n
        BY <1>1, <2>2
      <3>2. Made(new(p + 1)) = [list |-> new(p + 1), last |-> last, count |-> n + 1]
        BY <1>1, <1>7, <1>11, <3>1
      <3> QED
        BY <1>1, <1>2, <1>8, <2>2, <3>2
    <2> QED
      BY <2>1, <2>2
  <1>13. AddFirst(Made(l), item) = Made(new(2))
    <2>0. Made(l).count = n
      BY <1>3
    <2>1. CASE n = 1
      <3>1. n + 1 = 2
        BY <2>1
      <3> QED
        BY <1>10, <2>0, <2>1, <3>1 DEF AddFirst
    <2>2. CASE n # 1
      <3>1. 1 \in 1..n /\ 1 < n /\ 1 + 1 = 2
        BY <1>1, <2>2
      <3>2. LinkAfter(Made(l), 1, item) = Made(new(2))
        BY <1>11, <3>1
      <3> QED
        BY <2>0, <2>2, <3>2 DEF AddFirst
    <2> QED
      BY <2>1, <2>2
  <1> QED
    BY <1>1, <1>10, <1>11, <1>12, <1>13 DEF new, n

\* Taking out the item at p, or putting another in its place.
LEMMA TakeIs ==
    ASSUME NEW S, NEW l, Sound(l, S), NEW item \in S, NEW p \in 2..Len(l)
    PROVE  /\ TakeOut(Made(l), p) = Made(RemoveAt(l, p))
           /\ MoveAway(Made(l), p - 1) = Made(RemoveAt(l, p))
           /\ Overwrite(Made(l), p - 1, item) = Made([l EXCEPT ![p] = item])
  <1> DEFINE n == Len(l)
             rest == RemoveAt(l, p)
             last == Made(l).last
             over == [l EXCEPT ![p] = item]
  <1>1. n \in Nat /\ n > 0 /\ p \in 2..n
    BY LastIs
  <1>2. /\ l \in Seq(S) /\ \A i \in 1..n : last = l[i].id <=> i = n
        /\ DOMAIN l = 1..n
    BY LastIs
  <1>3. Made(l) = [list |-> l, last |-> last, count |-> n] /\ last = l[n].id
    BY DEF Made
  <1>4. /\ Len(rest) = n - 1
        /\ \A j \in 1..(n - 1) : rest[j] = IF j < p THEN l[j] ELSE l[j + 1]
    <2>1. p \in 1..n
      BY <1>1
    <2> QED
      BY <1>2, <2>1, Removed
  <1>5. Made(rest) = [list |-> rest, last |-> rest[Len(rest)].id, count |-> Len(rest)]
    BY DEF Made
  <1>6. p - 1 + 1 = p
    BY <1>1
  <1>7. Unlink(Made(l), p - 1) = [list |-> rest, last |-> last, count |-> n - 1]
    <2> DEFINE c == Made(l)
    <2>1. c = [list |-> l, last |-> last, count |-> n]
      BY <1>3
    <2> HIDE DEF c, n, last
    <2>2. Unlink(c, p - 1) = [list |-> RemoveAt(l, p - 1 + 1), last |-> last, count |-> n - 1]
      BY <2>1, UnlinkIs
    <2> QED
      BY <1>6, <2>2 DEF c
  <1>8. /\ Len(over) = n
        /\ over[n] = IF p = n THEN item ELSE l[n]
    <2>1. DOMAIN over = 1..n
      BY <1>2
    <2>2. \A j \in 1..n : over[j] = IF j = p THEN item ELSE l[j]
      BY <1>2
    <2>3. n \in 1..n
      BY <1>1
    <2>4. over \in Seq(S)
      <3>1. p \in 1..n
        BY <1>1
      <3> QED
        BY <1>2, <3>1, ExceptSeq
    <2> HIDE DEF over, n
    <2>5. Len(over) = n
      BY <1>1, <2>1, <2>4, LenProperties
    <2> QED
      BY <2>2, <2>3, <2>5
  <1> HIDE DEF n, rest, last, over
  <1>9. p \in 1..n /\ n - 1 \in 1..(n - 1) /\ p - 1 \in 1..n
    BY <1>1
  <1>10. Made(rest).last = IF p = n THEN l[p - 1].id ELSE last
    <2>1. Made(rest).last = rest[n - 1].id
      BY <1>4, <1>5
    <2>2. CASE p = n
      <3>1. n - 1 < p
        BY <1>1, <2>2
      <3> QED
        BY <1>4, <1>9, <2>1, <2>2, <3>1
    <2>3. CASE p # n
      <3>1. ~(n - 1 < p) /\ n - 1 + 1 = n
        BY <1>1, <2>3
      <3> QED
        BY <1>3, <1>4, <1>9, <2>1, <2>3, <3>1
    <2> QED
      BY <2>2, <2>3
  <1>11. TakeOut(Made(l), p) = Made(rest)
    <2>1. TakeOut(Made(l), p) = [list |-> rest, last |-> IF p = n THEN l[p - 1].id ELSE last, count |-> n - 1]
      BY <1>3, <1>7 DEF TakeOut, n
    <2> QED
      BY <1>4, <1>5, <1>10, <2>1
  <1>12. MoveAway(Made(l), p - 1) = Made(rest)
    <2>1. MoveAway(Made(l), p - 1) =
            [list |-> rest, last |-> IF last = l[p].id THEN l[p - 1].id ELSE last, count |-> n - 1]
      BY <1>3, <1>6, <1>7 DEF MoveAway
    <2>2. last = l[p].id <=> p = n
      BY <1>2, <1>9
    <2> QED
      BY <1>4, <1>5, <1>10, <2>1, <2>2
  <1>13. Overwrite(Made(l), p - 1, item) = Made(over)
    <2>1. Overwrite(Made(l), p - 1, item) =
            [list |-> over, last |-> IF last = l[p].id THEN item.id ELSE last, count |-> n]
      <3> DEFINE c == Made(l)
      <3>1. c = [list |-> l, last |-> last, count |-> n]
        BY <1>3
      <3> HIDE DEF c
      <3>2. Overwrite(c, p - 1, item) =
                 [list |-> [l EXCEPT ![p - 1 + 1] = item],
                  last |-> IF last = l[p - 1 + 1].id THEN item.id ELSE last, count |-> n]
        BY <3>1, OverwriteIs
      <3> QED
        BY <1>6, <3>2 DEF over, c
    <2>2. last = l[p].id <=> p = n
      BY <1>2, <1>9
    <2>3. Made(over) = [list |-> over, last |-> over[n].id, count |-> n]
      BY <1>8 DEF Made
    <2> QED
      BY <1>3, <1>8, <2>1, <2>2, <2>3
  <1> QED
    BY <1>11, <1>12, <1>13 DEF rest, over

-----------------------------------------------------------------------------
(* Placing an item, and finding the one to take out *)

\* An item is placed behind the header, or the call fails and changes nothing.
LEMMA PlaceIs ==
    ASSUME NEW S, NEW l, Sound(l, S), NEW item \in S, NEW d \in Dispositions,
           NEW refprop, NEW idx \in Int, NEW freed
    PROVE  \/ \E e \in {"EINVAL", "ENOENT", "CRASH"} :
                 Place(Made(l), item, d, refprop, idx, freed) = Result(e, Made(l), freed)
           \/ \E k \in 2..(Len(l) + 1) :
                 Place(Made(l), item, d, refprop, idx, freed)
                    = Result("EOK", Made(InsertAt(l, k, item)), freed)
  <1> DEFINE c == Made(l)
             n == Len(l)
             P == Place(c, item, d, refprop, idx, freed)
             ref == col_find_property(c.list, refprop, ANY)
             dup == col_find_property_sub(c.list, INTERRUPT(d), item.prop,
                                          RefIndex(d, idx, -1), FALSE, ANY)
             last == Result("EOK", LinkLast(c, item), freed)
             front == Result("EOK", AddFirst(c, item), freed)
             after(q) == Result("EOK", LinkAfter(c, q, item), freed)
             beside(q) == Result("EOK", AddBesideDup(c, q, item), freed)
             failed(e) == Result(e, c, freed)
             Placed == \E k \in 2..(n + 1) : P = Result("EOK", Made(InsertAt(l, k, item)), freed)
             Failed == \E e \in {"EINVAL", "ENOENT", "CRASH"} : P = Result(e, c, freed)
  <1>1. n \in Nat /\ n > 0 /\ l \in Seq(S)
    BY LastIs
  <1>2. c.list = l /\ c.count = n
    BY DEF Made
  <1>3. ref \in 0..n /\ (ref # 0 => ref < n)
    <2> DEFINE M == Matching(l, refprop, ANY)
    <2>1. ref = IF M = {} THEN 0 ELSE Min(M) - 1
      BY <1>1, <1>2, FindFirst
    <2>2. M \in SUBSET Nat /\ M \subseteq 1..n
      <3>1. M \subseteq 1..n
        BY <1>1, MatchingIn
      <3> QED
        BY <1>1, <3>1
    <2>3. M # {} => Min(M) \in M
      BY <2>2, MinIs
    <2> DEFINE m == Min(M)
    <2>4. M # {} => m \in 1..n
      BY <2>2, <2>3
    <2>5. M # {} => ref = m - 1
      BY <2>1
    <2> HIDE DEF m, n, ref
    <2>6. M # {} => ref \in 0..n /\ (ref # 0 => ref < n)
      BY <1>1, <2>4, <2>5
    <2>7. M = {} => ref = 0
      BY <2>1
    <2> QED
      BY <1>1, <2>6, <2>7
  <1>4. dup = CRASH \/ dup \in 0..n
    <2>1. RefIndex(d, idx, -1) \in Int
      BY DEF RefIndex
    <2> QED
      BY <1>1, <1>2, <2>1, FindRange
  <1>5. \A k \in 2..(n + 1) : P = Result("EOK", Made(InsertAt(l, k, item)), freed) => Placed
    OBVIOUS
  <1>6. ASSUME NEW q \in 1..n
        PROVE  /\ last = Result("EOK", Made(InsertAt(l, n + 1, item)), freed)
               /\ beside(q) = Result("EOK", Made(InsertAt(l, q + 1, item)), freed)
               /\ q < n => after(q) = Result("EOK", Made(InsertAt(l, q + 1, item)), freed)
               /\ front = Result("EOK", Made(InsertAt(l, 2, item)), freed)
    BY LinkIs
  <1>7. \A e \in {"EINVAL", "ENOENT", "CRASH"} : P = failed(e) => Failed
    OBVIOUS
  <1>8. P = CASE d = "END" -> last
              [] d = "FRONT" -> front
              [] d \in {"BEFORE", "AFTER"} /\ refprop = NULL -> failed("EINVAL")
              [] d \in {"BEFORE", "AFTER"} /\ refprop # NULL /\ ref = 0 -> failed("ENOENT")
              [] d = "BEFORE" /\ refprop # NULL /\ ref # 0 -> after(ref)
              [] d = "AFTER" /\ refprop # NULL /\ ref # 0 ->
                    Result("EOK", IF ref + 1 < Len(c.list) THEN LinkAfter(c, ref + 1, item)
                                                           ELSE LinkLast(c, item), freed)
              [] d = "INDEX" ->
                    Result("EOK", CASE idx = 0 -> AddFirst(c, item)
                                    [] idx # 0 /\ BeyondLast(c, idx) -> LinkLast(c, item)
                                    [] OTHER -> LinkAfter(c, 1 + idx, item), freed)
              [] d \in Dups /\ dup = CRASH -> failed("CRASH")
              [] d \in Dups /\ dup = 0 -> failed("ENOENT")
              [] d \in Dups /\ dup > 0 -> beside(dup)
    BY DEF Place
  <1>9. Result("EOK", IF ref + 1 < Len(c.list) THEN LinkAfter(c, ref + 1, item)
                                               ELSE LinkLast(c, item), freed)
          = IF ref + 1 < n THEN after(ref + 1) ELSE last
    BY <1>2
  <1>10. Result("EOK", CASE idx = 0 -> AddFirst(c, item)
                         [] idx # 0 /\ BeyondLast(c, idx) -> LinkLast(c, item)
                         [] OTHER -> LinkAfter(c, 1 + idx, item), freed)
          = IF idx = 0 THEN front
            ELSE IF idx < 0 \/ idx >= n - 1 THEN last ELSE after(1 + idx)
    <2>1. BeyondLast(c, idx) <=> idx < 0 \/ idx >= n - 1
      BY <1>2 DEF BeyondLast
    <2> HIDE DEF c, n
    <2> QED
      BY <2>1
  <1> SUFFICES Failed \/ Placed
    OBVIOUS
  <1> HIDE DEF P, c, n, ref, dup, last, front, after, beside, failed, Placed, Failed
  <1>11. P = last \/ P = front => Placed
    <2>1. 1 \in 1..n /\ n + 1 \in 2..(n + 1) /\ 2 \in 2..(n + 1)
      BY <1>1
    <2> QED
      BY <1>5, <1>6, <2>1
  <1>12. ASSUME NEW q \in 1..n, \/ P = beside(q) 
                                \/ q < n /\ P = after(q)
         PROVE  Placed
    <2>1. q + 1 \in 2..(n + 1)
      BY <1>1
    <2> QED
      BY <1>5, <1>6, <1>12, <2>1
  <1>13. CASE d \in {"END", "FRONT"}
    <2>1. P = last \/ P = front
      BY <1>8, <1>13 DEF Dups
    <2> QED
      BY <1>11, <2>1
  <1>14. CASE d \in {"BEFORE", "AFTER"} /\ (refprop = NULL \/ ref = 0)
    <2>1. P = failed("EINVAL") \/ P = failed("ENOENT")
      BY <1>8, <1>14 DEF Dups
    <2> QED
      BY <1>7, <2>1
  <1>15. CASE d = "BEFORE" /\ refprop # NULL /\ ref # 0
    <2>1. P = after(ref)
      BY <1>8, <1>15 DEF Dups
    <2>2. ref \in 1..n /\ ref < n
      BY <1>1, <1>3, <1>15
    <2> QED
      BY <1>12, <2>1, <2>2
  <1>16. CASE d = "AFTER" /\ refprop # NULL /\ ref # 0
    <2>1. P = IF ref + 1 < n THEN after(ref + 1) ELSE last
      BY <1>8, <1>9, <1>16 DEF Dups
    <2>2. CASE ref + 1 < n
      <3>1. ref + 1 \in 1..n
        BY <1>1, <1>3, <1>16, <2>2
      <3> QED
        BY <1>12, <2>1, <2>2, <3>1
    <2> QED
      BY <1>11, <2>1, <2>2
  <1>17. CASE d = "INDEX"
    <2>1. P = IF idx = 0 THEN front
              ELSE IF idx < 0 \/ idx >= n - 1 THEN last ELSE after(1 + idx)
      BY <1>8, <1>10, <1>17 DEF Dups
    <2>2. CASE idx # 0 /\ ~(idx < 0 \/ idx >= n - 1)
      <3>1. 1 + idx \in 1..n /\ 1 + idx < n
        BY <1>1, <2>2
      <3> QED
        BY <1>12, <2>1, <2>2, <3>1
    <2> QED
      BY <1>11, <2>1, <2>2
  <1>18. CASE d \in Dups
    <2>1. /\ d \notin {"END", "FRONT", "BEFORE", "AFTER", "INDEX"}
          /\ d # "END" /\ d # "FRONT" /\ d # "BEFORE" /\ d # "AFTER" /\ d # "INDEX"
      BY <1>18 DEF Dups
    <2>2. CASE dup = CRASH
      <3>1. P = failed("CRASH")
        BY <1>8, <1>18, <2>1, <2>2 DEF CRASH
      <3> QED
        BY <1>7, <3>1
    <2>3. CASE dup = 0
      <3>1. P = failed("ENOENT")
        BY <1>8, <1>18, <2>1, <2>3 DEF CRASH
      <3> QED
        BY <1>7, <3>1
    <2>4. CASE dup \in 1..n
      <3>1. dup > 0 /\ dup # 0 /\ dup # CRASH
        BY <1>1, <2>4 DEF CRASH
      <3>2. P = beside(dup)
        BY <1>8, <1>18, <2>1, <3>1
      <3> QED
        BY <1>12, <2>4, <3>2
    <2>5. dup \in 0..n => dup = 0 \/ dup \in 1..n
      BY <1>1
    <2> QED
      BY <1>4, <2>2, <2>3, <2>4, <2>5
  <1> QED
    BY <1>13, <1>14, <1>15, <1>16, <1>17, <1>18 DEF Dispositions

-----------------------------------------------------------------------------
(* The items of a list after a change *)

\* The addresses of the items of a list.
LEMMA IdsAre ==
    ASSUME NEW S, NEW l \in Seq(S)
    PROVE  IdsOf(Range(l)) = {l[i].id : i \in 1..Len(l)}
  <1>1. DOMAIN l = 1..Len(l)
    BY LenProperties
  <1>2. Range(l) = {l[i] : i \in 1..Len(l)}
    BY <1>1 DEF Range
  <1> QED
    BY <1>2 DEF IdsOf

\* A new item keeps the list sound.
LEMMA InsertSound ==
    ASSUME NEW S, NEW l, Sound(l, S), NEW item \in S, NEW k \in 2..(Len(l) + 1),
           item.id \notin IdsOf(Range(l))
    PROVE  /\ Sound(InsertAt(l, k, item), S) /\ InsertAt(l, k, item)[1] = l[1]
           /\ IdsOf(Range(InsertAt(l, k, item))) = IdsOf(Range(l)) \cup {item.id}
  <1> DEFINE n == Len(l)
             t == InsertAt(l, k, item)
  <1>1. n \in Nat /\ n > 0 /\ k \in 2..(n + 1)
    BY LastIs
  <1>2. l \in Seq(S)
    BY LastIs
  <1>3. \A i, j \in 1..n : l[i].id = l[j].id => i = j
    BY DEF Sound
  <1>4. IdsOf(Range(l)) = {l[i].id : i \in 1..n}
    BY <1>2, IdsAre
  <1>5. \A i \in 1..n : l[i].id # item.id
    BY <1>4
  <1>6. t \in Seq(S) /\ Len(t) = n + 1
    <2>1. k \in 1..(n + 1)
      BY <1>1
    <2> QED
      BY <1>2, <2>1, Inserted
  <1>7. \A j \in 1..(n + 1) : t[j] = IF j < k THEN l[j] ELSE IF j = k THEN item ELSE l[j - 1]
    <2>1. k \in 1..(n + 1)
      BY <1>1
    <2> QED
      BY <1>2, <2>1, Inserted
  <1>8. IdsOf(Range(t)) = {t[i].id : i \in 1..(n + 1)}
    BY <1>6, IdsAre
  <1> HIDE DEF n, t
  <1>9. ASSUME NEW i \in 1..(n + 1)
        PROVE  \/ i < k /\ i \in 1..n /\ t[i] = l[i]
               \/ i = k /\ t[i] = item
               \/ i > k /\ i - 1 \in 1..n /\ t[i] = l[i - 1]
    <2>1. CASE i < k
      <3>1. i \in 1..n
        BY <1>1, <2>1
      <3> QED
        BY <1>7, <2>1, <3>1
    <2>2. CASE i = k
      <3>1. ~(i < k)
        BY <1>1, <2>2
      <3> QED
        BY <1>7, <2>2, <3>1
    <2>3. CASE i > k
      <3>1. i - 1 \in 1..n /\ ~(i < k) /\ i # k
        BY <1>1, <2>3
      <3> QED
        BY <1>7, <2>3, <3>1
    <2> QED
      BY <1>1, <2>1, <2>2, <2>3
  <1>10. ASSUME NEW i \in 1..(n + 1), NEW j \in 1..(n + 1), t[i].id = t[j].id PROVE i = j
    <2>1. CASE t[i] = item \/ t[j] = item
      BY <1>1, <1>5, <1>9, <1>10, <2>1
    <2>2. CASE t[i] # item /\ t[j] # item
      <3>1. i < k /\ j < k => i = j
        BY <1>1, <1>3, <1>9, <1>10, <2>2
      <3>2. i > k /\ j > k => i - 1 = j - 1
        BY <1>1, <1>3, <1>9, <1>10, <2>2
      <3>3. ~(i < k /\ j > k)
        <4> SUFFICES ASSUME i < k, j > k PROVE FALSE
          OBVIOUS
        <4>1. i = j - 1
          BY <1>1, <1>3, <1>9, <1>10
        <4> QED
          BY <1>1, <4>1
      <3>4. ~(j < k /\ i > k)
        <4> SUFFICES ASSUME j < k, i > k PROVE FALSE
          OBVIOUS
        <4>1. j = i - 1
          BY <1>1, <1>3, <1>9, <1>10
        <4> QED
          BY <1>1, <4>1
      <3>5. i # k /\ j # k
        BY <1>1, <1>9, <2>2
      <3> QED
        BY <1>1, <3>1, <3>2, <3>3, <3>4, <3>5
    <2> QED
      BY <2>1, <2>2
  <1>11. Sound(t, S)
    BY <1>1, <1>6, <1>10 DEF Sound
  <1>12. t[1] = l[1]
    <2>1. 1 \in 1..(n + 1) /\ 1 < k
      BY <1>1
    <2> QED
      BY <1>7, <2>1
  <1>13. {t[i].id : i \in 1..(n + 1)} = {l[i].id : i \in 1..n} \cup {item.id}
    <2>1. ASSUME NEW i \in 1..(n + 1) PROVE t[i].id \in {l[q].id : q \in 1..n} \cup {item.id}
      BY <1>9
    <2>2. ASSUME NEW i \in 1..n PROVE l[i].id \in {t[q].id : q \in 1..(n + 1)}
      <3>1. CASE i < k
        <4>1. i \in 1..(n + 1) /\ t[i] = l[i]
          BY <1>1, <1>7, <3>1
        <4> QED
          BY <4>1
      <3>2. CASE ~(i < k)
        <4>1. i + 1 \in 1..(n + 1) /\ ~(i + 1 < k) /\ i + 1 # k /\ i + 1 - 1 = i
          BY <1>1, <3>2
        <4>2. t[i + 1] = l[i]
          BY <1>7, <4>1
        <4> QED
          BY <4>1, <4>2
      <3> QED
        BY <3>1, <3>2
    <2>3. item.id \in {t[q].id : q \in 1..(n + 1)}
      <3>1. k \in 1..(n + 1) /\ ~(k < k)
        BY <1>1
      <3>2. t[k] = item
        BY <1>7, <3>1
      <3> QED
        BY <3>1, <3>2
    <2> QED
      BY <2>1, <2>2, <2>3
  <1> QED
    BY <1>4, <1>8, <1>11, <1>12, <1>13 DEF t

\* So does the removal of an item.
LEMMA RemoveSound ==
    ASSUME NEW S, NEW l, Sound(l, S), NEW p \in 2..Len(l)
    PROVE  /\ Sound(RemoveAt(l, p), S) /\ RemoveAt(l, p)[1] = l[1]
           /\ Len(RemoveAt(l, p)) = Len(l) - 1
           /\ IdsOf(Range(RemoveAt(l, p))) = IdsOf(Range(l)) \ {l[p].id}
  <1> DEFINE n == Len(l)
             t == RemoveAt(l, p)
  <1>1. n \in Nat /\ n > 0 /\ p \in 2..n
    BY LastIs
  <1>2. l \in Seq(S)
    BY LastIs
  <1>3. \A i, j \in 1..n : l[i].id = l[j].id => i = j
    BY DEF Sound
  <1>4. IdsOf(Range(l)) = {l[i].id : i \in 1..n}
    BY <1>2, IdsAre
  <1>5. p \in 1..n
    BY <1>1
  <1>6. t \in Seq(S) /\ Len(t) = n - 1
    BY <1>2, <1>5, Removed
  <1>7. \A j \in 1..(n - 1) : t[j] = IF j < p THEN l[j] ELSE l[j + 1]
    BY <1>2, <1>5, Removed
  <1>8. IdsOf(Range(t)) = {t[i].id : i \in 1..(n - 1)}
    BY <1>6, IdsAre
  <1> HIDE DEF n, t
  <1>9. ASSUME NEW i \in 1..(n - 1)
        PROVE  \/ i < p /\ i \in 1..n /\ t[i] = l[i]
               \/ ~(i < p) /\ i + 1 \in 1..n /\ t[i] = l[i + 1]
    <2>1. i \in 1..n /\ i + 1 \in 1..n
      BY <1>1
    <2> QED
      BY <1>7, <2>1
  <1>10. ASSUME NEW i \in 1..(n - 1), NEW j \in 1..(n - 1), t[i].id = t[j].id PROVE i = j
    <2>1. CASE i < p /\ j < p
      BY <1>3, <1>9, <1>10, <2>1
    <2>2. CASE ~(i < p) /\ ~(j < p)
      <3>1. i + 1 = j + 1
        BY <1>3, <1>9, <1>10, <2>2
      <3> QED
        BY <1>1, <3>1
    <2>3. CASE i < p /\ ~(j < p)
      <3>1. i = j + 1
        BY <1>3, <1>9, <1>10, <2>3
      <3> QED
        BY <1>1, <2>3, <3>1
    <2>4. CASE ~(i < p) /\ j < p
      <3>1. i + 1 = j
        BY <1>3, <1>9, <1>10, <2>4
      <3> QED
        BY <1>1, <2>4, <3>1
    <2> QED
      BY <2>1, <2>2, <2>3, <2>4
  <1>11. Sound(t, S)
    BY <1>1, <1>6, <1>10 DEF Sound
  <1>12. t[1] = l[1]
    <2>1. 1 \in 1..(n - 1) /\ 1 < p
      BY <1>1
    <2> QED
      BY <1>7, <2>1
  <1>13. {t[i].id : i \in 1..(n - 1)} = {l[i].id : i \in 1..n} \ {l[p].id}
    <2>1. ASSUME NEW i \in 1..(n - 1) PROVE t[i].id \in {l[q].id : q \in 1..n} \ {l[p].id}
      <3>1. CASE i < p
        <4>1. i # p
          BY <1>1, <3>1
        <4> QED
          BY <1>3, <1>5, <1>9, <3>1, <4>1
      <3>2. CASE ~(i < p)
        <4>1. i + 1 # p
          BY <1>1, <3>2
        <4> QED
          BY <1>3, <1>5, <1>9, <3>2, <4>1
      <3> QED
        BY <3>1, <3>2
    <2>2. ASSUME NEW i \in 1..n, l[i].id # l[p].id PROVE l[i].id \in {t[q].id : q \in 1..(n - 1)}
      <3>0. i # p
        BY <2>2
      <3>1. CASE i < p
        <4>1. i \in 1..(n - 1)
          BY <1>1, <3>1
        <4>2. t[i] = l[i]
          BY <1>7, <3>1, <4>1
        <4> QED
          BY <4>1, <4>2
      <3>2. CASE ~(i < p)
        <4>1. i - 1 \in 1..(n - 1) /\ ~(i - 1 < p) /\ i - 1 + 1 = i
          BY <1>1, <3>0, <3>2
        <4>2. t[i - 1] = l[i]
          BY <1>7, <4>1
        <4> QED
          BY <4>1, <4>2
      <3> QED
        BY <3>1, <3>2
    <2> QED
      BY <2>1, <2>2
  <1> QED
    BY <1>4, <1>6, <1>8, <1>11, <1>12, <1>13 DEF t, n

\* So does a new item in the place of another.
LEMMA ReplaceSound ==
    ASSUME NEW S, NEW l, Sound(l, S), NEW item \in S, NEW p \in 2..Len(l),
           item.id \notin IdsOf(Range(l)) \/ item.id = l[p].id
    PROVE  /\ Sound([l EXCEPT ![p] = item], S) /\ [l EXCEPT ![p] = item][1] = l[1]
           /\ Len([l EXCEPT ![p] = item]) = Len(l)
           /\ IdsOf(Range([l EXCEPT ![p] = item])) = (IdsOf(Range(l)) \ {l[p].id}) \cup {item.id}
  <1> DEFINE n == Len(l)
             t == [l EXCEPT ![p] = item]
  <1>1. n \in Nat /\ n > 0 /\ p \in 2..n
    BY LastIs
  <1>2. l \in Seq(S) /\ DOMAIN l = 1..n
    BY LastIs
  <1>3. \A i, j \in 1..n : l[i].id = l[j].id => i = j
    BY DEF Sound
  <1>4. IdsOf(Range(l)) = {l[i].id : i \in 1..n}
    BY <1>2, IdsAre
  <1>5. p \in 1..n
    BY <1>1
  <1>6. \A i \in 1..n : i # p => l[i].id # item.id
    BY <1>3, <1>4, <1>5
  <1>7. t \in Seq(S) /\ DOMAIN t = 1..n /\ \A i \in 1..n : t[i] = IF i = p THEN item ELSE l[i]
    BY <1>2, <1>5, ExceptSeq
  <1> HIDE DEF n, t
  <1>8. Len(t) = n
    BY <1>1, <1>7, LenProperties
  <1>9. IdsOf(Range(t)) = {t[i].id : i \in 1..n}
    BY <1>7, <1>8, IdsAre
  <1>10. ASSUME NEW i \in 1..n, NEW j \in 1..n, t[i].id = t[j].id PROVE i = j
    BY <1>3, <1>6, <1>7, <1>10
  <1>11. Sound(t, S)
    BY <1>1, <1>7, <1>8, <1>10 DEF Sound
  <1>12. t[1] = l[1]
    <2>1. 1 \in 1..n /\ 1 # p
      BY <1>1
    <2> QED
      BY <1>7, <2>1
  <1>13. {t[i].id : i \in 1..n} = ({l[i].id : i \in 1..n} \ {l[p].id}) \cup {item.id}
    <2>1. ASSUME NEW i \in 1..n
          PROVE  t[i].id \in ({l[q].id : q \in 1..n} \ {l[p].id}) \cup {item.id}
      BY <1>3, <1>5, <1>7
    <2>2. ASSUME NEW i \in 1..n, l[i].id # l[p].id PROVE l[i].id \in {t[q].id : q \in 1..n}
      <3>1. i # p
        BY <2>2
      <3>2. t[i] = l[i]
        BY <1>7, <3>1
      <3> QED
        BY <3>2
    <2>3. item.id \in {t[q].id : q \in 1..n}
      <3>1. t[p] = item
        BY <1>5, <1>7
      <3> QED
        BY <1>5, <3>1
    <2> QED
      BY <2>1, <2>2, <2>3
  <1> QED
    BY <1>4, <1>8, <1>9, <1>11, <1>12, <1>13 DEF t, n

-----------------------------------------------------------------------------
(* The calls *)

Failures == {"EINVAL", "ENOENT", "CRASH"}

\* The type that the flags make the search for duplicates look for.
CheckedType(item, f) == IF f \in {"DUPOVERT", "DUPERRORT", "DUPMOVET"} THEN item.type ELSE ANY

\* The item is inserted or the call fails, with no duplicate found.
Inserts(r, l, item, freed) ==
    \/ \E e \in Failures : r = Result(e, Made(l), freed)
    \/ \E k \in 2..(Len(l) + 1) : r = Result("EOK", Made(InsertAt(l, k, item)), freed)

\* What becomes of the duplicate at p.
Replaces(r, l, p, item) ==
    \/ r = Result("EEXIST", Made(l), {})
    \/ r = Result("EOK", Made([l EXCEPT ![p] = item]), {l[p].id})
    \/ Inserts(r, RemoveAt(l, p), item, {l[p].id})

\* What an insertion may do to a list: col_insert_item_into_current.
LEMMA InsertOutcome ==
    ASSUME NEW S, NEW l, Sound(l, S), NEW item \in S, NEW d \in Dispositions,
           NEW refprop, NEW idx \in Int, NEW f \in Flags, NEW r,
           r = col_insert_item_into_current(Made(l), item, d, refprop, idx, f)
    PROVE  LET M == Matching(l, item.prop, CheckedType(item, f))
           IN  \/ (f = "NOCHECK" \/ M = {} \/ 1 \in M) /\ Inserts(r, l, item, {})
               \/ f # "NOCHECK" /\ \E p \in 2..Len(l) : p \in M /\ Replaces(r, l, p, item)
  <1> DEFINE c == Made(l)
             n == Len(l)
             ty == CheckedType(item, f)
             M == Matching(l, item.prop, ty)
             p == IF f = "NOCHECK" THEN 0 ELSE col_find_property(c.list, item.prop, ty)
             old == c.list[p + 1].id
             q == p + 1
  <1>1. n \in Nat /\ n > 0
    BY LastIs
  <1>2. l \in Seq(S) /\ c.list = l
    BY LastIs DEF Made
  <1>3. r = CASE p = 0 -> Place(c, item, d, refprop, idx, {})
              [] p > 0 /\ f \in {"DUPOVER", "DUPOVERT"} -> Result("EOK", Overwrite(c, p, item), {old})
              [] p > 0 /\ f \in {"DUPERROR", "DUPERRORT"} -> Result("EEXIST", c, {})
              [] p > 0 /\ f \in {"DUPMOVE", "DUPMOVET"} ->
                    Place(MoveAway(c, p), item, d, refprop, idx, {old})
    BY DEF col_insert_item_into_current, CheckedType
  <1>4. f # "NOCHECK" => p = IF M = {} THEN 0 ELSE Min(M) - 1
    BY <1>2, FindFirst
  <1>5. M \subseteq 1..n
    BY <1>2, MatchingIn
  <1> DEFINE m == Min(M)
  <1>6. M # {} => m \in M /\ \A x \in M : m <= x
    <2>1. M \in SUBSET Nat
      BY <1>1, <1>5
    <2> QED
      BY <2>1, MinIs
  <1>7. f # "NOCHECK" /\ M # {} => p = m - 1
    BY <1>4
  <1>8. f # "NOCHECK" /\ M = {} => p = 0
    BY <1>4
  <1>9. f = "NOCHECK" => p = 0
    OBVIOUS
  <1>10. old = l[q].id
    BY <1>2
  <1> HIDE DEF n, M, m, p, c
  <1>11. M # {} => m \in 1..n
    BY <1>5, <1>6
  <1>12. m \in 1..n /\ p = m - 1 => m = p + 1
    BY <1>1
  <1>13. CASE p = 0
    <2>1. f = "NOCHECK" \/ M = {} \/ 1 \in M
      <3>1. m = p + 1 => m = 1
        BY <1>13
      <3>2. f # "NOCHECK" /\ M # {} => m = p + 1
        BY <1>7, <1>11, <1>12
      <3> QED
        BY <1>6, <3>1, <3>2
    <2>2. r = Place(c, item, d, refprop, idx, {})
      BY <1>3, <1>13
    <2>3. Inserts(r, l, item, {})
      BY <2>2, PlaceIs DEF Inserts, Failures, c
    <2> QED
      BY <2>1, <2>3 DEF M
  <1>14. CASE p # 0
    <2>1. f # "NOCHECK" /\ M # {}
      BY <1>8, <1>9, <1>14
    <2>2. q \in M /\ q \in 2..n /\ p > 0 /\ q - 1 = p
      <3>1. m \in 1..n /\ p = m - 1
        BY <1>7, <1>11, <2>1
      <3>2. q = m /\ q \in 2..n /\ p > 0 /\ q - 1 = p
        BY <1>1, <1>14, <3>1
      <3> QED
        BY <1>6, <2>1, <3>2
    <2> HIDE DEF q
    <2>3. q \in 2..Len(l)
      BY <2>2 DEF n
    <2>4. MoveAway(c, p) = Made(RemoveAt(l, q)) /\ Overwrite(c, p, item) = Made([l EXCEPT ![q] = item])
      BY <2>2, <2>3, TakeIs DEF c
    <2>5. Sound(RemoveAt(l, q), S)
      BY <2>3, RemoveSound
    <2>6. Replaces(r, l, q, item)
      <3>1. CASE f \in {"DUPOVER", "DUPOVERT"}
        <4>1. r = Result("EOK", Overwrite(c, p, item), {old})
          BY <1>3, <1>14, <2>2, <3>1
        <4> QED
          BY <1>10, <2>4, <4>1 DEF Replaces
      <3>2. CASE f \in {"DUPERROR", "DUPERRORT"}
        <4>1. r = Result("EEXIST", c, {})
          BY <1>3, <1>14, <2>2, <3>2
        <4> QED
          BY <4>1 DEF Replaces, c
      <3>3. CASE f \in {"DUPMOVE", "DUPMOVET"}
        <4>1. r = Place(MoveAway(c, p), item, d, refprop, idx, {old})
          BY <1>3, <1>14, <2>2, <3>3
        <4>2. r = Place(Made(RemoveAt(l, q)), item, d, refprop, idx, {l[q].id})
          BY <1>10, <2>4, <4>1
        <4> DEFINE rest == RemoveAt(l, q)
                   freed == {l[q].id}
        <4>3. Sound(rest, S) /\ r = Place(Made(rest), item, d, refprop, idx, freed)
          BY <2>5, <4>2
        <4> HIDE DEF rest, freed
        <4>4. Inserts(r, rest, item, freed)
          BY <4>3, PlaceIs DEF Inserts, Failures
        <4> QED
          BY <4>4 DEF Replaces, rest, freed
      <3> QED
        BY <2>1, <3>1, <3>2, <3>3 DEF Flags
    <2> QED
      BY <2>1, <2>2, <2>3, <2>6 DEF M
  <1> QED
    BY <1>13, <1>14

\* An extraction takes an item behind the header: col_extract_item_from_current.
LEMMA ExtractIs ==
    ASSUME NEW S, NEW l, Sound(l, S), NEW d \in Dispositions, NEW refprop, NEW idx \in Int, NEW ty
    PROVE  ExtractPosition(Made(l), d, refprop, idx, ty) \in {0} \cup 2..Len(l)
  <1> DEFINE c == Made(l)
             n == Len(l)
             P == ExtractPosition(c, d, refprop, idx, ty)
             ref == col_find_property(c.list, refprop, ty)
             dup == col_find_property_sub(c.list, INTERRUPT(d), refprop,
                                          RefIndex(d, idx, -2), TRUE, ty)
  <1>1. n \in Nat /\ n > 0
    BY LastIs
  <1>2. l \in Seq(S) /\ c.list = l /\ c.count = n
    BY LastIs DEF Made
  <1>3. P = CASE c.count <= 1 -> 0
              [] c.count > 1 /\ d = "END" -> Len(c.list)
              [] c.count > 1 /\ d = "FRONT" -> 2
              [] c.count > 1 /\ d = "BEFORE" -> IF ref <= 1 THEN 0 ELSE ref
              [] c.count > 1 /\ d = "AFTER" ->
                    IF ref = 0 \/ ref + 1 = Len(c.list) THEN 0 ELSE ref + 2
              [] c.count > 1 /\ d = "INDEX" ->
                    IF BeyondLast(c, idx) /\ idx # 0 THEN 0 ELSE idx + 2
              [] c.count > 1 /\ d \in Dups -> IF dup = 0 THEN 0 ELSE dup + 1
    BY DEF ExtractPosition
  <1>4. ref \in 0..n /\ (ref # 0 => ref < n)
    <2> DEFINE M == Matching(l, refprop, ty)
               m == Min(M)
    <2>1. ref = IF M = {} THEN 0 ELSE Min(M) - 1
      BY <1>2, FindFirst
    <2>2. M \in SUBSET Nat /\ M \subseteq 1..n
      <3>1. M \subseteq 1..n
        BY <1>2, MatchingIn
      <3> QED
        BY <1>1, <3>1
    <2>3. M # {} => m \in M
      BY <2>2, MinIs
    <2>4. M # {} => m \in 1..n
      BY <2>2, <2>3
    <2>5. M # {} => ref = m - 1
      BY <2>1
    <2> HIDE DEF m, n, ref
    <2>6. M # {} => ref \in 0..n /\ (ref # 0 => ref < n)
      BY <1>1, <2>4, <2>5
    <2>7. M = {} => ref = 0
      BY <2>1
    <2> QED
      BY <1>1, <2>6, <2>7
  <1>5. dup \in 0..n /\ (dup > 0 => dup < n)
    <2>1. RefIndex(d, idx, -2) \in Int
      BY DEF RefIndex
    <2>2. TRUE \in BOOLEAN
      OBVIOUS
    <2>3. /\ dup = CRASH \/ dup \in 0..n
          /\ TRUE => dup # CRASH /\ (dup > 0 => dup < n)
      BY <1>2, <2>1, <2>2, FindRange
    <2> QED
      BY <2>3
  <1>6. BeyondLast(c, idx) <=> idx < 0 \/ idx >= n - 1
    BY <1>2 DEF BeyondLast
  <1>7. Len(c.list) = n
    BY <1>2
  <1> SUFFICES P \in {0} \cup 2..n
    OBVIOUS
  <1> HIDE DEF P, c, n, ref, dup
  <1>8. CASE n <= 1
    BY <1>1, <1>2, <1>3, <1>8
  <1>9. CASE n > 1
    <2>0. c.count > 1 /\ ~(c.count <= 1)
      BY <1>1, <1>2, <1>9
    <2>1. CASE d = "END"
      <3>1. P = n
        BY <1>3, <1>7, <2>0, <2>1 DEF Dups
      <3> QED
        BY <1>1, <1>9, <3>1
    <2>2. CASE d = "FRONT"
      <3>1. P = 2
        BY <1>3, <2>0, <2>2 DEF Dups
      <3> QED
        BY <1>1, <1>9, <3>1
    <2>3. CASE d = "BEFORE"
      <3>1. P = IF ref <= 1 THEN 0 ELSE ref
        BY <1>3, <2>0, <2>3 DEF Dups
      <3> QED
        BY <1>1, <1>4, <3>1
    <2>4. CASE d = "AFTER"
      <3>1. P = IF ref = 0 \/ ref + 1 = n THEN 0 ELSE ref + 2
        BY <1>3, <1>7, <2>0, <2>4 DEF Dups
      <3> QED
        BY <1>1, <1>4, <3>1
    <2>5. CASE d = "INDEX"
      <3>1. P = IF (idx < 0 \/ idx >= n - 1) /\ idx # 0 THEN 0 ELSE idx + 2
        BY <1>3, <1>6, <2>0, <2>5 DEF Dups
      <3> QED
        BY <1>1, <1>9, <3>1
    <2>6. CASE d \in Dups
      <3>1. P = IF dup = 0 THEN 0 ELSE dup + 1
        BY <1>3, <2>0, <2>6 DEF Dups
      <3> QED
        BY <1>1, <1>5, <3>1
    <2> QED
      BY <2>1, <2>2, <2>3, <2>4, <2>5, <2>6 DEF Dispositions
  <1> QED
    BY <1>1, <1>8, <1>9

-----------------------------------------------------------------------------
(* The list, its header and the owners of the items *)

GoodList(l) == Sound(l, Item \cup {HeaderItem}) /\ l[1] = HeaderItem

Listed(c) == IF c = NULL THEN {} ELSE IdsOf(Range(c.list))

(* The inductive invariant: the list starts with the header and has no     *)
(* address twice, the header is what the list says, the items outside are  *)
(* finitely many with an address each, none of them in the list, and the   *)
(* allocated items are those of the list and those outside.                *)
Owned(c, o, lv) ==
    /\ c # NULL => c = Made(c.list) /\ GoodList(c.list)
    /\ o \in SUBSET Item /\ IsFiniteSet(o) /\ \A x, y \in o : x.id = y.id => x = y
    /\ Listed(c) \cap IdsOf(o) = {} /\ lv = Listed(c) \cup IdsOf(o)

ListInv == Owned(col, out, live) /\ crashed \in BOOLEAN

\* A good list makes a collection, and its other items are data items.
LEMMA GoodListIs ==
    ASSUME NEW l, GoodList(l)
    PROVE  /\ Made(l) # NULL /\ Made(l).list = l /\ Listed(Made(l)) = IdsOf(Range(l))
           /\ \A i \in 2..Len(l) : l[i] \in Item
           /\ IdsOf(Range(l)) \subseteq Ids \cup {HEADER}
           /\ Len(l) \in Nat /\ Len(l) > 0 /\ l[Len(l)].id \in Ids \cup {HEADER}
  <1> DEFINE S == Item \cup {HeaderItem}
             n == Len(l)
  <1>1. Sound(l, S) /\ l[1] = HeaderItem
    BY DEF GoodList
  <1> HIDE DEF S
  <1>2. n \in Nat /\ n > 0 /\ l \in Seq(S) /\ \A i \in 1..n : l[i] \in S
    BY <1>1, LastIs
  <1>3. \A i, j \in 1..n : l[i].id = l[j].id => i = j
    BY <1>1 DEF Sound
  <1>4. IdsOf(Range(l)) = {l[i].id : i \in 1..n}
    BY <1>2, IdsAre
  <1>5. \A x \in S : x.id \in Ids \cup {HEADER}
    BY DEF S, Item, HeaderItem, Header
  <1>6. \A i \in 1..n : l[i].id \in Ids \cup {HEADER}
    BY <1>2, <1>5
  <1>7. 1 \in 1..n /\ n \in 1..n
    BY <1>2
  <1>8. ASSUME NEW i \in 2..n PROVE l[i] \in Item
    <2>1. i \in 1..n /\ i # 1
      BY <1>2
    <2>2. l[i].id # l[1].id
      BY <1>3, <1>7, <2>1
    <2> QED
      BY <1>1, <1>2, <2>1, <2>2 DEF S
  <1>9. Made(l) \in [list : Seq(S), last : Ids \cup {HEADER}, count : Nat]
    BY <1>2, <1>6, <1>7 DEF Made
  <1>10. Made(l) # NULL
    BY <1>9, PointerAssumption DEF S
  <1>11. Made(l).list = l
    BY DEF Made
  <1>12. Listed(Made(l)) = IdsOf(Range(l))
    BY <1>10, <1>11 DEF Listed
  <1>13. IdsOf(Range(l)) \subseteq Ids \cup {HEADER}
    BY <1>4, <1>6
  <1>14. l[n].id \in Ids \cup {HEADER}
    BY <1>6, <1>7
  <1> HIDE DEF n
  <1>15. n \in Nat /\ n > 0
    BY <1>2
  <1> QED
    BY <1>8, <1>10, <1>11, <1>12, <1>13, <1>14, <1>15 DEF n

\* As many addresses as items.
LEMMA IdsCount ==
    ASSUME NEW S, NEW l, Sound(l, S)
    PROVE  IsFiniteSet(IdsOf(Range(l))) /\ Cardinality(IdsOf(Range(l))) = Len(l)
  <1> DEFINE n == Len(l)
             T == IdsOf(Range(l))
             f == [i \in 1..n |-> l[i].id]
  <1>1. n \in Nat /\ l \in Seq(S)
    BY LastIs
  <1>2. T = {l[i].id : i \in 1..n}
    BY <1>1, IdsAre
  <1>3. \A i, j \in 1..n : l[i].id = l[j].id => i = j
    BY DEF Sound
  <1>4. f \in Bijection(1..n, T)
    <2>1. f \in [1..n -> T]
      BY <1>2
    <2>2. \A i, j \in 1..n : f[i] = f[j] => i = j
      BY <1>3
    <2>3. \A t \in T : \E i \in 1..n : f[i] = t
      BY <1>2
    <2> QED
      BY <2>1, <2>2, <2>3 DEF Bijection, Injection, Surjection, IsInjective
  <1>5. IsFiniteSet(1..n) /\ Cardinality(1..n) = n
    <2>1. 1 \in Int /\ n \in Int
      BY <1>1
    <2>2. IsFiniteSet(1..n) /\ Cardinality(1..n) = IF 1 > n THEN 0 ELSE n - 1 + 1
      BY <2>1, FS_Interval
    <2> HIDE DEF n
    <2> QED
      BY <1>1, <2>2
  <1>6. ExistsBijection(1..n, T)
    BY <1>4 DEF ExistsBijection
  <1> HIDE DEF f, T, n
  <1>7. IsFiniteSet(T) /\ Cardinality(T) = Cardinality(1..n)
    BY <1>5, <1>6, FS_Bijection
  <1> QED
    BY <1>5, <1>7 DEF T, n

\* As many addresses as items the callers hold.
LEMMA OutCount ==
    ASSUME NEW o, IsFiniteSet(o), \A x, y \in o : x.id = y.id => x = y
    PROVE  Cardinality(IdsOf(o)) = Cardinality(o)
  <1> DEFINE T == IdsOf(o)
             f == [x \in o |-> x.id]
  <1>1. f \in Bijection(o, T)
    <2>1. f \in [o -> T]
      BY DEF IdsOf
    <2>2. \A x, y \in o : f[x] = f[y] => x = y
      OBVIOUS
    <2>3. \A t \in T : \E x \in o : f[x] = t
      BY DEF IdsOf
    <2> QED
      BY <2>1, <2>2, <2>3 DEF Bijection, Injection, Surjection, IsInjective
  <1>2. ExistsBijection(o, T)
    BY <1>1 DEF ExistsBijection
  <1> HIDE DEF T, f
  <1>3. Cardinality(T) = Cardinality(o)
    BY <1>2, FS_Bijection
  <1> QED
    BY <1>3 DEF T

\* The inductive invariant is what ListSound says.
LEMMA ListInvImplies ==
    ASSUME ListInv
    PROVE  ListSound
  <1>1. Owned(col, out, live) /\ crashed \in BOOLEAN
    BY DEF ListInv
  <1>2. /\ out \in SUBSET Item /\ IsFiniteSet(out) /\ \A x, y \in out : x.id = y.id => x = y
        /\ Listed(col) \cap IdsOf(out) = {} /\ live = Listed(col) \cup IdsOf(out)
    BY <1>1 DEF Owned
  <1>3. Cardinality(IdsOf(out)) = Cardinality(out)
    BY <1>2, OutCount
  <1>4. IdsOf(out) \subseteq Ids
    BY <1>2 DEF IdsOf, Item
  <1>5. CASE col = NULL
    <2>1. Listed(col) = {}
      BY <1>5 DEF Listed
    <2> QED
      BY <1>1, <1>2, <1>3, <1>4, <1>5, <2>1
      DEF ListSound, TypeOK, HeaderExact, OwnedOnce, Listed
  <1>6. CASE col # NULL
    <2> DEFINE l == col.list
    <2>1. col = Made(l) /\ GoodList(l)
      BY <1>1, <1>6 DEF Owned
    <2>2. /\ \A i \in 2..Len(l) : l[i] \in Item
          /\ IdsOf(Range(l)) \subseteq Ids \cup {HEADER}
          /\ Len(l) \in Nat /\ Len(l) > 0 /\ l[Len(l)].id \in Ids \cup {HEADER}
      BY <2>1, GoodListIs
    <2>3. Cardinality(IdsOf(Range(l))) = Len(l)
      BY <2>1, IdsCount DEF GoodList
    <2>4. Listed(col) = IdsOf(Range(l))
      BY <1>6 DEF Listed
    <2>5. /\ DOMAIN col = {"list", "last", "count"}
          /\ col.last = l[Len(l)].id /\ col.count = Len(l)
      BY <2>1 DEF Made
    <2>6. l[1] = HeaderItem
      BY <2>1 DEF GoodList
    <2> HIDE DEF l
    <2>7. TypeOK
      BY <1>1, <1>2, <1>4, <2>2, <2>4, <2>5, <2>6 DEF TypeOK, l
    <2>8. HeaderExact
      BY <2>5 DEF HeaderExact, l
    <2>9. OwnedOnce
      BY <1>2, <1>3, <1>6, <2>3, <2>4 DEF OwnedOnce, Listed, l
    <2> QED
      BY <2>7, <2>8, <2>9 DEF ListSound
  <1> QED
    BY <1>5, <1>6

\* Inserting into a good list, or failing to, leaves a good one.
LEMMA InsertsKeeps ==
    ASSUME NEW l, GoodList(l), NEW item \in Item, item.id \notin IdsOf(Range(l)),
           NEW freed, NEW r, Inserts(r, l, item, freed)
    PROVE  \E t : /\ GoodList(t) /\ r.col = Made(t) /\ r.freed = freed
                  /\ IdsOf(Range(t)) = IdsOf(Range(l)) \cup (IF r.error = "EOK" THEN {item.id} ELSE {})
  <1> DEFINE S == Item \cup {HeaderItem}
  <1>1. Sound(l, S) /\ l[1] = HeaderItem /\ item \in S
    BY DEF GoodList
  <1> HIDE DEF S
  <1>2. CASE \E e \in Failures : r = Result(e, Made(l), freed)
    <2>1. PICK e \in Failures : r = Result(e, Made(l), freed)
      BY <1>2
    <2>2. r.col = Made(l) /\ r.freed = freed /\ r.error # "EOK"
      BY <2>1 DEF Result, Failures
    <2> QED
      BY <2>2
  <1>3. CASE \E k \in 2..(Len(l) + 1) : r = Result("EOK", Made(InsertAt(l, k, item)), freed)
    <2>1. PICK k \in 2..(Len(l) + 1) : r = Result("EOK", Made(InsertAt(l, k, item)), freed)
      BY <1>3
    <2> DEFINE t == InsertAt(l, k, item)
    <2>2. /\ Sound(t, S) /\ t[1] = l[1]
          /\ IdsOf(Range(t)) = IdsOf(Range(l)) \cup {item.id}
      BY <1>1, InsertSound
    <2> HIDE DEF t
    <2>3. r.col = Made(t) /\ r.freed = freed /\ r.error = "EOK"
      BY <2>1 DEF Result, t
    <2>4. GoodList(t)
      BY <1>1, <2>2 DEF GoodList, S
    <2> QED
      BY <2>2, <2>3, <2>4
  <1> QED
    BY <1>2, <1>3 DEF Inserts

\* Taking an item out of a good list leaves a good one.
LEMMA RemoveKeeps ==
    ASSUME NEW l, GoodList(l), NEW p \in 2..Len(l)
    PROVE  /\ GoodList(RemoveAt(l, p)) /\ TakeOut(Made(l), p) = Made(RemoveAt(l, p))
           /\ IdsOf(Range(RemoveAt(l, p))) = IdsOf(Range(l)) \ {l[p].id}
           /\ l[p] \in Item /\ l[p].id \in IdsOf(Range(l))
  <1> DEFINE S == Item \cup {HeaderItem}
  <1>1. Sound(l, S) /\ l[1] = HeaderItem /\ HeaderItem \in S
    BY DEF GoodList
  <1> HIDE DEF S
  <1>2. /\ Sound(RemoveAt(l, p), S) /\ RemoveAt(l, p)[1] = l[1]
        /\ IdsOf(Range(RemoveAt(l, p))) = IdsOf(Range(l)) \ {l[p].id}
    BY <1>1, RemoveSound
  <1>3. GoodList(RemoveAt(l, p))
    BY <1>1, <1>2 DEF GoodList, S
  <1>4. TakeOut(Made(l), p) = Made(RemoveAt(l, p))
    <2> DEFINE it == HeaderItem
    <2>1. Sound(l, S) /\ it \in S
      BY <1>1
    <2> HIDE DEF it
    <2>2. /\ TakeOut(Made(l), p) = Made(RemoveAt(l, p))
          /\ MoveAway(Made(l), p - 1) = Made(RemoveAt(l, p))
          /\ Overwrite(Made(l), p - 1, it) = Made([l EXCEPT ![p] = it])
      BY <2>1, TakeIs
    <2> QED
      BY <2>2
  <1>5. l[p] \in Item
    BY GoodListIs
  <1>6. l[p].id \in IdsOf(Range(l))
    <2>1. l \in Seq(S) /\ Len(l) \in Nat
      BY <1>1, LastIs
    <2>2. p \in 1..Len(l)
      BY <2>1
    <2> QED
      BY <2>1, <2>2, IdsAre
  <1> QED
    BY <1>2, <1>3, <1>4, <1>5, <1>6

\* What an insertion leaves behind: the items of the list without those that
\* were deleted, and the new one if the call succeeded.
LEMMA InsertKeeps ==
    ASSUME NEW l, GoodList(l), NEW item \in Item, item.id \notin IdsOf(Range(l)),
           NEW d \in Dispositions, NEW refprop, NEW idx \in Int, NEW f \in Flags, NEW r,
           r = col_insert_item_into_current(Made(l), item, d, refprop, idx, f)
    PROVE  \E t : /\ GoodList(t) /\ r.col = Made(t) /\ r.freed \subseteq IdsOf(Range(l))
                  /\ IdsOf(Range(t)) = (IdsOf(Range(l)) \ r.freed)
                                          \cup (IF r.error = "EOK" THEN {item.id} ELSE {})
  <1> DEFINE S == Item \cup {HeaderItem}
  <1>1. Sound(l, S) /\ l[1] = HeaderItem /\ item \in S
    BY DEF GoodList
  <1> HIDE DEF S
  <1>2. \/ Inserts(r, l, item, {})
        \/ \E p \in 2..Len(l) : Replaces(r, l, p, item)
    BY <1>1, InsertOutcome
  <1>3. CASE Inserts(r, l, item, {})
    <2>1. PICK t : /\ GoodList(t) /\ r.col = Made(t) /\ r.freed = {}
                   /\ IdsOf(Range(t)) = IdsOf(Range(l)) \cup (IF r.error = "EOK" THEN {item.id} ELSE {})
      BY <1>3, InsertsKeeps
    <2> QED
      BY <2>1
  <1>4. CASE \E p \in 2..Len(l) : Replaces(r, l, p, item)
    <2>1. PICK p \in 2..Len(l) : Replaces(r, l, p, item)
      BY <1>4
    <2> DEFINE old == l[p].id
               rest == RemoveAt(l, p)
               over == [l EXCEPT ![p] = item]
    <2>2. GoodList(rest) /\ IdsOf(Range(rest)) = IdsOf(Range(l)) \ {old} /\ old \in IdsOf(Range(l))
      BY RemoveKeeps
    <2>3. Sound(over, S) /\ over[1] = l[1] /\ IdsOf(Range(over)) = (IdsOf(Range(l)) \ {old}) \cup {item.id}
      <3>1. item.id \notin IdsOf(Range(l)) \/ item.id = l[p].id
        OBVIOUS
      <3>2. Sound(l, S) /\ item \in S
        BY <1>1
      <3>3. Sound(over, S) /\ over[1] = l[1]
        BY <3>1, <3>2, ReplaceSound
      <3>4. IdsOf(Range(over)) = (IdsOf(Range(l)) \ {old}) \cup {item.id}
        BY <3>1, <3>2, ReplaceSound
      <3> QED
        BY <3>3, <3>4
    <2>4. \/ r = Result("EEXIST", Made(l), {})
          \/ r = Result("EOK", Made(over), {old})
          \/ Inserts(r, rest, item, {old})
      BY <2>1 DEF Replaces
    <2> HIDE DEF old, rest, over
    <2>5. CASE r = Result("EEXIST", Made(l), {})
      <3>1. r.col = Made(l) /\ r.freed = {} /\ r.error # "EOK"
        BY <2>5 DEF Result
      <3> QED
        BY <3>1
    <2>6. CASE r = Result("EOK", Made(over), {old})
      <3>1. r.col = Made(over) /\ r.freed = {old} /\ r.error = "EOK"
        BY <2>6 DEF Result
      <3>2. GoodList(over)
        BY <1>1, <2>3 DEF GoodList, S
      <3> QED
        BY <2>2, <2>3, <3>1, <3>2
    <2>7. CASE Inserts(r, rest, item, {old})
      <3>1. item.id \notin IdsOf(Range(rest))
        BY <2>2
      <3>2. PICK t : /\ GoodList(t) /\ r.col = Made(t) /\ r.freed = {old}
                     /\ IdsOf(Range(t)) = IdsOf(Range(rest))
                                             \cup (IF r.error = "EOK" THEN {item.id} ELSE {})
        BY <2>2, <2>7, <3>1, InsertsKeeps
      <3> QED
        BY <2>2, <3>2
    <2> QED
      BY <2>4, <2>5, <2>6, <2>7
  <1> QED
    BY <1>2, <1>3, <1>4

\* Items the callers hold less one, or plus one.
LEMMA OutChanges ==
    ASSUME NEW o \in SUBSET Item, IsFiniteSet(o), \A x, y \in o : x.id = y.id => x = y,
           NEW item \in Item
    PROVE  /\ o \ {item} \in SUBSET Item /\ IsFiniteSet(o \ {item})
           /\ \A x, y \in o \ {item} : x.id = y.id => x = y
           /\ item \in o => IdsOf(o \ {item}) = IdsOf(o) \ {item.id}
           /\ o \cup {item} \in SUBSET Item /\ IsFiniteSet(o \cup {item})
           /\ IdsOf(o \cup {item}) = IdsOf(o) \cup {item.id}
           /\ item.id \notin IdsOf(o) => \A x, y \in o \cup {item} : x.id = y.id => x = y
           /\ item \in o => item.id \in IdsOf(o)
  <1>1. IsFiniteSet(o \ {item}) /\ IsFiniteSet(o \cup {item})
    BY FS_AddElement, FS_RemoveElement
  <1>2. item \in o => IdsOf(o \ {item}) = IdsOf(o) \ {item.id}
    BY DEF IdsOf
  <1>3. IdsOf(o \cup {item}) = IdsOf(o) \cup {item.id}
    BY DEF IdsOf
  <1>4. item.id \notin IdsOf(o) => \A x, y \in o \cup {item} : x.id = y.id => x = y
    BY DEF IdsOf
  <1>5. item \in o => item.id \in IdsOf(o)
    BY DEF IdsOf
  <1> QED
    BY <1>1, <1>2, <1>3, <1>4, <1>5

\* What the invariant says of the parts.
LEMMA OwnedIs ==
    ASSUME NEW c, NEW o, NEW lv, Owned(c, o, lv), c # NULL
    PROVE  /\ c = Made(c.list) /\ GoodList(c.list) /\ Listed(c) = IdsOf(Range(c.list))
           /\ o \in SUBSET Item /\ IsFiniteSet(o) /\ \A x, y \in o : x.id = y.id => x = y
           /\ Listed(c) \cap IdsOf(o) = {} /\ lv = Listed(c) \cup IdsOf(o)
  BY DEF Owned, Listed

\* The invariant of a collection made of a good list.
LEMMA OwnedBy ==
    ASSUME NEW t, GoodList(t), NEW o \in SUBSET Item, IsFiniteSet(o),
           \A x, y \in o : x.id = y.id => x = y,
           NEW lv, IdsOf(Range(t)) \cap IdsOf(o) = {}, lv = IdsOf(Range(t)) \cup IdsOf(o)
    PROVE  Owned(Made(t), o, lv)
  <1>1. Made(t) # NULL /\ Made(t).list = t /\ Listed(Made(t)) = IdsOf(Range(t))
    BY GoodListIs
  <1> QED
    BY <1>1 DEF Owned

\* Inserting a new item.
LEMMA InsertPropertyKeeps ==
    ASSUME Owned(col, out, live), crashed \in BOOLEAN, NEW item \in Item, NEW d \in Dispositions,
           NEW refprop, NEW idx \in Int, NEW f \in Flags,
           col_insert_property(item, d, refprop, idx, f)
    PROVE  ListInv'
  <1> DEFINE r == col_insert_item_into_current(col, item, d, refprop, idx, f)
             l == col.list
  <1>1. /\ ~crashed /\ col # NULL /\ item.id \notin live
        /\ \/ r.error = "CRASH" /\ Crash
           \/ /\ r.error # "CRASH" /\ col' = r.col /\ UNCHANGED <<out, crashed>>
              /\ live' = (live \cup (IF r.error = "EOK" THEN {item.id} ELSE {})) \ r.freed
    BY DEF col_insert_property
  <1>2. /\ col = Made(l) /\ GoodList(l) /\ Listed(col) = IdsOf(Range(l))
        /\ out \in SUBSET Item /\ IsFiniteSet(out) /\ \A x, y \in out : x.id = y.id => x = y
        /\ Listed(col) \cap IdsOf(out) = {} /\ live = Listed(col) \cup IdsOf(out)
    BY <1>1, OwnedIs
  <1> HIDE DEF r, l
  <1>3. CASE Crash
    BY <1>3 DEF Crash, ListInv
  <1>4. CASE /\ col' = r.col /\ UNCHANGED <<out, crashed>>
             /\ live' = (live \cup (IF r.error = "EOK" THEN {item.id} ELSE {})) \ r.freed
    <2>1. r = col_insert_item_into_current(Made(l), item, d, refprop, idx, f)
      BY <1>2 DEF r
    <2>2. item.id \notin IdsOf(Range(l)) /\ item.id \notin IdsOf(out)
      BY <1>1, <1>2
    <2>3. PICK t : /\ GoodList(t) /\ r.col = Made(t) /\ r.freed \subseteq IdsOf(Range(l))
                   /\ IdsOf(Range(t)) = (IdsOf(Range(l)) \ r.freed)
                                           \cup (IF r.error = "EOK" THEN {item.id} ELSE {})
      BY <1>2, <2>1, <2>2, InsertKeeps
    <2> DEFINE new == IF r.error = "EOK" THEN {item.id} ELSE {}
    <2>4. new \subseteq {item.id}
      OBVIOUS
    <2>5. IdsOf(Range(t)) = (IdsOf(Range(l)) \ r.freed) \cup new /\ live' = (live \cup new) \ r.freed
      BY <1>4, <2>3
    <2> HIDE DEF new
    <2>6. IdsOf(Range(t)) \cap IdsOf(out) = {} /\ live' = IdsOf(Range(t)) \cup IdsOf(out)
      BY <1>2, <2>2, <2>3, <2>4, <2>5
    <2>7. Owned(Made(t), out, live')
      BY <1>2, <2>3, <2>6, OwnedBy
    <2> QED
      BY <1>4, <2>3, <2>7 DEF ListInv
  <1> QED
    BY <1>1, <1>3, <1>4

\* Inserting an item that a caller holds.
LEMMA InsertItemKeeps ==
    ASSUME Owned(col, out, live), crashed \in BOOLEAN, NEW item \in out, NEW d \in Dispositions,
           NEW refprop, NEW idx \in Int, NEW f \in Flags,
           col_insert_item(item, d, refprop, idx, f)
    PROVE  ListInv'
  <1> DEFINE r == col_insert_item_into_current(col, item, d, refprop, idx, f)
             l == col.list
  <1>1. /\ ~crashed /\ col # NULL
        /\ \/ r.error = "CRASH" /\ Crash
           \/ /\ r.error # "CRASH" /\ col' = r.col /\ UNCHANGED crashed
              /\ out' = IF r.error = "EOK" THEN out \ {item} ELSE out
              /\ live' = live \ r.freed
    BY DEF col_insert_item
  <1>2. /\ col = Made(l) /\ GoodList(l) /\ Listed(col) = IdsOf(Range(l))
        /\ out \in SUBSET Item /\ IsFiniteSet(out) /\ \A x, y \in out : x.id = y.id => x = y
        /\ Listed(col) \cap IdsOf(out) = {} /\ live = Listed(col) \cup IdsOf(out)
    BY <1>1, OwnedIs
  <1>3. item \in Item
    BY <1>2
  <1>4. /\ out \ {item} \in SUBSET Item /\ IsFiniteSet(out \ {item})
        /\ \A x, y \in out \ {item} : x.id = y.id => x = y
        /\ IdsOf(out \ {item}) = IdsOf(out) \ {item.id} /\ item.id \in IdsOf(out)
    BY <1>2, <1>3, OutChanges
  <1> HIDE DEF r, l
  <1>5. CASE Crash
    BY <1>5 DEF Crash, ListInv
  <1>6. CASE /\ col' = r.col /\ UNCHANGED crashed
             /\ out' = IF r.error = "EOK" THEN out \ {item} ELSE out
             /\ live' = live \ r.freed
    <2>1. r = col_insert_item_into_current(Made(l), item, d, refprop, idx, f)
      BY <1>2 DEF r
    <2>2. item.id \notin IdsOf(Range(l))
      BY <1>2, <1>4
    <2>3. PICK t : /\ GoodList(t) /\ r.col = Made(t) /\ r.freed \subseteq IdsOf(Range(l))
                   /\ IdsOf(Range(t)) = (IdsOf(Range(l)) \ r.freed)
                                           \cup (IF r.error = "EOK" THEN {item.id} ELSE {})
      BY <1>2, <1>3, <2>1, <2>2, InsertKeeps
    <2>4. CASE r.error = "EOK"
      <3>1. /\ IdsOf(Range(t)) = (IdsOf(Range(l)) \ r.freed) \cup {item.id}
            /\ out' = out \ {item} /\ live' = live \ r.freed
        BY <1>6, <2>3, <2>4
      <3>2. /\ IdsOf(Range(t)) \cap IdsOf(out') = {}
            /\ live' = IdsOf(Range(t)) \cup IdsOf(out')
        <4> DEFINE A == IdsOf(Range(l))
                   B == IdsOf(out)
                   T == IdsOf(Range(t))
                   x == item.id
                   F == r.freed
        <4>1. T = (A \ F) \cup {x} /\ F \subseteq A /\ live' = live \ F
          BY <2>3, <3>1
        <4>2. A \cap B = {} /\ live = A \cup B /\ x \in B
          BY <1>2, <1>4
        <4>3. IdsOf(out') = B \ {x}
          BY <1>4, <3>1
        <4> HIDE DEF A, B, T, x, F
        <4>4. T \cap (B \ {x}) = {} /\ live' = T \cup (B \ {x})
          BY <4>1, <4>2
        <4> QED
          BY <4>3, <4>4 DEF T
      <3>3. Owned(Made(t), out', live')
        BY <1>4, <2>3, <3>1, <3>2, OwnedBy
      <3> QED
        BY <1>6, <2>3, <3>3 DEF ListInv
    <2>5. CASE r.error # "EOK"
      <3>1. /\ IdsOf(Range(t)) = IdsOf(Range(l)) \ r.freed
            /\ out' = out /\ live' = live \ r.freed
        BY <1>6, <2>3, <2>5
      <3>2. /\ IdsOf(Range(t)) \cap IdsOf(out') = {}
            /\ live' = IdsOf(Range(t)) \cup IdsOf(out')
        BY <1>2, <2>3, <3>1
      <3>3. Owned(Made(t), out', live')
        BY <1>2, <2>3, <3>1, <3>2, OwnedBy
      <3> QED
        BY <1>6, <2>3, <3>3 DEF ListInv
    <2> QED
      BY <2>4, <2>5
  <1> QED
    BY <1>1, <1>5, <1>6

\* Taking an item out, to a caller or for good.
LEMMA TakeOutKeeps ==
    ASSUME Owned(col, out, live), crashed \in BOOLEAN, col # NULL, NEW p \in 2..Len(col.list),
           col' = TakeOut(col, p), crashed' = crashed,
           \/ out' = out \cup {col.list[p]} /\ live' = live
           \/ out' = out /\ live' = live \ {col.list[p].id}
    PROVE  ListInv'
  <1> DEFINE l == col.list
             t == RemoveAt(l, p)
             it == l[p]
  <1>1. /\ col = Made(l) /\ GoodList(l) /\ Listed(col) = IdsOf(Range(l))
        /\ out \in SUBSET Item /\ IsFiniteSet(out) /\ \A x, y \in out : x.id = y.id => x = y
        /\ Listed(col) \cap IdsOf(out) = {} /\ live = Listed(col) \cup IdsOf(out)
    BY OwnedIs
  <1>2. /\ GoodList(t) /\ TakeOut(Made(l), p) = Made(t)
        /\ IdsOf(Range(t)) = IdsOf(Range(l)) \ {it.id}
        /\ it \in Item /\ it.id \in IdsOf(Range(l))
    <2>1. GoodList(l) /\ p \in 2..Len(l)
      BY <1>1
    <2> HIDE DEF l
    <2> QED
      BY <2>1, RemoveKeeps
  <1>3. col' = Made(t)
    BY <1>1, <1>2
  <1> HIDE DEF t, it
  <1>4. CASE out' = out \cup {it} /\ live' = live
    <2>1. it.id \notin IdsOf(out)
      BY <1>1, <1>2
    <2>2. /\ out \cup {it} \in SUBSET Item /\ IsFiniteSet(out \cup {it})
          /\ IdsOf(out \cup {it}) = IdsOf(out) \cup {it.id}
          /\ \A x, y \in out \cup {it} : x.id = y.id => x = y
      BY <1>1, <1>2, <2>1, OutChanges
    <2>3. /\ IdsOf(Range(t)) \cap IdsOf(out \cup {it}) = {}
          /\ live' = IdsOf(Range(t)) \cup IdsOf(out \cup {it})
      <3> DEFINE A == IdsOf(Range(l))
                 B == IdsOf(out)
                 T == IdsOf(Range(t))
                 x == it.id
      <3>1. T = A \ {x} /\ x \in A /\ A \cap B = {} /\ live' = A \cup B
        BY <1>1, <1>2, <1>4
      <3>2. IdsOf(out \cup {it}) = B \cup {x}
        BY <2>2
      <3> HIDE DEF A, B, T, x
      <3>3. T \cap (B \cup {x}) = {} /\ live' = T \cup (B \cup {x})
        BY <3>1
      <3> QED
        BY <3>2, <3>3 DEF T
    <2>4. Owned(Made(t), out \cup {it}, live')
      BY <1>2, <2>2, <2>3, OwnedBy
    <2> QED
      BY <1>3, <1>4, <2>4 DEF ListInv
  <1>5. CASE out' = out /\ live' = live \ {it.id}
    <2>1. /\ IdsOf(Range(t)) \cap IdsOf(out) = {}
          /\ live' = IdsOf(Range(t)) \cup IdsOf(out)
      BY <1>1, <1>2, <1>5
    <2>2. Owned(Made(t), out, live')
      BY <1>1, <1>2, <2>1, OwnedBy
    <2> QED
      BY <1>3, <1>5, <2>2 DEF ListInv
  <1> QED
    BY <1>4, <1>5 DEF it

\* Modifying an item of the list.
LEMMA ModifyKeeps ==
    ASSUME Owned(col, out, live), crashed \in BOOLEAN, NEW p, NEW nm \in Names, NEW ty \in Types,
           col_modify_item(p, nm, ty)
    PROVE  ListInv'
  <1> DEFINE l == col.list
             S == Item \cup {HeaderItem}
             item == [l[p] EXCEPT !.prop = nm, !.type = ty]
             t == [l EXCEPT ![p] = item]
  <1>1. /\ col # NULL /\ p \in DOMAIN l \ {1}
        /\ col' = [col EXCEPT !.list[p] = [@ EXCEPT !.prop = nm, !.type = ty]]
        /\ out' = out /\ live' = live /\ crashed' = crashed
    BY DEF col_modify_item
  <1>2. /\ col = Made(l) /\ GoodList(l) /\ Listed(col) = IdsOf(Range(l))
        /\ out \in SUBSET Item /\ IsFiniteSet(out) /\ \A x, y \in out : x.id = y.id => x = y
        /\ Listed(col) \cap IdsOf(out) = {} /\ live = Listed(col) \cup IdsOf(out)
    BY <1>1, OwnedIs
  <1>3. Sound(l, S) /\ l[1] = HeaderItem
    BY <1>2 DEF GoodList
  <1>4. Len(l) \in Nat /\ Len(l) > 0 /\ DOMAIN l = 1..Len(l)
    BY <1>3, LastIs
  <1>5. p \in 2..Len(l)
    <2>1. p \in 1..Len(l) /\ p # 1
      BY <1>1, <1>4
    <2> QED
      BY <1>4, <2>1
  <1>6. l[p] \in Item
    BY <1>2, <1>5, GoodListIs
  <1>7. item \in Item /\ item.id = l[p].id
    BY <1>6 DEF Item
  <1>8. col' = [col EXCEPT !.list = t]
    BY <1>1
  <1> HIDE DEF S, item, t
  <1>9. /\ Sound(t, S) /\ t[1] = l[1] /\ Len(t) = Len(l)
        /\ IdsOf(Range(t)) = (IdsOf(Range(l)) \ {l[p].id}) \cup {item.id}
    <2>1. item \in S
      BY <1>7 DEF S
    <2>2. item.id \notin IdsOf(Range(l)) \/ item.id = l[p].id
      BY <1>7
    <2> QED
      BY <1>3, <1>5, <2>1, <2>2, ReplaceSound DEF t
  <1>10. IdsOf(Range(t)) = IdsOf(Range(l))
    <2>1. l[p].id \in IdsOf(Range(l))
      BY <1>2, <1>5, RemoveKeeps
    <2> QED
      BY <1>7, <1>9, <2>1
  <1>11. col' = Made(t)
    <2> DEFINE n == Len(l)
    <2>1. t[n].id = l[n].id
      <3>1. DOMAIN l = 1..n /\ n \in 1..n
        BY <1>4
      <3>2. t[n] = IF n = p THEN item ELSE l[n]
        BY <3>1 DEF t
      <3> QED
        BY <1>7, <3>2
    <2>2. Made(t) = [list |-> t, last |-> l[n].id, count |-> n]
      BY <1>9, <2>1 DEF Made
    <2>3. col = [list |-> l, last |-> l[n].id, count |-> n]
      BY <1>2 DEF Made
    <2> HIDE DEF l, n
    <2> QED
      BY <1>8, <2>2, <2>3
  <1>12. GoodList(t)
    BY <1>3, <1>9 DEF GoodList, S
  <1>13. Owned(Made(t), out, live)
    BY <1>2, <1>10, <1>12, OwnedBy
  <1> QED
    BY <1>1, <1>11, <1>13 DEF ListInv

\* Every step keeps the invariant.
LEMMA ListInvStep ==
    ASSUME ListInv, [Next]_vars
    PROVE  ListInv'
  <1>1. Owned(col, out, live) /\ crashed \in BOOLEAN
    BY DEF ListInv
  <1>2. CASE col_create_collection
    <2> DEFINE l == <<HeaderItem>>
               S == Item \cup {HeaderItem}
    <2>1. col = NULL /\ col' = Made(l) /\ live' = live \cup {HEADER} /\ out' = out /\ crashed' = crashed
      BY <1>2 DEF col_create_collection, NewCollection, Made, HeaderItem, Header
    <2>2. l \in Seq(S) /\ Len(l) = 1 /\ l[1] = HeaderItem
      OBVIOUS
    <2>3. IdsOf(Range(l)) = {HEADER}
      <3>1. IdsOf(Range(l)) = {l[i].id : i \in 1..Len(l)}
        BY <2>2, IdsAre
      <3>2. 1..1 = {1}
        OBVIOUS
      <3>3. HeaderItem.id = HEADER
        BY DEF HeaderItem, Header
      <3> HIDE DEF l
      <3> QED
        BY <2>2, <3>1, <3>2, <3>3
    <2> HIDE DEF l
    <2>4. GoodList(l)
      <3>1. \A i, j \in 1..Len(l) : i = j
        BY <2>2
      <3> QED
        BY <2>2, <3>1 DEF GoodList, Sound
    <2>5. /\ out \in SUBSET Item /\ IsFiniteSet(out) /\ \A x, y \in out : x.id = y.id => x = y
          /\ live = IdsOf(out)
      BY <1>1, <2>1 DEF Owned, Listed
    <2>6. HEADER \notin IdsOf(out)
      BY <2>5, CollectionAssumption DEF IdsOf, Item
    <2>7. IdsOf(Range(l)) \cap IdsOf(out) = {} /\ live' = IdsOf(Range(l)) \cup IdsOf(out)
      BY <2>1, <2>3, <2>5, <2>6
    <2>8. Owned(Made(l), out, live')
      BY <2>4, <2>5, <2>7, OwnedBy
    <2> QED
      BY <1>1, <2>1, <2>8 DEF ListInv
  <1>3. ASSUME NEW item \in Item, NEW a \in InsertArgs, NEW f \in Flags,
               col_insert_property(item, a[1], a[2], a[3], f)
        PROVE  ListInv'
    <2>1. a[1] \in Dispositions /\ a[3] \in Int
      BY CollectionAssumption DEF InsertArgs
    <2> QED
      BY <1>1, <1>3, <2>1, InsertPropertyKeeps
  <1>4. ASSUME NEW item \in out, NEW a \in InsertArgs, NEW f \in Flags,
               col_insert_item(item, a[1], a[2], a[3], f)
        PROVE  ListInv'
    <2>1. a[1] \in Dispositions /\ a[3] \in Int
      BY CollectionAssumption DEF InsertArgs
    <2> QED
      BY <1>1, <1>4, <2>1, InsertItemKeeps
  <1>5. ASSUME NEW a \in ExtractArgs, NEW ty \in Filters,
               \/ col_extract_item(a[1], a[2], a[3], ty)
               \/ col_remove_item(a[1], a[2], a[3], ty)
        PROVE  ListInv'
    <2> DEFINE p == ExtractPosition(col, a[1], a[2], a[3], ty)
    <2>1. a[1] \in Dispositions /\ a[3] \in Int
      BY CollectionAssumption DEF ExtractArgs
    <2>2. /\ col # NULL /\ p # 0 /\ col' = TakeOut(col, p) /\ crashed' = crashed
          /\ \/ out' = out \cup {col.list[p]} /\ live' = live
             \/ out' = out /\ live' = live \ {col.list[p].id}
      BY <1>5 DEF col_extract_item, col_remove_item
    <2>3. p \in 2..Len(col.list)
      <3> DEFINE l == col.list
      <3>1. col = Made(l) /\ Sound(l, Item \cup {HeaderItem})
        BY <1>1, <2>2, OwnedIs DEF GoodList
      <3> HIDE DEF l
      <3>2. ExtractPosition(Made(l), a[1], a[2], a[3], ty) \in {0} \cup 2..Len(l)
        BY <2>1, <3>1, ExtractIs
      <3>3. p \in {0} \cup 2..Len(l)
        BY <3>1, <3>2
      <3> QED
        BY <2>2, <3>3 DEF l
    <2> HIDE DEF p
    <2> QED
      BY <1>1, <2>2, <2>3, TakeOutKeeps
  <1>6. ASSUME NEW nm \in Names, NEW ty \in Filters, col_delete_property(nm, ty)
        PROVE  ListInv'
    <2> DEFINE found == Matching(col.list, nm, ty) \ {1}
               p == Min(found)
    <2>1. /\ col # NULL /\ found # {} /\ col' = TakeOut(col, p) /\ crashed' = crashed
          /\ out' = out /\ live' = live \ {col.list[p].id}
      BY <1>6 DEF col_delete_property
    <2>2. p \in 2..Len(col.list)
      <3> DEFINE l == col.list
      <3>1. Sound(l, Item \cup {HeaderItem})
        BY <1>1, <2>1, OwnedIs DEF GoodList
      <3>2. l \in Seq(Item \cup {HeaderItem}) /\ Len(l) \in Nat
        BY <3>1, LastIs
      <3> HIDE DEF l
      <3>3. Matching(l, nm, ty) \subseteq 1..Len(l)
        BY <3>2, MatchingIn
      <3>4. found \subseteq 2..Len(l)
        <4>1. \A x \in 1..Len(l) : x # 1 => x \in 2..Len(l)
          BY <3>2
        <4> QED
          BY <3>3, <4>1 DEF l
      <3>5. found \in SUBSET Nat
        BY <3>2, <3>4
      <3> HIDE DEF found
      <3>6. p \in found
        BY <2>1, <3>5, MinIs
      <3> QED
        BY <3>4, <3>6 DEF l
    <2> HIDE DEF p
    <2> QED
      BY <1>1, <2>1, <2>2, TakeOutKeeps
  <1>7. ASSUME NEW p \in 1..(Cardinality(Ids) + 1), NEW nm \in Names, NEW ty \in Types,
               col_modify_item(p, nm, ty)
        PROVE  ListInv'
    BY <1>1, <1>7, ModifyKeeps
  <1>8. ASSUME NEW item \in out, col_delete_item(item) PROVE ListInv'
    <2>1. out' = out \ {item} /\ live' = live \ {item.id} /\ col' = col /\ crashed' = crashed
      BY <1>8 DEF col_delete_item
    <2>2. /\ out \in SUBSET Item /\ IsFiniteSet(out) /\ \A x, y \in out : x.id = y.id => x = y
          /\ Listed(col) \cap IdsOf(out) = {} /\ live = Listed(col) \cup IdsOf(out)
      BY <1>1 DEF Owned
    <2>3. item \in Item
      BY <2>2
    <2>4. /\ out \ {item} \in SUBSET Item /\ IsFiniteSet(out \ {item})
          /\ \A x, y \in out \ {item} : x.id = y.id => x = y
          /\ IdsOf(out \ {item}) = IdsOf(out) \ {item.id} /\ item.id \in IdsOf(out)
      BY <2>2, <2>3, OutChanges
    <2>5. Listed(col) \cap IdsOf(out') = {} /\ live' = Listed(col) \cup IdsOf(out')
      BY <2>1, <2>2, <2>4
    <2>6. col # NULL => col = Made(col.list) /\ GoodList(col.list)
      BY <1>1 DEF Owned
    <2>7. Owned(col, out', live')
      BY <2>1, <2>4, <2>5, <2>6 DEF Owned
    <2> QED
      BY <1>1, <2>1, <2>7 DEF ListInv
  <1>9. CASE col_destroy_collection
    <2>1. /\ col # NULL /\ col' = NULL /\ live' = live \ IdsOf(Range(col.list))
          /\ out' = out /\ crashed' = crashed
      BY <1>9 DEF col_destroy_collection
    <2>2. /\ out \in SUBSET Item /\ IsFiniteSet(out) /\ \A x, y \in out : x.id = y.id => x = y
          /\ Listed(col) \cap IdsOf(out) = {} /\ live = Listed(col) \cup IdsOf(out)
          /\ Listed(col) = IdsOf(Range(col.list))
      BY <1>1, <2>1, OwnedIs
    <2>3. live' = IdsOf(out) /\ Listed(NULL) = {}
      BY <2>1, <2>2 DEF Listed
    <2>4. Owned(NULL, out, live')
      BY <2>2, <2>3 DEF Owned
    <2> QED
      BY <1>1, <2>1, <2>4 DEF ListInv
  <1>10. CASE UNCHANGED vars
    BY <1>1, <1>10 DEF vars, ListInv
  <1> QED
    BY <1>2, <1>3, <1>4, <1>5, <1>6, <1>7, <1>8, <1>9, <1>10 DEF Next

\* The initial state has no collection and no items.
LEMMA ListInvInit ==
    ASSUME Init
    PROVE  ListInv
  <1>1. col = NULL /\ out = {} /\ live = {} /\ crashed = FALSE
    BY DEF Init
  <1>2. Listed(col) = {} /\ IdsOf(out) = {} /\ IsFiniteSet(out)
    BY <1>1, FS_EmptySet DEF Listed, IdsOf
  <1> QED
    BY <1>1, <1>2 DEF ListInv, Owned

(* Whatever sequence of insertions, extractions, modifications and         *)
(* deletions the callers make, on lists of any length, the list, its       *)
(* header (last and count) and the ownership of the items are sound.       *)
THEOREM ListCorrect == Spec => []ListSound
  <1>1. Init => ListInv
    BY ListInvInit
  <1>2. ListInv /\ [Next]_vars => ListInv'
    BY ListInvStep
  <1>3. ListInv => ListSound
    BY ListInvImplies
  <1> QED
    BY <1>1, <1>2, <1>3, PTL DEF Spec

-----------------------------------------------------------------------------
(* Searches among duplicates *)

\* The duplicates that a search looks at.
Run(M, interrupt) == IF interrupt THEN FirstRun(M) ELSE M

\* They are the first ones: as many before each as there are before it at all.
LEMMA RunIs ==
    ASSUME NEW n \in Nat, NEW M \in SUBSET (0..n), M # {}, NEW interrupt \in BOOLEAN
    PROVE  /\ Run(M, interrupt) \in SUBSET (0..n) /\ Run(M, interrupt) \subseteq M
           /\ Min(M) \in Run(M, interrupt)
           /\ \A i \in Run(M, interrupt) : Below(Run(M, interrupt), i) = Below(M, i)
           /\ \A i \in M : i \notin Run(M, interrupt) => Run(M, interrupt) \subseteq Below(M, i)
  <1> DEFINE R == Run(M, interrupt)
             m == Min(M)
  <1>1. \A x \in M : x \in Nat
    OBVIOUS
  <1>2. m \in M /\ \A x \in M : m <= x
    <2>1. M \in SUBSET Nat
      BY <1>1
    <2> QED
      BY <2>1, MinIs
  <1> HIDE DEF m
  <1>3. FirstRun(M) = {i \in M : m..i \subseteq M}
    BY DEF FirstRun, m
  <1>4. R \subseteq M
    BY <1>3 DEF Run
  <1>5. m \in R
    <2>1. m..m \subseteq M
      <3>1. m..m = {m}
        BY <1>1, <1>2
      <3> QED
        BY <1>2, <3>1
    <2> QED
      BY <1>2, <1>3, <2>1 DEF Run
  <1>6. ASSUME NEW i \in R, NEW j \in M, j <= i PROVE j \in R
    <2>1. CASE interrupt
      <3>1. m..i \subseteq M /\ i \in M
        BY <1>3, <2>1 DEF Run
      <3>2. m..j \subseteq m..i
        BY <1>1, <1>2, <1>6, <3>1
      <3> QED
        BY <1>3, <2>1, <3>1, <3>2 DEF Run
    <2>2. CASE ~interrupt
      BY <2>2 DEF Run
    <2> QED
      BY <2>1, <2>2
  <1> HIDE DEF R
  <1>7. ASSUME NEW i \in R PROVE Below(R, i) = Below(M, i)
    <2>1. ASSUME NEW j \in M, j < i PROVE j \in R
      <3>1. j <= i
        BY <1>1, <1>4, <2>1
      <3> QED
        BY <1>6, <3>1
    <2> QED
      BY <1>4, <2>1 DEF Below
  <1>8. ASSUME NEW i \in M, i \notin R PROVE R \subseteq Below(M, i)
    <2>1. ASSUME NEW j \in R PROVE j < i
      <3>1. j \in Nat /\ i \in Nat /\ ~(i <= j)
        BY <1>1, <1>4, <1>6, <1>8
      <3> QED
        BY <3>1
    <2> QED
      BY <1>4, <2>1 DEF Below
  <1>9. R \in SUBSET (0..n)
    BY <1>4
  <1> QED
    BY <1>4, <1>5, <1>7, <1>8, <1>9 DEF R, m

\* Every search for a later duplicate runs at least to the end of the run.
LEMMA GiveUpLate ==
    ASSUME NEW S, NEW l \in Seq(S), NEW nm, NEW ty, NEW index \in Int, NEW interrupt \in BOOLEAN,
           NEW M, M = Matching(l, nm, ty), M # {},
           NEW g \in GiveUpAt(l, nm, M, index, interrupt), NEW a \in Run(M, interrupt)
    PROVE  a <= g
  <1>1. /\ M \in SUBSET (0..Len(l)) /\ M \subseteq 1..Len(l) /\ Len(l) \in Nat
        /\ DOMAIN l = 1..Len(l)
    BY MatchingIn
  <1>2. M \in SUBSET Nat
    BY <1>1
  <1>3. Min(M) \in M /\ \A x \in M : Min(M) <= x
    BY <1>2, MinIs
  <1>4. /\ g \in DOMAIN l \cup M
        /\ \E j \in M : j <= g
        /\ (interrupt /\ g \notin M) \/ g = Len(l)
    BY DEF GiveUpAt
  <1>5. a \in M
    BY <1>1, RunIs
  <1>6. a \in 1..Len(l) /\ g \in 1..Len(l)
    BY <1>1, <1>4, <1>5
  <1>7. CASE g = Len(l)
    BY <1>6, <1>7
  <1>8. CASE interrupt /\ g \notin M
    <2> SUFFICES ASSUME g < a PROVE FALSE
      BY <1>6
    <2> DEFINE m == Min(M)
    <2>1. PICK j \in M : j <= g
      BY <1>4
    <2>2. m \in M /\ m <= j
      BY <1>3, <2>1
    <2>3. m..a \subseteq M
      BY <1>8 DEF Run, FirstRun
    <2> HIDE DEF m
    <2>4. m \in Nat /\ j \in Nat /\ g \in Nat /\ a \in Nat
      BY <1>2, <1>5, <1>6, <2>1, <2>2
    <2>5. g \in m..a
      BY <2>1, <2>2, <2>4
    <2> QED
      BY <1>8, <2>3, <2>5
  <1> QED
    BY <1>4, <1>7, <1>8

\* The search ends at a, exact or not.
FoundBefore(l, interrupt, nm, ty, index, a) ==
    /\ col_find_property_sub(l, interrupt, nm, index, TRUE, ty) = a - 1
    /\ col_find_property_sub(l, interrupt, nm, index, FALSE, ty) = a - 1

\* The search ends with the last one of the run, z.
FoundLast(l, interrupt, nm, index, z) ==
    /\ col_find_property_sub(l, interrupt, nm, index, TRUE, ANY) = IF index = -2 THEN z - 1 ELSE 0
    /\ col_find_property_sub(l, interrupt, nm, index, FALSE, ANY) = IF index = -2 THEN z - 1 ELSE z

\* A search for a duplicate that the run has.
LEMMA FindDup ==
    ASSUME NEW S, NEW l \in Seq(S), NEW nm, NEW ty, NEW index \in Nat, NEW interrupt \in BOOLEAN,
           NEW M, M = Matching(l, nm, ty), M # {},
           index < Cardinality(Run(M, interrupt))
    PROVE  /\ Nth(Run(M, interrupt), index) \in Run(M, interrupt)
           /\ FoundBefore(l, interrupt, nm, ty, index, Nth(Run(M, interrupt), index))
  <1> DEFINE R == Run(M, interrupt)
             a == Nth(R, index)
             done == DoneAt(M, index)
             stops == done \cup GiveUpAt(l, nm, M, index, interrupt)
  <1>1. M \in SUBSET (0..Len(l)) /\ Len(l) \in Nat /\ DOMAIN l = 1..Len(l)
    BY MatchingIn
  <1>2. /\ R \in SUBSET (0..Len(l)) /\ R \subseteq M
        /\ \A i \in R : Below(R, i) = Below(M, i)
    <2> DEFINE n == Len(l)
    <2>1. n \in Nat /\ M \in SUBSET (0..n)
      BY <1>1
    <2> HIDE DEF n
    <2>2. R \in SUBSET (0..n) /\ R \subseteq M /\ \A i \in R : Below(R, i) = Below(M, i)
      BY <2>1, RunIs
    <2> QED
      BY <2>2 DEF n
  <1>3. a \in R /\ Cardinality(Below(R, a)) = index
    <2> HIDE DEF R
    <2> QED
      BY <1>1, <1>2, NthIs DEF R
  <1>4. a \in M /\ Cardinality(Below(M, a)) = index
    BY <1>2, <1>3
  <1>5. index < Cardinality(M)
    <2>1. Cardinality(Below(M, a)) < Cardinality(M)
      BY <1>1, <1>4, RankType
    <2> QED
      BY <1>4, <2>1
  <1>6. \A i \in M : Cardinality(Below(M, i)) = index => i = a
    <2>1. \A i \in M : Cardinality(Below(M, i)) = index => i = Nth(M, index)
      BY <1>1, <1>5, NthIs
    <2> QED
      BY <1>4, <2>1
  <1>7. done = {a}
    <2>1. done = {i \in M : Cardinality(Below(M, i)) = index}
      BY DEF DoneAt, Below
    <2> HIDE DEF a, R, done
    <2> QED
      BY <1>4, <1>6, <2>1
  <1>8. \A g \in GiveUpAt(l, nm, M, index, interrupt) : a <= g
    BY <1>3, GiveUpLate
  <1>9. stops \in SUBSET Int
    <2>1. M \subseteq Int
      BY <1>1
    <2>2. DOMAIN l \subseteq Int
      BY <1>1
    <2>3. GiveUpAt(l, nm, M, index, interrupt) \subseteq DOMAIN l \cup M
      BY DEF GiveUpAt
    <2> HIDE DEF a, R
    <2> QED
      BY <1>4, <1>7, <2>1, <2>2, <2>3
  <1>10. a \in Int
    BY <1>1, <1>4
  <1> HIDE DEF a, R
  <1>11. a \in stops /\ \A g \in stops : a <= g
    BY <1>7, <1>8, <1>10
  <1>12. Min(stops) = a
    <2> HIDE DEF stops
    <2> QED
      BY <1>9, <1>11, IsMin
  <1>13. stops # {} /\ Min(stops) \in done
    BY <1>7, <1>11, <1>12
  <1>14. /\ col_find_property_sub(l, interrupt, nm, index, TRUE, ty) = Min(stops) - 1
         /\ col_find_property_sub(l, interrupt, nm, index, FALSE, ty) = Min(stops) - 1
    BY <1>13 DEF col_find_property_sub
  <1> QED
    BY <1>3, <1>12, <1>14 DEF a, R, FoundBefore

\* A search without a match finds nothing.
LEMMA FindNothing ==
    ASSUME NEW S, NEW l \in Seq(S), NEW nm, NEW ty, NEW index \in Int, NEW interrupt, NEW exact,
           Matching(l, nm, ty) = {}
    PROVE  col_find_property_sub(l, interrupt, nm, index, exact, ty) = 0
  <1> DEFINE stops == DoneAt({}, index) \cup GiveUpAt(l, nm, {}, index, interrupt)
  <1>1. stops = {}
    BY DEF DoneAt, GiveUpAt
  <1> QED
    BY <1>1 DEF col_find_property_sub

\* No match of the run is done when the search asks for another one.
LEMMA NotDone ==
    ASSUME NEW n \in Nat, NEW M \in SUBSET (0..n), M # {}, NEW interrupt \in BOOLEAN,
           NEW index \in Int, ~(index >= 0 /\ index < Cardinality(Run(M, interrupt)))
    PROVE  DoneAt(M, index) \cap Run(M, interrupt) = {}
  <1> DEFINE R == Run(M, interrupt)
  <1>1. R \in SUBSET (0..n) /\ \A i \in R : Below(R, i) = Below(M, i)
    BY RunIs
  <1>2. ~(index >= 0 /\ index < Cardinality(R))
    OBVIOUS
  <1> HIDE DEF R
  <1>3. ASSUME NEW i \in R PROVE i \notin DoneAt(M, index)
    <2>1. Cardinality(Below(R, i)) < Cardinality(R)
      BY <1>1, RankType
    <2>2. Cardinality(Below(M, i)) < Cardinality(R)
      BY <1>1, <2>1
    <2>3. ~(index >= 0 /\ Cardinality(Below(M, i)) = index)
      BY <1>2, <2>2
    <2> QED
      BY <2>3 DEF DoneAt, Below
  <1> QED
    BY <1>3 DEF R

\* A search for more duplicates than the run has: the last one of the run.
LEMMA FindLast ==
    ASSUME NEW S, NEW l \in Seq(S), NEW nm, NEW index \in Int, NEW interrupt \in BOOLEAN,
           NEW M, M = Matching(l, nm, ANY), M # {}, 1 \notin M,
           ~(index >= 0 /\ index < Cardinality(Run(M, interrupt)))
    PROVE  /\ Max(Run(M, interrupt)) \in Run(M, interrupt)
           /\ FoundLast(l, interrupt, nm, index, Max(Run(M, interrupt)))
  <1> DEFINE R == Run(M, interrupt)
             n == Len(l)
             done == DoneAt(M, index)
             G == GiveUpAt(l, nm, M, index, interrupt)
             stops == done \cup G
             stop == Min(stops)
             seen == {i \in M : i <= stop}
             p == col_find_property_sub(l, interrupt, nm, index, TRUE, ANY)
             q == col_find_property_sub(l, interrupt, nm, index, FALSE, ANY)
  <1>1. n \in Nat /\ DOMAIN l = 1..n /\ M \in SUBSET (0..n) /\ M \subseteq 1..n /\ M = SameName(l, nm)
    BY MatchingIn
  <1>2. /\ R \in SUBSET (0..n) /\ R \subseteq M /\ Min(M) \in R
        /\ \A i \in M : i \notin R => R \subseteq Below(M, i)
    BY <1>1, RunIs
  <1>3. /\ p = IF stops = {} THEN 0
               ELSE IF stop \in done THEN stop - 1
               ELSE IF index = -2 THEN Max(seen) - 1 ELSE 0
        /\ q = IF stops = {} THEN 0
               ELSE IF stop \in done THEN stop - 1
               ELSE IF index = -2 THEN Max(seen) - 1
               ELSE IF Max(seen) = 1 THEN CRASH ELSE Max(seen)
    BY DEF col_find_property_sub
  <1>4. \A g \in G : \A a \in R : a <= g
    BY GiveUpLate
  <1>5. done \cap R = {} /\ done \subseteq M
    <2>1. done \cap R = {}
      BY <1>1, NotDone
    <2> QED
      BY <2>1 DEF DoneAt
  <1>6. index # 0
    <2>1. Cardinality(R) \in Nat /\ Cardinality(R) # 0
      <3>1. IsFiniteSet(R) /\ Cardinality(R) \in Nat
        BY <1>1, <1>2, RankType
      <3> QED
        BY <1>2, <3>1, FS_EmptySet
    <2> QED
      BY <2>1
  <1>7. G = {i \in 1..n : (\E j \in M : j <= i) /\ ((interrupt /\ i \notin M) \/ i = n)}
    <2>1. (DOMAIN l \ SameName(l, nm)) \cup M = 1..n
      BY <1>1
    <2> QED
      BY <1>6, <2>1 DEF GiveUpAt
  <1>8. \A x \in M : x \in 1..n /\ x <= n
    BY <1>1
  <1>9. n \in G
    <2>1. PICK j \in M : TRUE
      OBVIOUS
    <2>2. j <= n /\ n \in 1..n
      BY <1>1, <1>8
    <2> QED
      BY <1>7, <2>2
  <1> DEFINE m == Min(M)
  <1>10. m \in M /\ \A x \in M : m <= x
    <2>1. M \in SUBSET Nat
      BY <1>1
    <2> QED
      BY <2>1, MinIs
  <1>11. ASSUME NEW i \in M, i \notin R PROVE \E g \in G : g < i
    <2>1. interrupt /\ R = {x \in M : m..x \subseteq M}
      BY <1>11 DEF Run, FirstRun
    <2> HIDE DEF m, G, R
    <2>2. PICK g \in m..i : g \notin M
      BY <1>11, <2>1
    <2>3. m \in 1..n /\ i \in 1..n
      BY <1>8, <1>10
    <2>4. g \in 1..n /\ m <= g /\ g <= i /\ g # i
      BY <1>1, <2>2, <2>3
    <2>5. g < i
      BY <2>3, <2>4
    <2>6. g \in G
      BY <1>7, <1>10, <2>1, <2>2, <2>4
    <2> QED
      BY <2>5, <2>6
  <1>12. stops \subseteq 1..n
    BY <1>5, <1>7, <1>8
  <1> HIDE DEF R, m, G, done, p, q, n
  <1>13. stop \in stops /\ \A g \in stops : stop <= g
    <2>1. stops \in SUBSET Nat /\ stops # {}
      BY <1>9, <1>12
    <2> HIDE DEF stops
    <2> QED
      BY <2>1, MinIs
  <1> HIDE DEF stop, stops
  <1>14. stop \in 1..n
    BY <1>12, <1>13
  <1>15. stop \notin done
    <2> SUFFICES ASSUME stop \in done PROVE FALSE
      OBVIOUS
    <2>1. stop \in M /\ stop \notin R
      BY <1>5
    <2>2. PICK g \in G : g < stop
      BY <1>11, <2>1
    <2>3. stop <= g /\ g \in 1..n
      BY <1>12, <1>13 DEF stops
    <2> QED
      BY <1>14, <2>2, <2>3
  <1>16. stop \in G
    BY <1>13, <1>15 DEF stops
  <1>17. seen = R
    <2>1. ASSUME NEW i \in R PROVE i \in M /\ i <= stop
      BY <1>2, <1>4, <1>16
    <2>2. ASSUME NEW i \in M, i <= stop PROVE i \in R
      <3> SUFFICES ASSUME i \notin R PROVE FALSE
        OBVIOUS
      <3>1. PICK g \in G : g < i
        BY <1>11
      <3>2. stop <= g /\ g \in 1..n /\ i \in 1..n
        BY <1>8, <1>12, <1>13 DEF stops
      <3> QED
        BY <1>14, <2>2, <3>1, <3>2
    <2> QED
      BY <2>1, <2>2
  <1>18. Max(R) \in R
    BY <1>1, <1>2, MaxIs
  <1>19. Max(R) # 1
    BY <1>2, <1>18
  <1>20. stops # {}
    BY <1>13
  <1>21. /\ p = IF index = -2 THEN Max(R) - 1 ELSE 0
         /\ q = IF index = -2 THEN Max(R) - 1 ELSE Max(R)
    BY <1>3, <1>15, <1>17, <1>19, <1>20
  <1> QED
    BY <1>18, <1>21 DEF R, p, q, FoundLast

\* An exact search for more items of a name and type than there are.
LEMMA FindTooFew ==
    ASSUME NEW S, NEW l \in Seq(S), NEW nm, NEW ty, NEW index \in Nat,
           NEW M, M = Matching(l, nm, ty), index >= Cardinality(M)
    PROVE  col_find_property_sub(l, FALSE, nm, index, TRUE, ty) = 0
  <1> DEFINE done == DoneAt(M, index)
             stops == done \cup GiveUpAt(l, nm, M, index, FALSE)
  <1>1. M \in SUBSET (0..Len(l)) /\ Len(l) \in Nat
    BY MatchingIn
  <1>2. done = {}
    <2>1. ASSUME NEW i \in M PROVE Cardinality(Below(M, i)) # index
      <3>1. Cardinality(Below(M, i)) < Cardinality(M) /\ Cardinality(M) \in Nat
        BY <1>1, RankType
      <3>2. Cardinality(Below(M, i)) \in Nat
        BY <1>1, RankType
      <3> QED
        BY <3>1, <3>2
    <2> QED
      BY <2>1 DEF DoneAt, Below
  <1>3. index # -2
    OBVIOUS
  <1> QED
    BY <1>2, <1>3 DEF col_find_property_sub

\* The run is not empty, and its first member is the first of all.
LEMMA RunFirst ==
    ASSUME NEW n \in Nat, NEW M \in SUBSET (0..n), M # {}, NEW interrupt \in BOOLEAN
    PROVE  0 < Cardinality(Run(M, interrupt)) /\ Nth(Run(M, interrupt), 0) = Min(M)
  <1> DEFINE R == Run(M, interrupt)
  <1>1. /\ R \in SUBSET (0..n) /\ Min(M) \in R /\ R \subseteq M
        /\ \A i \in R : Below(R, i) = Below(M, i)
    BY RunIs
  <1> HIDE DEF R
  <1>2. IsFiniteSet(R) /\ Cardinality(R) \in Nat
    BY <1>1, RankType
  <1>3. 0 < Cardinality(R)
    <2>1. Cardinality(R) # 0
      BY <1>1, <1>2, FS_EmptySet
    <2> QED
      BY <1>2, <2>1
  <1>4. Cardinality(Below(M, Min(M))) = 0
    <2>1. Min(M) \in M
      BY <1>1
    <2> QED
      BY <2>1, RankFirst
  <1>5. Cardinality(Below(R, Min(M))) = 0
    BY <1>1, <1>4
  <1>6. Min(M) = Nth(R, 0)
    <2>1. \A i \in R : Cardinality(Below(R, i)) = 0 => i = Nth(R, 0)
      BY <1>1, <1>3, NthIs
    <2> QED
      BY <1>1, <1>5, <2>1
  <1> QED
    BY <1>3, <1>6 DEF R

\* Which duplicate of the run each disposition means, given the index that
\* the search is asked for.
Asked(M, d, idx, lastdup, R, index) ==
    \/ /\ d \in {"LASTDUP", "LASTDUPNS"} /\ index = lastdup
       /\ AmongDups(M, d, idx) = Max(R)
    \/ /\ d \notin {"LASTDUP", "LASTDUPNS"} /\ index \in Nat
       /\ AmongDups(M, d, idx) = IF index < Cardinality(R) THEN Nth(R, index) ELSE 0

\* The dispositions mean what collection.h says.
LEMMA DupAsked ==
    ASSUME NEW n \in Nat, NEW M \in SUBSET (0..n), M # {}, NEW d \in Dups, NEW idx \in Nat, NEW lastdup
    PROVE  Asked(M, d, idx, lastdup, Run(M, INTERRUPT(d)), RefIndex(d, idx, lastdup))
  <1> DEFINE R == Run(M, INTERRUPT(d))
             index == RefIndex(d, idx, lastdup)
  <1>1. CASE d = "FIRSTDUP"
    <2>1. index = 0 /\ AmongDups(M, d, idx) = Min(M) /\ d \notin {"LASTDUP", "LASTDUPNS"}
      BY <1>1 DEF RefIndex, AmongDups
    <2>2. 0 < Cardinality(R) /\ Nth(R, 0) = Min(M)
      <3> DEFINE interrupt == INTERRUPT(d)
      <3>1. interrupt \in BOOLEAN
        BY DEF INTERRUPT
      <3> HIDE DEF interrupt
      <3>2. 0 < Cardinality(Run(M, interrupt)) /\ Nth(Run(M, interrupt), 0) = Min(M)
        BY <3>1, RunFirst
      <3> QED
        BY <3>2 DEF interrupt
    <2> HIDE DEF R, index
    <2>3. index < Cardinality(R) /\ Nth(R, index) = Min(M) /\ index \in Nat
      BY <2>1, <2>2
    <2>4. AmongDups(M, d, idx) = IF index < Cardinality(R) THEN Nth(R, index) ELSE 0
      BY <2>1, <2>3
    <2>5. Asked(M, d, idx, lastdup, R, index)
      BY <2>1, <2>3, <2>4 DEF Asked
    <2> QED
      BY <2>5 DEF R, index
  <1>2. CASE d = "LASTDUP"
    <2>1. INTERRUPT(d) = TRUE /\ index = lastdup /\ AmongDups(M, d, idx) = Max(FirstRun(M))
      BY <1>2 DEF INTERRUPT, RefIndex, AmongDups
    <2> QED
      BY <1>2, <2>1 DEF Run, Asked
  <1>3. CASE d = "LASTDUPNS"
    <2>1. INTERRUPT(d) = FALSE /\ index = lastdup /\ AmongDups(M, d, idx) = Max(M)
      BY <1>3 DEF INTERRUPT, RefIndex, AmongDups
    <2> QED
      BY <1>3, <2>1 DEF Run, Asked
  <1>4. CASE d = "NDUP"
    <2>1. /\ INTERRUPT(d) = TRUE /\ index = idx
          /\ AmongDups(M, d, idx) = IF idx < Cardinality(FirstRun(M)) THEN Nth(FirstRun(M), idx) ELSE 0
      BY <1>4 DEF INTERRUPT, RefIndex, AmongDups
    <2> QED
      BY <1>4, <2>1 DEF Run, Asked
  <1>5. CASE d = "NDUPNS"
    <2>1. /\ INTERRUPT(d) = FALSE /\ index = idx
          /\ AmongDups(M, d, idx) = IF idx < Cardinality(M) THEN Nth(M, idx) ELSE 0
      BY <1>5 DEF INTERRUPT, RefIndex, AmongDups
    <2> QED
      BY <1>5, <2>1 DEF Run, Asked
  <1> QED
    BY <1>1, <1>2, <1>3, <1>4, <1>5 DEF Dups

\* The header is found only under the name of the collection.
LEMMA HeaderNoMatch ==
    ASSUME NEW l, GoodList(l), NEW nm, ~Alike(HeaderName, nm)
    PROVE  /\ 1 \notin SameName(l, nm) /\ \A ty : 1 \notin Matching(l, nm, ty)
           /\ Len(l) \in Nat /\ Len(l) > 0 /\ l \in Seq(Item \cup {HeaderItem})
           /\ Sound(l, Item \cup {HeaderItem})
  <1>1. Sound(l, Item \cup {HeaderItem}) /\ l[1] = HeaderItem
    BY DEF GoodList
  <1>2. HeaderItem.prop = HeaderName
    BY DEF HeaderItem, Header
  <1>3. Len(l) \in Nat /\ Len(l) > 0 /\ l \in Seq(Item \cup {HeaderItem})
    BY <1>1, LastIs
  <1>4. 1 \notin SameName(l, nm)
    BY <1>1, <1>2 DEF SameName
  <1>5. \A ty : 1 \notin Matching(l, nm, ty)
    BY <1>4 DEF Matching
  <1> QED
    BY <1>1, <1>3, <1>4, <1>5

\* Extraction among duplicates.
LEMMA ExtractDup ==
    ASSUME NEW l, GoodList(l), NEW nm, ~Alike(HeaderName, nm), NEW d \in Dups, NEW idx \in Nat
    PROVE  ExtractPosition(Made(l), d, nm, idx, ANY) =
              IF SameName(l, nm) = {} THEN 0 ELSE AmongDups(SameName(l, nm), d, idx)
  <1> DEFINE M == SameName(l, nm)
             n == Len(l)
             R == Run(M, INTERRUPT(d))
             index == RefIndex(d, idx, -2)
             I == INTERRUPT(d)
             dup == col_find_property_sub(l, I, nm, index, TRUE, ANY)
             c == Made(l)
             P == ExtractPosition(c, d, nm, idx, ANY)
             S == Item \cup {HeaderItem}
             all == AmongDups(M, d, idx)
  <1>1. n \in Nat /\ n > 0 /\ l \in Seq(S) /\ 1 \notin M
    <2>1. 1 \notin SameName(l, nm)
      BY HeaderNoMatch
    <2>2. Sound(l, S)
      BY DEF GoodList
    <2> HIDE DEF S
    <2>3. n \in Nat /\ n > 0 /\ l \in Seq(S)
      BY <2>2, LastIs
    <2> QED
      BY <2>1, <2>3
  <1> HIDE DEF S
  <1>2. M \in SUBSET (0..n) /\ M \subseteq 1..n /\ Matching(l, nm, ANY) = M
    BY <1>1, MatchingIn
  <1>3. P = IF n <= 1 THEN 0 ELSE IF dup = 0 THEN 0 ELSE dup + 1
    <2>1. c.list = l /\ c.count = n
      BY DEF Made
    <2>2. n <= 1 \/ n > 1
      BY <1>1
    <2>3. d # "END" /\ d # "FRONT" /\ d # "BEFORE" /\ d # "AFTER" /\ d # "INDEX"
      BY DEF Dups
    <2>4. CASE n <= 1
      <3>1. ~(n > 1)
        BY <1>1, <2>4
      <3> HIDE DEF n, c
      <3> QED
        BY <2>1, <2>4, <3>1 DEF ExtractPosition
    <2>5. CASE n > 1
      <3>1. ~(n <= 1)
        BY <1>1, <2>5
      <3> HIDE DEF n, c
      <3> QED
        BY <2>1, <2>3, <2>5, <3>1 DEF ExtractPosition
    <2> QED
      BY <2>2, <2>4, <2>5
  <1>4. CASE M = {}
    <2>1. index \in Int
      BY DEF RefIndex
    <2>2. dup = 0
      BY <1>1, <1>2, <1>4, <2>1, FindNothing
    <2> HIDE DEF P, dup, n
    <2> QED
      BY <1>3, <1>4, <2>2 DEF P, M
  <1>5. CASE M # {}
    <2>1. n > 1
      <3>1. PICK x \in M : TRUE
        BY <1>5
      <3>2. x \in 1..n /\ x # 1
        BY <1>1, <1>2
      <3> HIDE DEF n, M
      <3> QED
        BY <1>1, <3>2
    <2>2. \/ index = -2 /\ all = Max(R)
          \/ index \in Nat /\ all = IF index < Cardinality(R) THEN Nth(R, index) ELSE 0
      <3> HIDE DEF n, M
      <3>1. Asked(M, d, idx, -2, R, index)
        BY <1>1, <1>2, <1>5, DupAsked
      <3> QED
        BY <3>1 DEF Asked
    <2>3. R \in SUBSET (0..n) /\ R \subseteq M
      <3>1. I \in BOOLEAN
        BY DEF INTERRUPT
      <3> HIDE DEF I, n, M
      <3>2. Run(M, I) \in SUBSET (0..n) /\ Run(M, I) \subseteq M
        BY <1>1, <1>2, <1>5, <3>1, RunIs
      <3> QED
        BY <3>2 DEF I
    <2>4. R = Run(M, I) /\ M = Matching(l, nm, ANY) /\ 1 \notin M
      BY <1>1, <1>2
    <2>8. I \in BOOLEAN
      BY DEF INTERRUPT
    <2> HIDE DEF R, n, M, P, all, index, c, I
    <2>5. CASE index = -2 /\ all = Max(R)
      <3>1. index \in Int /\ ~(index >= 0 /\ index < Cardinality(R))
        BY <2>5
      <3>2. Max(R) \in R /\ dup = IF index = -2 THEN Max(R) - 1 ELSE 0
        <4>1. ~(index >= 0 /\ index < Cardinality(Run(M, I)))
          BY <2>4, <3>1
        <4>2. index \in Int
          BY <3>1
        <4>3. M = Matching(l, nm, ANY)
          BY <2>4
        <4>4. 1 \notin M
          BY <2>4
        <4>5. l \in Seq(S)
          BY <1>1
        <4>6. Max(Run(M, I)) \in Run(M, I) /\ FoundLast(l, I, nm, index, Max(Run(M, I)))
          BY <1>5, <2>8, <4>1, <4>2, <4>3, <4>4, <4>5, FindLast
        <4> QED
          BY <2>4, <4>6 DEF FoundLast
      <3> DEFINE x == Max(R)
      <3>3. x \in R /\ dup = x - 1 /\ all = x
        BY <2>5, <3>2
      <3> HIDE DEF x, dup
      <3>4. x \in 1..n /\ x # 1
        BY <1>1, <1>2, <2>3, <3>3
      <3>5. P = x
        BY <1>1, <1>3, <2>1, <3>3, <3>4
      <3> QED
        BY <1>5, <3>3, <3>5 DEF P, M, all, c
    <2>6. CASE index \in Nat /\ index < Cardinality(R) /\ all = Nth(R, index)
      <3> DEFINE x == Nth(R, index)
      <3>1. dup = x - 1
        <4>1. index < Cardinality(Run(M, I))
          BY <2>4, <2>6
        <4>2. index \in Nat
          BY <2>6
        <4>3. M = Matching(l, nm, ANY)
          BY <2>4
        <4>4. l \in Seq(S)
          BY <1>1
        <4>5. FoundBefore(l, I, nm, ANY, index, Nth(Run(M, I), index))
          BY <1>5, <2>8, <4>1, <4>2, <4>3, <4>4, FindDup
        <4> QED
          BY <2>4, <4>5 DEF FoundBefore
      <3>2. x \in R
        BY <1>1, <2>3, <2>6, NthIs
      <3> HIDE DEF x, dup
      <3>3. x \in 1..n /\ x # 1
        BY <1>1, <1>2, <2>3, <3>2
      <3>4. P = x
        BY <1>1, <1>3, <2>1, <3>1, <3>3
      <3>5. all = x
        BY <2>6 DEF x
      <3> QED
        BY <1>5, <3>4, <3>5 DEF P, M, all, c
    <2>7. CASE index \in Nat /\ ~(index < Cardinality(R)) /\ all = 0
      <3>1. index \in Int /\ ~(index >= 0 /\ index < Cardinality(R)) /\ index # -2
        BY <2>7
      <3>2. dup = IF index = -2 THEN Max(R) - 1 ELSE 0
        <4>1. ~(index >= 0 /\ index < Cardinality(Run(M, I)))
          BY <2>4, <3>1
        <4>2. index \in Int
          BY <3>1
        <4>3. M = Matching(l, nm, ANY)
          BY <2>4
        <4>4. 1 \notin M
          BY <2>4
        <4>5. l \in Seq(S)
          BY <1>1
        <4>6. Max(Run(M, I)) \in Run(M, I) /\ FoundLast(l, I, nm, index, Max(Run(M, I)))
          BY <1>5, <2>8, <4>1, <4>2, <4>3, <4>4, <4>5, FindLast
        <4> QED
          BY <2>4, <4>6 DEF FoundLast
      <3>3. dup = 0
        BY <2>4, <3>1, <3>2
      <3> HIDE DEF dup
      <3>4. P = 0
        BY <1>3, <3>3
      <3> QED
        BY <1>5, <2>7, <3>4 DEF P, M, all, c
    <2> QED
      BY <2>2, <2>5, <2>6, <2>7
  <1> QED
    BY <1>4, <1>5

\* col_get_dup_item with exact set, when the item that is found has the spelling
\* asked for: strncmp() then agrees with strncasecmp().
LEMMA GetDup ==
    ASSUME NEW l, GoodList(l), NEW nm, ~Alike(HeaderName, nm), NEW ty, NEW idx \in Nat
    PROVE  LET M == Matching(l, nm, ty)
           IN  IF idx < Cardinality(M)
               THEN l[Nth(M, idx)].prop = nm => col_get_dup_item(l, nm, ty, idx, TRUE) = Nth(M, idx)
               ELSE col_get_dup_item(l, nm, ty, idx, TRUE) = 0
  <1> DEFINE M == Matching(l, nm, ty)
             n == Len(l)
             S == Item \cup {HeaderItem}
             p == col_find_property_sub(l, FALSE, nm, idx, TRUE, ty)
             x == Nth(M, idx)
  <1>1. n \in Nat /\ n > 0 /\ l \in Seq(S) /\ 1 \notin M
    <2>1. 1 \notin Matching(l, nm, ty)
      BY HeaderNoMatch
    <2>2. Sound(l, S)
      BY DEF GoodList
    <2> HIDE DEF S
    <2>3. n \in Nat /\ n > 0 /\ l \in Seq(S)
      BY <2>2, LastIs
    <2> QED
      BY <2>1, <2>3
  <1> HIDE DEF S
  <1>2. M \in SUBSET (0..n) /\ M \subseteq 1..n /\ M \subseteq SameName(l, nm)
    BY <1>1, MatchingIn
  <1>3. Cardinality(M) \in Nat
    BY <1>1, <1>2, RankType
  <1> HIDE DEF M, n
  <1>4. CASE idx < Cardinality(M)
    <2> SUFFICES ASSUME l[x].prop = nm PROVE col_get_dup_item(l, nm, ty, idx, TRUE) = x
      BY <1>4 DEF M, x
    <2>1. x \in M
      BY <1>1, <1>2, <1>4, NthIs
    <2>2. M # {} /\ Run(M, FALSE) = M
      BY <2>1 DEF Run
    <2>4. idx < Cardinality(Run(M, FALSE))
      BY <1>4, <2>2
    <2>5. p = Nth(Run(M, FALSE), idx) - 1
      <3> DEFINE no == FALSE
      <3>1. M = Matching(l, nm, ty) /\ idx < Cardinality(Run(M, no)) /\ no \in BOOLEAN
        BY <2>4 DEF M
      <3> HIDE DEF no
      <3>2. l \in Seq(S)
        BY <1>1
      <3>3. M # {}
        BY <2>2
      <3>4. FoundBefore(l, no, nm, ty, idx, Nth(Run(M, no), idx))
        BY <3>1, <3>2, <3>3, FindDup
      <3> QED
        BY <3>4 DEF no, FoundBefore
    <2>6. p = x - 1
      BY <2>2, <2>5
    <2> HIDE DEF p, x
    <2>7. x \in 1..n /\ x # 1
      BY <1>1, <1>2, <2>1
    <2>8. p \notin {0, CRASH} /\ p # n /\ p + 1 = x
      BY <1>1, <2>6, <2>7 DEF CRASH
    <2>9. l[p + 1].prop = nm
      BY <2>8
    <2>10. col_get_dup_item(l, nm, ty, idx, TRUE) = x
      BY <2>8, <2>9 DEF col_get_dup_item, p, n
    <2> QED
      BY <2>10
  <1>5. CASE ~(idx < Cardinality(M))
    <2>1. idx >= Cardinality(M)
      BY <1>3, <1>5
    <2>2. p = 0
      BY <1>1, <2>1, FindTooFew DEF M
    <2> HIDE DEF p
    <2>3. col_get_dup_item(l, nm, ty, idx, TRUE) = 0
      <3>1. p # n /\ n # 0
        BY <1>1, <2>2
      <3> QED
        BY <2>2, <3>1 DEF col_get_dup_item, p, n
    <2> QED
      BY <1>5, <2>3 DEF M
  <1> QED
    BY <1>4, <1>5

(* Searches among duplicates find the one that collection.h says, for any  *)
(* list the calls can build: extraction by FIRSTDUP, LASTDUP, NDUP and the *)
(* NS dispositions, without regard to case, and col_get_dup_item with      *)
(* exact set, of any type, whenever the item to be found is spelled as     *)
(* asked for, whatever the spelling of the items before it.                *)
THEOREM SearchCorrect == Spec => []SearchMeans
  <1>1. ListInv => SearchMeans
    <2> SUFFICES ASSUME ListInv, col # NULL PROVE SearchMeans
      BY DEF SearchMeans, DupsExtracted, ExactDupFound
    <2> DEFINE l == col.list
    <2>1. col = Made(l) /\ GoodList(l)
      BY OwnedIs DEF ListInv
    <2>2. DupsExtracted
      <3> SUFFICES ASSUME NEW nm \in UnlikeHeader, NEW d \in Dups, NEW idx \in Indexes \cap Nat
                   PROVE  ExtractPosition(col, d, nm, idx, ANY) =
                             IF SameName(l, nm) = {} THEN 0 ELSE AmongDups(SameName(l, nm), d, idx)
        BY DEF DupsExtracted
      <3> HIDE DEF l
      <3>1. ~Alike(HeaderName, nm) /\ idx \in Nat
        BY DEF UnlikeHeader
      <3>2. ExtractPosition(Made(l), d, nm, idx, ANY) =
               IF SameName(l, nm) = {} THEN 0 ELSE AmongDups(SameName(l, nm), d, idx)
        BY <2>1, <3>1, ExtractDup
      <3> QED
        BY <2>1, <3>2
    <2>3. ExactDupFound
      <3> SUFFICES ASSUME NEW nm \in UnlikeHeader, NEW ty \in Filters, NEW idx \in Indexes \cap Nat
                   PROVE  LET M == Matching(l, nm, ty)
                          IN  IF idx < Cardinality(M)
                              THEN l[Nth(M, idx)].prop = nm
                                      => col_get_dup_item(l, nm, ty, idx, TRUE) = Nth(M, idx)
                              ELSE col_get_dup_item(l, nm, ty, idx, TRUE) = 0
        BY DEF ExactDupFound
      <3> HIDE DEF l
      <3>1. ~Alike(HeaderName, nm) /\ idx \in Nat
        BY DEF UnlikeHeader
      <3> QED
        BY <2>1, <3>1, GetDup
    <2> QED
      BY <2>2, <2>3 DEF SearchMeans
  <1>2. Init => ListInv
    BY ListInvInit
  <1>3. ListInv /\ [Next]_vars => ListInv'
    BY ListInvStep
  <1> QED
    BY <1>1, <1>2, <1>3, PTL DEF Spec

-----------------------------------------------------------------------------
(* Insertion among duplicates *)

\* Behind the last duplicate of the run.
Behind(M, d) == 1 + (IF INTERRUPT(d) THEN Max(FirstRun(M)) ELSE Max(M))

\* Where collection.h puts an item among its duplicates.
PlaceOf(M, d, idx) ==
    IF AmongDups(M, d, idx) = 0 \/ d \in {"LASTDUP", "LASTDUPNS"}
    THEN Behind(M, d) ELSE AmongDups(M, d, idx)

\* What an insertion looks for.
DupFound(l, d, nm, idx) ==
    col_find_property_sub(l, INTERRUPT(d), nm, RefIndex(d, idx, -1), FALSE, ANY)

\* The item found decides the place.
LEMMA PlaceDup ==
    ASSUME NEW T, NEW l, Sound(l, T), NEW new \in T, NEW d \in Dups, NEW idx, NEW dup,
           dup = DupFound(l, d, new.prop, idx)
    PROVE  /\ dup = 0 => Place(Made(l), new, d, NULL, idx, {}) = Result("ENOENT", Made(l), {})
           /\ dup \in 1..Len(l) => Place(Made(l), new, d, NULL, idx, {})
                                      = Result("EOK", Made(InsertAt(l, dup + 1, new)), {})
  <1> DEFINE c == Made(l)
             n == Len(l)
             P == Place(c, new, d, NULL, idx, {})
             ref == col_find_property(c.list, NULL, ANY)
             found == col_find_property_sub(c.list, INTERRUPT(d), new.prop,
                                            RefIndex(d, idx, -1), FALSE, ANY)
             ok(x) == Result("EOK", x, {})
             failed(e) == Result(e, c, {})
             beside == ok(AddBesideDup(c, found, new))
  <1>1. c.list = l /\ n \in Nat
    BY LastIs DEF Made
  <1>2. found = dup
    BY <1>1 DEF DupFound
  <1>3. P = CASE d = "END" -> ok(LinkLast(c, new))
              [] d = "FRONT" -> ok(AddFirst(c, new))
              [] d \in {"BEFORE", "AFTER"} /\ NULL = NULL -> failed("EINVAL")
              [] d \in {"BEFORE", "AFTER"} /\ NULL # NULL /\ ref = 0 -> failed("ENOENT")
              [] d = "BEFORE" /\ NULL # NULL /\ ref # 0 -> ok(LinkAfter(c, ref, new))
              [] d = "AFTER" /\ NULL # NULL /\ ref # 0 ->
                    ok(IF ref + 1 < Len(c.list) THEN LinkAfter(c, ref + 1, new)
                                                ELSE LinkLast(c, new))
              [] d = "INDEX" ->
                    ok(CASE idx = 0 -> AddFirst(c, new)
                         [] idx # 0 /\ BeyondLast(c, idx) -> LinkLast(c, new)
                         [] OTHER -> LinkAfter(c, 1 + idx, new))
              [] d \in Dups /\ found = CRASH -> failed("CRASH")
              [] d \in Dups /\ found = 0 -> failed("ENOENT")
              [] d \in Dups /\ found > 0 -> beside
    BY DEF Place
  <1>4. /\ d \notin {"BEFORE", "AFTER"} /\ d \in Dups
        /\ d # "END" /\ d # "FRONT" /\ d # "BEFORE" /\ d # "AFTER" /\ d # "INDEX"
    BY DEF Dups
  <1>5. dup \in 1..n => AddBesideDup(c, dup, new) = Made(InsertAt(l, dup + 1, new))
    BY LinkIs
  <1> SUFFICES /\ dup = 0 => P = failed("ENOENT")
               /\ dup \in 1..n => P = ok(Made(InsertAt(l, dup + 1, new)))
    OBVIOUS
  <1> HIDE DEF c, n, P, ref, found, ok, failed, beside
  <1>6. dup = 0 => P = failed("ENOENT")
    BY <1>2, <1>3, <1>4 DEF CRASH
  <1>7. ASSUME dup \in 1..n PROVE P = ok(Made(InsertAt(l, dup + 1, new)))
    <2>1. dup > 0 /\ dup # 0 /\ dup # CRASH
      BY <1>1, <1>7 DEF CRASH
    <2>2. P = beside
      BY <1>2, <1>3, <1>4, <2>1
    <2> QED
      BY <1>2, <1>5, <1>7, <2>2 DEF beside
  <1> QED
    BY <1>6, <1>7

\* What it finds: nothing, or the item before the place.
LEMMA DupFoundIs ==
    ASSUME NEW T, NEW l \in Seq(T), NEW nm, NEW d \in Dups, NEW idx \in Nat,
           NEW M, M = SameName(l, nm), 1 \notin M
    PROVE  /\ M = {} => DupFound(l, d, nm, idx) = 0
           /\ M # {} => /\ DupFound(l, d, nm, idx) \in 1..Len(l)
                        /\ DupFound(l, d, nm, idx) + 1 = PlaceOf(M, d, idx)
  <1> DEFINE n == Len(l)
             I == INTERRUPT(d)
             R == Run(M, I)
             index == RefIndex(d, idx, -1)
             dup == DupFound(l, d, nm, idx)
             all == AmongDups(M, d, idx)
             z == Max(R)
             last == d \in {"LASTDUP", "LASTDUPNS"}
             at == PlaceOf(M, d, idx)
  <1>1. n \in Nat /\ M \in SUBSET (0..n) /\ M \subseteq 1..n /\ M = Matching(l, nm, ANY)
    BY MatchingIn
  <1>2. dup = col_find_property_sub(l, I, nm, index, FALSE, ANY)
    BY DEF DupFound
  <1>3. I \in BOOLEAN
    BY DEF INTERRUPT
  <1>4. Behind(M, d) = 1 + z
    BY DEF Behind, Run
  <1>5. at = IF all = 0 \/ last THEN 1 + z ELSE all
    BY <1>4 DEF PlaceOf
  <1>6. index \in Int
    BY DEF RefIndex
  <1>7. CASE M = {}
    <2>1. dup = 0
      BY <1>1, <1>2, <1>6, <1>7, FindNothing
    <2> QED
      BY <1>7, <2>1
  <1>8. CASE M # {}
    <2>1. Asked(M, d, idx, -1, R, index)
      BY <1>1, <1>8, DupAsked
    <2>2. \/ last /\ index = -1
          \/ ~last /\ index \in Nat /\ all = IF index < Cardinality(R) THEN Nth(R, index) ELSE 0
      BY <2>1 DEF Asked
    <2> SUFFICES dup \in 1..n /\ dup + 1 = at
      BY <1>8
    <2> HIDE DEF I, n, index, all, last, at, dup
    <2>3. R \subseteq M
      BY <1>1, <1>3, <1>8, RunIs
    <2>4. ASSUME (last /\ index = -1) \/ (~last /\ index \in Nat /\ ~(index < Cardinality(R)) /\ all = 0)
          PROVE  dup \in 1..n /\ dup + 1 = at
      <3>1. ~(index >= 0 /\ index < Cardinality(R)) /\ index # -2
        BY <2>4
      <3>2. M = Matching(l, nm, ANY)
        BY <1>1
      <3>3. ~(index >= 0 /\ index < Cardinality(Run(M, I)))
        BY <3>1
      <3>4. Max(Run(M, I)) \in Run(M, I) /\ FoundLast(l, I, nm, index, Max(Run(M, I)))
        BY <1>3, <1>6, <1>8, <3>2, <3>3, FindLast
      <3>5. z \in M /\ dup = z
        BY <1>2, <2>3, <3>1, <3>4 DEF FoundLast
      <3>6. at = 1 + z
        BY <1>5, <2>4
      <3> HIDE DEF z
      <3>7. z \in 1..n
        BY <1>1, <3>5
      <3> QED
        BY <1>1, <3>5, <3>6, <3>7
    <2>5. ASSUME ~last, index \in Nat, index < Cardinality(R), all = Nth(R, index)
          PROVE  dup \in 1..n /\ dup + 1 = at
      <3> DEFINE a == Nth(R, index)
      <3>1. index < Cardinality(Run(M, I))
        BY <2>5
      <3>2. M = Matching(l, nm, ANY)
        BY <1>1
      <3>3. /\ Nth(Run(M, I), index) \in Run(M, I)
            /\ FoundBefore(l, I, nm, ANY, index, Nth(Run(M, I), index))
        BY <1>3, <1>8, <2>5, <3>1, <3>2, FindDup
      <3>4. a \in M /\ dup = a - 1 /\ all = a
        BY <1>2, <2>3, <2>5, <3>3 DEF FoundBefore
      <3> HIDE DEF a
      <3>5. a \in 1..n /\ a # 1
        BY <1>1, <3>4
      <3>6. a # 0
        BY <1>1, <3>5
      <3>7. at = a
        BY <1>5, <2>5, <3>4, <3>6
      <3> QED
        BY <1>1, <3>4, <3>5, <3>7
    <2> QED
      BY <2>2, <2>4, <2>5
  <1> QED
    BY <1>7, <1>8

\* Insertion among duplicates.
LEMMA InsertDup ==
    ASSUME NEW l, GoodList(l), NEW nm, ~Alike(HeaderName, nm), NEW d \in Dups, NEW idx \in Nat,
           NEW new, new.prop = nm, NEW M, M = SameName(l, nm)
    PROVE  Place(Made(l), new, d, NULL, idx, {})
              = IF M = {} THEN Result("ENOENT", Made(l), {})
                ELSE Result("EOK", Made(InsertAt(l, PlaceOf(M, d, idx), new)), {})
  <1> DEFINE S == Item \cup {HeaderItem}
             T == S \cup {new}
             dup == DupFound(l, d, nm, idx)
  <1>1. Sound(l, S) /\ 1 \notin M /\ l \in Seq(S)
    <2>1. 1 \notin SameName(l, nm)
      BY HeaderNoMatch
    <2>2. Sound(l, S)
      BY DEF GoodList
    <2> HIDE DEF S
    <2>3. l \in Seq(S)
      BY <2>2, LastIs
    <2> QED
      BY <2>1, <2>2, <2>3
  <1> HIDE DEF S
  <1>2. l \in Seq(T)
    <2>1. Len(l) \in Nat /\ \A i \in 1..Len(l) : l[i] \in S
      BY <1>1, LastIs
    <2>2. l = [i \in 1..Len(l) |-> l[i]]
      BY <1>1, LenProperties
    <2>3. \A i \in 1..Len(l) : l[i] \in T
      BY <2>1
    <2> HIDE DEF T
    <2> QED
      BY <2>1, <2>2, <2>3, IsASeq
  <1>3. Sound(l, T) /\ new \in T
    BY <1>1, <1>2 DEF Sound
  <1> HIDE DEF T
  <1>4. /\ M = {} => dup = 0
        /\ M # {} => dup \in 1..Len(l) /\ dup + 1 = PlaceOf(M, d, idx)
    BY <1>1, <1>2, DupFoundIs
  <1>5. dup = DupFound(l, d, new.prop, idx)
    OBVIOUS
  <1> HIDE DEF dup
  <1>6. /\ dup = 0 => Place(Made(l), new, d, NULL, idx, {}) = Result("ENOENT", Made(l), {})
        /\ dup \in 1..Len(l) => Place(Made(l), new, d, NULL, idx, {})
                                   = Result("EOK", Made(InsertAt(l, dup + 1, new)), {})
    BY <1>3, <1>5, PlaceDup
  <1> QED
    BY <1>4, <1>6

\* Fewer members than what they are mapped to one by one.
LEMMA NotMore ==
    ASSUME NEW N, NEW M, IsFiniteSet(M), NEW f \in [N -> M], \A x, y \in N : f[x] = f[y] => x = y
    PROVE  IsFiniteSet(N) /\ Cardinality(N) <= Cardinality(M)
  <1>1. f \in Injection(N, M)
    BY DEF Injection, IsInjective
  <1> QED
    BY <1>1, FS_Injection

\* What a position of the matching items is.
LEMMA MatchingIs ==
    ASSUME NEW S, NEW l \in Seq(S), NEW nm, NEW ty, NEW n, n = Len(l)
    PROVE  /\ Matching(l, nm, ty) = {i \in 1..n : Alike(l[i].prop, nm) /\ ty \in {ANY, l[i].type}}
           /\ n \in Nat /\ IsFiniteSet(Matching(l, nm, ty)) /\ Cardinality(Matching(l, nm, ty)) \in Nat
  <1>1. Len(l) \in Nat /\ DOMAIN l = 1..Len(l) /\ Matching(l, nm, ty) \in SUBSET (0..Len(l))
    BY MatchingIn
  <1>2. Matching(l, nm, ty) = {i \in 1..n : Alike(l[i].prop, nm) /\ ty \in {ANY, l[i].type}}
    BY <1>1 DEF Matching, SameName
  <1>3. IsFiniteSet(Matching(l, nm, ty)) /\ Cardinality(Matching(l, nm, ty)) \in Nat
    BY <1>1, RankType
  <1> QED
    BY <1>1, <1>2, <1>3

\* An insertion makes at most one item more match.
LEMMA MatchInsert ==
    ASSUME NEW S, NEW l \in Seq(S), NEW item \in S, NEW k \in 1..(Len(l) + 1), NEW nm, NEW ty
    PROVE  Cardinality(Matching(InsertAt(l, k, item), nm, ty)) <= Cardinality(Matching(l, nm, ty)) + 1
  <1> DEFINE n == Len(l)
             t == InsertAt(l, k, item)
             M == Matching(l, nm, ty)
             N == Matching(t, nm, ty)
             new == n + 1
             is(x) == Alike(x.prop, nm) /\ ty \in {ANY, x.type}
  <1>1. t \in Seq(S) /\ Len(t) = new
    BY Inserted
  <1>2. \A j \in 1..new : t[j] = IF j < k THEN l[j] ELSE IF j = k THEN item ELSE l[j - 1]
    BY Inserted
  <1>3. M = {i \in 1..n : is(l[i])} /\ n \in Nat /\ IsFiniteSet(M) /\ Cardinality(M) \in Nat
    BY MatchingIs
  <1> HIDE DEF t
  <1>4. N = {i \in 1..new : is(t[i])} /\ IsFiniteSet(N) /\ Cardinality(N) \in Nat
    <2> HIDE DEF new
    <2> QED
      BY <1>1, MatchingIs
  <1>5. k \in 1..(n + 1)
    OBVIOUS
  <1> HIDE DEF n, M, N, is
  <1> DEFINE to(j) == IF j < k THEN j ELSE j - 1
             f == [j \in N \ {k} |-> to(j)]
  <1>6. ASSUME NEW j \in N \ {k} PROVE to(j) \in M
    <2>1. j \in 1..(n + 1) /\ is(t[j]) /\ j # k
      BY <1>4
    <2>2. CASE j < k
      <3>1. j \in 1..n /\ t[j] = l[j]
        BY <1>2, <1>3, <1>5, <2>1, <2>2
      <3> QED
        BY <1>3, <2>1, <2>2, <3>1
    <2>3. CASE j > k
      <3>1. j - 1 \in 1..n /\ ~(j < k)
        BY <1>3, <1>5, <2>1, <2>3
      <3>2. t[j] = l[j - 1]
        BY <1>2, <2>1, <3>1
      <3> QED
        BY <1>3, <2>1, <3>1, <3>2
    <2> QED
      BY <1>3, <1>5, <2>1, <2>2, <2>3
  <1>7. ASSUME NEW x \in N \ {k}, NEW y \in N \ {k}, to(x) = to(y) PROVE x = y
    <2>1. x \in 1..(n + 1) /\ y \in 1..(n + 1) /\ x # k /\ y # k
      BY <1>4
    <2> QED
      BY <1>3, <1>5, <1>7, <2>1
  <1>8. f \in [N \ {k} -> M] /\ \A x, y \in N \ {k} : f[x] = f[y] => x = y
    <2> HIDE DEF to
    <2> QED
      BY <1>6, <1>7
  <1> HIDE DEF f
  <1>9. Cardinality(N \ {k}) <= Cardinality(M)
    <2> DEFINE D == N \ {k}
    <2>1. f \in [D -> M] /\ \A x, y \in D : f[x] = f[y] => x = y
      BY <1>8
    <2> HIDE DEF D
    <2>2. Cardinality(D) <= Cardinality(M)
      BY <1>3, <2>1, NotMore
    <2> QED
      BY <2>2 DEF D
  <1>10. Cardinality(N \ {k}) = IF k \in N THEN Cardinality(N) - 1 ELSE Cardinality(N)
    BY <1>4, FS_RemoveElement
  <1>11. Cardinality(N) <= Cardinality(M) + 1
    BY <1>3, <1>4, <1>9, <1>10
  <1> QED
    BY <1>11 DEF N, M, t

\* Taking out an item that matches leaves one match less, or fewer.
LEMMA MatchRemove ==
    ASSUME NEW S, NEW l \in Seq(S), NEW p \in 1..Len(l), NEW nm, NEW ty, p \in Matching(l, nm, ty)
    PROVE  Cardinality(Matching(RemoveAt(l, p), nm, ty)) <= Cardinality(Matching(l, nm, ty)) - 1
  <1> DEFINE n == Len(l)
             t == RemoveAt(l, p)
             M == Matching(l, nm, ty)
             N == Matching(t, nm, ty)
             new == n - 1
             is(x) == Alike(x.prop, nm) /\ ty \in {ANY, x.type}
  <1>1. t \in Seq(S) /\ Len(t) = new
    BY Removed
  <1>2. \A j \in 1..new : t[j] = IF j < p THEN l[j] ELSE l[j + 1]
    BY Removed
  <1>3. M = {i \in 1..n : is(l[i])} /\ n \in Nat /\ IsFiniteSet(M) /\ Cardinality(M) \in Nat
    BY MatchingIs
  <1> HIDE DEF t
  <1>4. N = {i \in 1..new : is(t[i])}
    <2> HIDE DEF new
    <2> QED
      BY <1>1, MatchingIs
  <1>5. p \in 1..n /\ p \in M
    OBVIOUS
  <1> HIDE DEF n, M, N, is
  <1> DEFINE to(j) == IF j < p THEN j ELSE j + 1
             f == [j \in N |-> to(j)]
             D == M \ {p}
  <1>6. ASSUME NEW j \in N PROVE to(j) \in D
    <2>1. j \in 1..(n - 1) /\ is(t[j])
      BY <1>4
    <2>2. to(j) \in 1..n /\ to(j) # p
      BY <1>3, <1>5, <2>1
    <2>3. t[j] = l[to(j)]
      BY <1>2, <2>1
    <2> HIDE DEF to
    <2> QED
      BY <1>3, <2>1, <2>2, <2>3
  <1>7. ASSUME NEW x \in N, NEW y \in N, to(x) = to(y) PROVE x = y
    <2>1. x \in 1..(n - 1) /\ y \in 1..(n - 1)
      BY <1>4
    <2> QED
      BY <1>3, <1>5, <1>7, <2>1
  <1>8. IsFiniteSet(D) /\ Cardinality(D) = Cardinality(M) - 1
    BY <1>3, <1>5, FS_RemoveElement
  <1> HIDE DEF D
  <1>9. f \in [N -> D] /\ \A x, y \in N : f[x] = f[y] => x = y
    <2> HIDE DEF to
    <2> QED
      BY <1>6, <1>7
  <1> HIDE DEF f
  <1>10. Cardinality(N) <= Cardinality(D)
    BY <1>8, <1>9, NotMore
  <1>11. Cardinality(N) <= Cardinality(M) - 1
    BY <1>8, <1>10
  <1> QED
    BY <1>11 DEF N, M, t

\* Writing over an item that matches makes no other one match.
LEMMA MatchReplace ==
    ASSUME NEW S, NEW l \in Seq(S), NEW item \in S, NEW p \in 1..Len(l), NEW nm, NEW ty,
           p \in Matching(l, nm, ty)
    PROVE  Cardinality(Matching([l EXCEPT ![p] = item], nm, ty)) <= Cardinality(Matching(l, nm, ty))
  <1> DEFINE t == [l EXCEPT ![p] = item]
             M == Matching(l, nm, ty)
             N == Matching(t, nm, ty)
  <1>1. DOMAIN t = DOMAIN l /\ \A i \in DOMAIN l : i # p => t[i] = l[i]
    OBVIOUS
  <1> HIDE DEF t
  <1>2. N \in SUBSET M
    BY <1>1 DEF Matching, SameName
  <1>3. IsFiniteSet(M)
    BY MatchingIs
  <1> HIDE DEF M, N
  <1>4. Cardinality(N) <= Cardinality(M)
    BY <1>2, <1>3, FS_Subset
  <1> QED
    BY <1>4 DEF M, N, t

\* An insertion, or a failure, adds at most one match.
LEMMA InsertsCount ==
    ASSUME NEW S, NEW l, Sound(l, S), NEW item \in S, NEW freed, NEW nm, NEW ty, NEW r,
           Inserts(r, l, item, freed)
    PROVE  Cardinality(Matching(r.col.list, nm, ty)) <= Cardinality(Matching(l, nm, ty)) + 1
  <1>1. l \in Seq(S) /\ Len(l) \in Nat
    BY LastIs
  <1>2. Cardinality(Matching(l, nm, ty)) \in Nat
    BY <1>1, MatchingIs
  <1>3. CASE \E e \in Failures : r = Result(e, Made(l), freed)
    <2>1. r.col.list = l
      BY <1>3 DEF Result, Made
    <2> QED
      BY <1>2, <2>1
  <1>4. CASE \E k \in 2..(Len(l) + 1) : r = Result("EOK", Made(InsertAt(l, k, item)), freed)
    <2>1. PICK k \in 2..(Len(l) + 1) : r = Result("EOK", Made(InsertAt(l, k, item)), freed)
      BY <1>4
    <2>2. r.col.list = InsertAt(l, k, item)
      BY <2>1 DEF Result, Made
    <2>3. k \in 1..(Len(l) + 1)
      BY <1>1
    <2>4. Cardinality(Matching(InsertAt(l, k, item), nm, ty)) <= Cardinality(Matching(l, nm, ty)) + 1
      BY <1>1, <2>3, MatchInsert
    <2> QED
      BY <2>2, <2>4
  <1> QED
    BY <1>3, <1>4 DEF Inserts

\* With a flag that checks, an insertion leaves no more duplicates than before.
LEMMA NoMoreDups ==
    ASSUME NEW S, NEW l, Sound(l, S), NEW item \in S, NEW d \in Dispositions,
           NEW refprop, NEW idx \in Int, NEW f \in Flags, f # "NOCHECK", NEW r,
           r = col_insert_item_into_current(Made(l), item, d, refprop, idx, f),
           NEW ty, ty = CheckedType(item, f), NEW M, M = Matching(l, item.prop, ty), 1 \notin M
    PROVE  Cardinality(Matching(r.col.list, item.prop, ty))
              <= IF Cardinality(M) = 0 THEN 1 ELSE Cardinality(M)
  <1> DEFINE nm == item.prop
             N == Matching(r.col.list, nm, ty)
  <1>1. l \in Seq(S) /\ Len(l) \in Nat
    BY LastIs
  <1>2. IsFiniteSet(M) /\ Cardinality(M) \in Nat
    BY <1>1, MatchingIs
  <1>3. \/ M = {} /\ Inserts(r, l, item, {})
        \/ \E p \in 2..Len(l) : p \in M /\ Replaces(r, l, p, item)
    BY InsertOutcome
  <1>4. CASE M = {} /\ Inserts(r, l, item, {})
    <2>1. Cardinality(M) = 0
      BY <1>4, FS_EmptySet
    <2>2. Cardinality(N) <= Cardinality(M) + 1
      BY <1>4, InsertsCount
    <2> HIDE DEF N
    <2>3. Cardinality(N) <= IF Cardinality(M) = 0 THEN 1 ELSE Cardinality(M)
      BY <2>1, <2>2
    <2> QED
      BY <2>3 DEF N
  <1>5. CASE \E p \in 2..Len(l) : p \in M /\ Replaces(r, l, p, item)
    <2>1. PICK p \in 2..Len(l) : p \in M /\ Replaces(r, l, p, item)
      BY <1>5
    <2>2. p \in 1..Len(l)
      BY <1>1
    <2>3. Cardinality(M) # 0
      BY <1>2, <2>1, FS_EmptySet
    <2>4. Cardinality(N) <= Cardinality(M)
      <3>1. CASE r = Result("EEXIST", Made(l), {})
        <4>1. r.col.list = l
          BY <3>1 DEF Result, Made
        <4> QED
          BY <1>2, <4>1
      <3>2. CASE r = Result("EOK", Made([l EXCEPT ![p] = item]), {l[p].id})
        <4>1. r.col.list = [l EXCEPT ![p] = item]
          <5> DEFINE t == [l EXCEPT ![p] = item]
          <5>1. r = Result("EOK", Made(t), {l[p].id})
            BY <3>2
          <5> HIDE DEF t
          <5>2. r.col.list = t
            BY <5>1 DEF Result, Made
          <5> QED
            BY <5>2 DEF t
        <4>2. Cardinality(Matching([l EXCEPT ![p] = item], nm, ty)) <= Cardinality(Matching(l, nm, ty))
          BY <1>1, <2>1, <2>2, MatchReplace
        <4> QED
          BY <4>1, <4>2
      <3>3. CASE Inserts(r, RemoveAt(l, p), item, {l[p].id})
        <4> DEFINE rest == RemoveAt(l, p)
                   freed == {l[p].id}
                   R == Matching(rest, nm, ty)
        <4>1. Sound(rest, S) /\ Inserts(r, rest, item, freed)
          BY <3>3, RemoveSound
        <4>2. Cardinality(R) <= Cardinality(M) - 1
          BY <1>1, <2>1, <2>2, MatchRemove
        <4> HIDE DEF rest, freed
        <4>3. Cardinality(N) <= Cardinality(R) + 1
          BY <4>1, InsertsCount
        <4>4. rest \in Seq(S)
          BY <4>1, LastIs
        <4>5. Cardinality(R) \in Nat
          BY <4>4, MatchingIs
        <4>6. Cardinality(N) \in Nat
          <5>1. r.col.list \in Seq(S)
            <6>1. CASE \E e \in Failures : r = Result(e, Made(rest), freed)
              <7>1. r.col.list = rest
                BY <6>1 DEF Result, Made
              <7> QED
                BY <4>4, <7>1
            <6>2. CASE \E k \in 2..(Len(rest) + 1) : r = Result("EOK", Made(InsertAt(rest, k, item)), freed)
              <7>1. PICK k \in 2..(Len(rest) + 1) : r = Result("EOK", Made(InsertAt(rest, k, item)), freed)
                BY <6>2
              <7>2. r.col.list = InsertAt(rest, k, item)
                BY <7>1 DEF Result, Made
              <7>3. Len(rest) \in Nat
                BY <4>1, LastIs
              <7>4. k \in 1..(Len(rest) + 1)
                BY <7>3
              <7> QED
                BY <4>4, <7>2, <7>4, Inserted
            <6> QED
              BY <4>1, <6>1, <6>2 DEF Inserts
          <5> QED
            BY <5>1, MatchingIs
        <4> HIDE DEF N, R
        <4>7. Cardinality(N) <= Cardinality(M)
          BY <1>2, <4>2, <4>3, <4>5, <4>6
        <4> QED
          BY <4>7
      <3> QED
        BY <2>1, <3>1, <3>2, <3>3 DEF Replaces
    <2> QED
      BY <2>3, <2>4
  <1> QED
    BY <1>3, <1>4, <1>5

(* Insertion does what collection.h says, for any list the calls can build *)
(* and any arguments: among duplicates the item goes where its disposition *)
(* says, and with a flag that checks for duplicates there are never more   *)
(* of them than before.                                                    *)
THEOREM InsertCorrect == Spec => []InsertMeans
  <1>1. ListInv => InsertMeans
    <2> SUFFICES ASSUME ListInv, col # NULL PROVE InsertMeans
      BY DEF InsertMeans, DupsPlaced, NoNewDuplicate
    <2> DEFINE l == col.list
               S == Item \cup {HeaderItem}
    <2>1. col = Made(l) /\ GoodList(l)
      BY OwnedIs DEF ListInv
    <2>2. DupsPlaced
      <3> SUFFICES ASSUME NEW nm \in UnlikeHeader, NEW d \in Dups, NEW idx \in Indexes \cap Nat
                   PROVE  PlacedRight(col, nm, d, idx)
        BY DEF DupsPlaced
      <3> DEFINE new == [id |-> "new", prop |-> nm, type |-> "any"]
                 M == SameName(l, nm)
                 r == Place(col, new, d, NULL, idx, {})
                 at == PlaceOf(M, d, idx)
                 t == InsertAt(l, at, new)
      <3>1. ~Alike(HeaderName, nm) /\ idx \in Nat /\ new.prop = nm
        BY DEF UnlikeHeader
      <3>2. PlacedRight(col, nm, d, idx)
              <=> IF M = {} THEN r = Result("ENOENT", col, {})
                  ELSE r.error = "EOK" /\ r.col.list = t /\ r.col.last = r.col.list[Len(r.col.list)].id
        BY DEF PlacedRight, PlaceOf, Behind
      <3> HIDE DEF l, new
      <3>3. Place(Made(l), new, d, NULL, idx, {})
               = IF M = {} THEN Result("ENOENT", Made(l), {}) ELSE Result("EOK", Made(t), {})
        BY <2>1, <3>1, InsertDup
      <3>4. r = IF M = {} THEN Result("ENOENT", col, {}) ELSE Result("EOK", Made(t), {})
        BY <2>1, <3>3
      <3>5. Result("EOK", Made(t), {}).error = "EOK" /\ Result("EOK", Made(t), {}).col = Made(t)
        BY DEF Result
      <3>6. Made(t).list = t /\ Made(t).last = t[Len(t)].id
        BY DEF Made
      <3> HIDE DEF M, r, t
      <3> QED
        BY <3>2, <3>4, <3>5, <3>6
    <2>3. NoNewDuplicate
      <3> SUFFICES ASSUME NEW nm \in UnlikeHeader, NEW ty \in Types, NEW a \in InsertArgs,
                          NEW f \in Flags \ {"NOCHECK"}
                   PROVE  NoneAdded(col, nm, ty, a, f)
        BY DEF NoNewDuplicate
      <3> DEFINE new == [id |-> "new", prop |-> nm, type |-> ty]
                 t == IF f \in {"DUPOVERT", "DUPERRORT", "DUPMOVET"} THEN ty ELSE ANY
                 r == col_insert_item_into_current(col, new, a[1], a[2], a[3], f)
                 M == Matching(l, nm, t)
                 T == S \cup {new}
      <3>1. a[1] \in Dispositions /\ a[3] \in Int
        BY CollectionAssumption DEF InsertArgs
      <3>2. new.prop = nm /\ t = CheckedType(new, f) /\ ~Alike(HeaderName, nm) /\ f \in Flags /\ f # "NOCHECK"
        BY DEF CheckedType, UnlikeHeader
      <3>3. new \in T
        OBVIOUS
      <3> HIDE DEF l, new, t
      <3>4. 1 \notin M
        BY <2>1, <3>2, HeaderNoMatch
      <3>5. Sound(l, S)
        BY <2>1 DEF GoodList
      <3>6. Sound(l, T)
        <4> HIDE DEF S
        <4>1. l \in Seq(S)
          BY <3>5, LastIs
        <4>2. Len(l) \in Nat /\ \A i \in 1..Len(l) : l[i] \in S
          BY <3>5, LastIs
        <4>3. l = [i \in 1..Len(l) |-> l[i]]
          BY <4>1, LenProperties
        <4>4. \A i \in 1..Len(l) : l[i] \in T
          BY <4>2
        <4> HIDE DEF T
        <4>5. l \in Seq(T)
          BY <4>2, <4>3, <4>4, IsASeq
        <4> QED
          BY <3>5, <4>5 DEF Sound
      <3> HIDE DEF T
      <3>7. r = col_insert_item_into_current(Made(l), new, a[1], a[2], a[3], f)
        BY <2>1
      <3> HIDE DEF r
      <3>8. M = Matching(l, new.prop, t)
        BY <3>2
      <3> HIDE DEF M
      <3>9. Cardinality(Matching(r.col.list, new.prop, t))
               <= IF Cardinality(M) = 0 THEN 1 ELSE Cardinality(M)
        BY <3>1, <3>2, <3>3, <3>4, <3>6, <3>7, <3>8, NoMoreDups
      <3>10. Cardinality(Matching(r.col.list, nm, t))
                <= IF Cardinality(M) = 0 THEN 1 ELSE Cardinality(M)
        BY <3>2, <3>9
      <3> QED
        BY <3>10 DEF NoneAdded, r, M, t, new, l
    <2> QED
      BY <2>2, <2>3 DEF InsertMeans
  <1>2. Init => ListInv
    BY ListInvInit
  <1>3. ListInv /\ [Next]_vars => ListInv'
    BY ListInvStep
  <1> QED
    BY <1>1, <1>2, <1>3, PTL DEF Spec

=============================================================================
