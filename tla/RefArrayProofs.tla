--------------------------- MODULE RefArrayProofs ---------------------------
(***************************************************************************)
(* Theorems about RefArray for every set of arrays and elements, every     *)
(* amount of memory and every growth step, as long as no caller replaces   *)
(* at the end of an array (ReplaceAtEnd).                                  *)
(***************************************************************************)
EXTENDS RefArray, FiniteSetTheorems, ProofBasics

Storage == [Slots -> Elems \cup {JUNK, NULL}]

-----------------------------------------------------------------------------
(* The shifting loops *)

\* The loop of ref_array_insert moves the elements from idx on one slot up.
LEMMA ShiftRightIs ==
    ASSUME NEW storage \in Storage, NEW idx \in Nat, NEW len \in Slots, idx <= len
    PROVE  ShiftRight(storage, idx, len) =
              [s \in Slots |-> IF idx < s /\ s <= len THEN storage[s - 1] ELSE storage[s]]
  <1> DEFINE k == len - idx
             loop[n \in 0..k] ==
                IF n = 0 THEN storage
                ELSE [loop[n - 1] EXCEPT ![len + 1 - n] = loop[n - 1][len - n]]
             after(n) == [s \in Slots |-> IF len - n < s /\ s <= len THEN storage[s - 1] ELSE storage[s]]
             g == [n \in 0..k |-> after(n)]
  <1>1. k \in Nat /\ len \in Nat /\ MaxSlots \in Nat
    BY RefArrayAssumption DEF Slots
  <1>2. ShiftRight(storage, idx, len) = loop[k]
    BY DEF ShiftRight
  <1>3. loop = CHOOSE f : f = [n \in 0..k |-> IF n = 0 THEN storage
                ELSE [f[n - 1] EXCEPT ![len + 1 - n] = f[n - 1][len - n]]]
    BY DEF loop
  <1>4. after(0) = storage
    BY <1>1 DEF Storage, Slots
  <1>5. ASSUME NEW n \in 1..k
        PROVE  after(n) = [after(n - 1) EXCEPT ![len + 1 - n] = after(n - 1)[len - n]]
    <2>1. len + 1 - n \in Slots /\ len - n \in Slots /\ len - (n - 1) = len + 1 - n
      BY <1>1 DEF Slots
    <2>2. after(n - 1)[len - n] = storage[len - n]
      BY <2>1, <1>1
    <2> DEFINE h == [after(n - 1) EXCEPT ![len + 1 - n] = storage[len - n]]
    <2>3. ASSUME NEW s \in Slots PROVE after(n)[s] = h[s]
      <3>1. s \in Int /\ n \in Int /\ len - n \in Int
        BY <1>1 DEF Slots
      <3>2. CASE s = len + 1 - n
        BY <2>1, <3>1, <3>2, <1>1
      <3>3. CASE s # len + 1 - n
        BY <2>1, <3>1, <3>3, <1>1
      <3> QED
        BY <3>2, <3>3
    <2>4. after(n) = h
      BY <2>3
    <2> QED
      BY <2>2, <2>4
  <1> HIDE DEF after
  <1>6. g = [n \in 0..k |-> IF n = 0 THEN storage
                ELSE [g[n - 1] EXCEPT ![len + 1 - n] = g[n - 1][len - n]]]
    <2> SUFFICES ASSUME NEW n \in 0..k
                 PROVE  g[n] = IF n = 0 THEN storage
                               ELSE [g[n - 1] EXCEPT ![len + 1 - n] = g[n - 1][len - n]]
      OBVIOUS
    <2>1. n # 0 => n \in 1..k /\ g[n - 1] = after(n - 1)
      BY <1>1
    <2> QED
      BY <2>1, <1>4, <1>5
  <1> HIDE DEF loop, g, k
  <1>7. loop = [n \in 0..k |-> IF n = 0 THEN storage
                ELSE [loop[n - 1] EXCEPT ![len + 1 - n] = loop[n - 1][len - n]]]
    BY <1>3, <1>6
  <1>8. loop[k] = g[k]
    <2>1. loop[0] = g[0]
      BY <1>1, <1>6, <1>7
    <2>2. \A n \in 1..k : loop[n - 1] = g[n - 1] => loop[n] = g[n]
      <3> SUFFICES ASSUME NEW n \in 1..k, loop[n - 1] = g[n - 1] PROVE loop[n] = g[n]
        OBVIOUS
      <3>1. n \in 0..k /\ n # 0
        BY <1>1
      <3>2. loop[n] = [loop[n - 1] EXCEPT ![len + 1 - n] = loop[n - 1][len - n]]
        BY <3>1, <1>7
      <3>3. g[n] = [g[n - 1] EXCEPT ![len + 1 - n] = g[n - 1][len - n]]
        BY <3>1, <1>6
      <3> QED
        BY <3>2, <3>3
    <2>3. k \in 0..k
      BY <1>1
    <2> QED
      BY <2>1, <2>2, <2>3, <1>1, LoopsAgree
  <1>9. g[k] = after(k)
    BY <1>1 DEF g
  <1>10. after(k) = [s \in Slots |-> IF idx < s /\ s <= len THEN storage[s - 1] ELSE storage[s]]
    BY <1>1 DEF after, k
  <1> QED
    BY <1>2, <1>8, <1>9, <1>10

\* The loop of ref_array_remove moves the elements after idx one slot down;
\* the last slot keeps what it held.
LEMMA ShiftLeftIs ==
    ASSUME NEW storage \in Storage, NEW idx \in Nat, NEW len \in Nat, idx < len, len <= MaxSlots
    PROVE  ShiftLeft(storage, idx, len) =
              [s \in Slots |-> IF idx <= s /\ s < len - 1 THEN storage[s + 1] ELSE storage[s]]
  <1> DEFINE k == len - idx - 1
             loop[n \in 0..k] ==
                IF n = 0 THEN storage
                ELSE [loop[n - 1] EXCEPT ![idx + n - 1] = loop[n - 1][idx + n]]
             after(n) == [s \in Slots |-> IF idx <= s /\ s < idx + n THEN storage[s + 1] ELSE storage[s]]
             g == [n \in 0..k |-> after(n)]
  <1>1. k \in Nat /\ MaxSlots \in Nat
    BY RefArrayAssumption
  <1>2. ShiftLeft(storage, idx, len) = loop[k]
    BY DEF ShiftLeft
  <1>3. loop = CHOOSE f : f = [n \in 0..k |-> IF n = 0 THEN storage
                ELSE [f[n - 1] EXCEPT ![idx + n - 1] = f[n - 1][idx + n]]]
    BY DEF loop
  <1>4. after(0) = storage
    BY <1>1 DEF Storage, Slots
  <1>5. ASSUME NEW n \in 1..k
        PROVE  after(n) = [after(n - 1) EXCEPT ![idx + n - 1] = after(n - 1)[idx + n]]
    <2>1. idx + n - 1 \in Slots /\ idx + n \in Slots /\ idx + (n - 1) = idx + n - 1
      BY <1>1 DEF Slots
    <2>2. after(n - 1)[idx + n] = storage[idx + n]
      BY <2>1, <1>1
    <2> DEFINE h == [after(n - 1) EXCEPT ![idx + n - 1] = storage[idx + n]]
    <2>3. ASSUME NEW s \in Slots PROVE after(n)[s] = h[s]
      <3>1. s \in Int /\ n \in Int /\ idx + n \in Int
        BY <1>1 DEF Slots
      <3>2. CASE s = idx + n - 1
        BY <2>1, <3>1, <3>2, <1>1
      <3>3. CASE s # idx + n - 1
        BY <2>1, <3>1, <3>3, <1>1
      <3> QED
        BY <3>2, <3>3
    <2>4. after(n) = h
      BY <2>3
    <2> QED
      BY <2>2, <2>4
  <1> HIDE DEF after
  <1>6. g = [n \in 0..k |-> IF n = 0 THEN storage
                ELSE [g[n - 1] EXCEPT ![idx + n - 1] = g[n - 1][idx + n]]]
    <2> SUFFICES ASSUME NEW n \in 0..k
                 PROVE  g[n] = IF n = 0 THEN storage
                               ELSE [g[n - 1] EXCEPT ![idx + n - 1] = g[n - 1][idx + n]]
      OBVIOUS
    <2>1. n # 0 => n \in 1..k /\ g[n - 1] = after(n - 1)
      BY <1>1
    <2> QED
      BY <2>1, <1>4, <1>5
  <1> HIDE DEF loop, g, k
  <1>7. loop = [n \in 0..k |-> IF n = 0 THEN storage
                ELSE [loop[n - 1] EXCEPT ![idx + n - 1] = loop[n - 1][idx + n]]]
    BY <1>3, <1>6
  <1>8. loop[k] = g[k]
    <2>1. loop[0] = g[0]
      BY <1>1, <1>6, <1>7
    <2>2. \A n \in 1..k : loop[n - 1] = g[n - 1] => loop[n] = g[n]
      <3> SUFFICES ASSUME NEW n \in 1..k, loop[n - 1] = g[n - 1] PROVE loop[n] = g[n]
        OBVIOUS
      <3>1. n \in 0..k /\ n # 0
        BY <1>1
      <3>2. loop[n] = [loop[n - 1] EXCEPT ![idx + n - 1] = loop[n - 1][idx + n]]
        BY <3>1, <1>7
      <3>3. g[n] = [g[n - 1] EXCEPT ![idx + n - 1] = g[n - 1][idx + n]]
        BY <3>1, <1>6
      <3> QED
        BY <3>2, <3>3
    <2>3. k \in 0..k
      BY <1>1
    <2> QED
      BY <2>1, <2>2, <2>3, <1>1, LoopsAgree
  <1>9. g[k] = after(k)
    BY <1>1 DEF g
  <1>10. after(k) = [s \in Slots |-> IF idx <= s /\ s < len - 1 THEN storage[s + 1] ELSE storage[s]]
    BY <1>1 DEF after, k
  <1> QED
    BY <1>2, <1>8, <1>9, <1>10

-----------------------------------------------------------------------------
(* The invariant *)

\* One array: its elements are in its storage, the storage is in the memory,
\* and nothing was ever written past it.
Bounded(r) ==
    /\ r.len <= r.size /\ r.size <= MaxSlots
    /\ \A s \in Slots : s >= r.size => r.storage[s] = JUNK
    /\ \A s \in Slots : s < r.len => r.storage[s] \in Elems

NoTwice(r) ==
    \A s, t \in Slots : s < r.len /\ t < r.len /\ r.storage[s] = r.storage[t] => s = t

\* The elements of an array, and those it disposes of.
ElemsOf(r) == {r.storage[s] : s \in {x \in Slots : x < r.len}}
Owns(r) == IF r = NULL THEN {} ELSE IF r.cb THEN ElemsOf(r) ELSE {}

\* No element has two owners; one that has an owner was handed over and not
\* disposed of; one that was handed over has an owner or was disposed of once.
OwnOK ==
    /\ \A a, b \in Arrays : a # b => Owns(arr[a]) \cap Owns(arr[b]) = {}
    /\ \A a \in Arrays : \A e \in Owns(arr[a]) : e \in given /\ cleaned[e] = 0
    /\ \A e \in Elems : e \in given => cleaned[e] = 1 \/ \E a \in Arrays : e \in Owns(arr[a])
    /\ \A e \in Elems : cleaned[e] \in {0, 1} /\ (e \notin given => cleaned[e] = 0)

\* The references held are the references counted.
CountOK ==
    \A a \in Arrays : /\ arr[a] = NULL => held[a] = 0
                      /\ arr[a] # NULL => held[a] = arr[a].refcount

StorageOK == \A a \in Arrays : arr[a] # NULL => Bounded(arr[a]) /\ (arr[a].cb => NoTwice(arr[a]))

IInv == TypeOK /\ StorageOK /\ CountOK /\ OwnOK

\* The step gives each element of D to the callback, once.
Disposes(D) == cleaned' = [e \in Elems |-> cleaned[e] + IF e \in D THEN 1 ELSE 0]

\* What the proofs use of an array.
LEMMA ArrayFacts ==
    ASSUME IInv, NEW a \in Arrays, arr[a] # NULL
    PROVE  /\ arr[a] \in ArrayType /\ Bounded(arr[a])
           /\ arr[a].storage \in Storage /\ arr[a].len \in Nat /\ arr[a].size \in Nat
           /\ arr[a].refcount \in Nat \ {0} /\ arr[a].cb \in BOOLEAN
           /\ arr[a].cb => NoTwice(arr[a])
           /\ held[a] = arr[a].refcount
           /\ MaxSlots \in Nat
  <1>1. arr[a] \in ArrayType
    BY DEF IInv, TypeOK
  <1> QED
    BY <1>1, RefArrayAssumption DEF IInv, StorageOK, CountOK, ArrayType, Storage

\* One array gives up some elements to the callback and gets fresh ones.
LEMMA OwnersChange ==
    ASSUME IInv, NEW a \in Arrays, NEW D, NEW A, D \subseteq Owns(arr[a]), A \subseteq Fresh,
           \A b \in Arrays : b # a => Owns(arr'[b]) = Owns(arr[b]),
           Owns(arr'[a]) = (Owns(arr[a]) \ D) \cup A,
           given' = given \cup A, Disposes(D)
    PROVE  OwnOK'
  <1> USE DEF Disposes
  <1>1. OwnOK /\ cleaned \in [Elems -> Nat] /\ given \subseteq Elems
    BY DEF IInv, TypeOK
  <1>2. /\ \A e \in A : e \in Elems /\ e \notin given
        /\ \A e \in D : e \in given /\ e \in Elems /\ cleaned[e] = 0
        /\ D \cap A = {}
    BY <1>1 DEF Fresh, OwnOK
  <1>3. ASSUME NEW b \in Arrays, NEW c \in Arrays, b # c
        PROVE  Owns(arr'[b]) \cap Owns(arr'[c]) = {}
    <2>1. /\ Owns(arr[b]) \cap Owns(arr[c]) = {}
          /\ Owns(arr[b]) \cap A = {} /\ Owns(arr[c]) \cap A = {}
      BY <1>1, <1>2, <1>3 DEF OwnOK
    <2>2. CASE b = a
      <3>1. Owns(arr'[c]) = Owns(arr[c]) /\ Owns(arr'[b]) \subseteq Owns(arr[b]) \cup A
        BY <2>2, <1>3
      <3> QED
        BY <3>1, <2>1
    <2>3. CASE c = a
      <3>1. Owns(arr'[b]) = Owns(arr[b]) /\ Owns(arr'[c]) \subseteq Owns(arr[c]) \cup A
        BY <2>3, <1>3
      <3> QED
        BY <3>1, <2>1
    <2>4. CASE b # a /\ c # a
      BY <2>4, <2>1
    <2> QED
      BY <2>2, <2>3, <2>4
  <1>4. ASSUME NEW b \in Arrays, NEW e \in Owns(arr'[b])
        PROVE  e \in given' /\ cleaned'[e] = 0
    <2>1. e \notin D
      BY <1>1, <1>2 DEF OwnOK
    <2>2. e \in given' /\ e \in Elems
      BY <1>1, <1>2 DEF OwnOK
    <2>3. cleaned[e] = 0
      BY <1>1, <1>2 DEF OwnOK
    <2> QED
      BY <2>1, <2>2, <2>3
  <1>5. ASSUME NEW e \in Elems, e \in given'
        PROVE  cleaned'[e] = 1 \/ \E b \in Arrays : e \in Owns(arr'[b])
    <2>1. CASE e \in A
      BY <2>1
    <2>2. CASE e \in D
      <3>1. cleaned'[e] = 0 + 1
        BY <2>2, <1>2
      <3> QED
        BY <3>1
    <2>3. CASE e \notin A /\ e \notin D
      <3>1. e \in given /\ cleaned'[e] = cleaned[e] + 0
        BY <2>3, <1>5
      <3>2. CASE cleaned[e] = 1
        BY <3>1, <3>2
      <3>3. CASE \E b \in Arrays : e \in Owns(arr[b])
        BY <2>3, <3>3
      <3> QED
        BY <3>1, <3>2, <3>3, <1>1 DEF OwnOK
    <2> QED
      BY <2>1, <2>2, <2>3
  <1>6. ASSUME NEW e \in Elems
        PROVE  cleaned'[e] \in {0, 1} /\ (e \notin given' => cleaned'[e] = 0)
    <2>1. CASE e \in D
      <3>1. cleaned'[e] = 0 + 1 /\ e \in given'
        BY <2>1, <1>2
      <3> QED
        BY <3>1
    <2>2. CASE e \notin D
      <3>1. cleaned'[e] = cleaned[e] + 0 /\ cleaned[e] \in Nat
        BY <2>2, <1>1
      <3>2. cleaned'[e] = cleaned[e]
        BY <3>1
      <3> QED
        BY <3>2, <1>1 DEF OwnOK
    <2> QED
      BY <2>1, <2>2
  <1> QED
    BY <1>3, <1>4, <1>5, <1>6 DEF OwnOK

\* How often a sequence holds e.
Times(f, e) == Cardinality({i \in DOMAIN f : f[i] = e})

\* When all its elements differ, at most once.
LEMMA TimesOnce ==
    ASSUME NEW f, \A i, j \in DOMAIN f : f[i] = f[j] => i = j, NEW e
    PROVE  /\ (\E i \in DOMAIN f : f[i] = e) => Times(f, e) = 1
           /\ ~(\E i \in DOMAIN f : f[i] = e) => Times(f, e) = 0
  <1> DEFINE at == {i \in DOMAIN f : f[i] = e}
  <1>1. CASE \E i \in DOMAIN f : f[i] = e
    <2>1. PICK i \in DOMAIN f : f[i] = e
      BY <1>1
    <2>2. at = {i}
      BY <2>1
    <2> QED
      BY <1>1, <2>2, FS_Singleton DEF Times
  <1>2. CASE ~(\E i \in DOMAIN f : f[i] = e)
    <2>1. at = {}
      BY <1>2
    <2> QED
      BY <1>2, <2>1, FS_EmptySet DEF Times
  <1> QED
    BY <1>1, <1>2

\* The callback counts the elements it is given, once each when they differ.
LEMMA CleanCounts ==
    ASSUME NEW r, NEW f, \A i, j \in DOMAIN f : f[i] = f[j] => i = j,
           r.cb = TRUE, Clean(r, f),
           NEW D, \A e \in Elems : e \in D <=> \E i \in DOMAIN f : f[i] = e
    PROVE  Disposes(D)
  <1>1. cleaned' = [e \in Elems |-> cleaned[e] + Times(f, e)]
    BY DEF Clean, Times
  <1>2. \A e \in Elems : Times(f, e) = IF e \in D THEN 1 ELSE 0
    BY TimesOnce
  <1> QED
    BY <1>1, <1>2 DEF Disposes

\* The contents of an array are its elements, each once if it owns them.
LEMMA ContentIs ==
    ASSUME NEW r, r \in ArrayType, Bounded(r)
    PROVE  /\ DOMAIN Content(r) = 1..r.len
           /\ {Content(r)[i] : i \in 1..r.len} = ElemsOf(r)
           /\ NoTwice(r) => \A i, j \in 1..r.len : Content(r)[i] = Content(r)[j] => i = j
           /\ ElemsOf(r) \subseteq Elems
  <1>1. r.len \in Nat /\ r.size \in Nat /\ MaxSlots \in Nat /\ r.len <= MaxSlots
    BY RefArrayAssumption DEF ArrayType, Bounded
  <1>2. \A i \in 1..r.len : i - 1 \in Slots /\ i - 1 < r.len /\ Content(r)[i] = r.storage[i - 1]
    BY <1>1 DEF Content, Slots
  <1>3. \A s \in Slots : s < r.len => s + 1 \in 1..r.len /\ (s + 1) - 1 = s
    BY <1>1 DEF Slots
  <1>4. DOMAIN Content(r) = 1..r.len
    BY DEF Content
  <1>5. ElemsOf(r) \subseteq {Content(r)[i] : i \in 1..r.len}
    <2> SUFFICES ASSUME NEW s \in Slots, s < r.len PROVE \E i \in 1..r.len : Content(r)[i] = r.storage[s]
      BY DEF ElemsOf
    <2>1. s + 1 \in 1..r.len /\ Content(r)[s + 1] = r.storage[s]
      BY <1>2, <1>3
    <2> QED
      BY <2>1
  <1>6. {Content(r)[i] : i \in 1..r.len} \subseteq ElemsOf(r)
    BY <1>2 DEF ElemsOf
  <1>7. NoTwice(r) => \A i, j \in 1..r.len : Content(r)[i] = Content(r)[j] => i = j
    <2> SUFFICES ASSUME NoTwice(r), NEW i \in 1..r.len, NEW j \in 1..r.len, Content(r)[i] = Content(r)[j]
                 PROVE  i = j
      OBVIOUS
    <2>1. i - 1 = j - 1
      BY <1>2 DEF NoTwice
    <2> QED
      BY <2>1, <1>1
  <1>8. ElemsOf(r) \subseteq Elems
    BY DEF ElemsOf, Bounded
  <1> QED
    BY <1>4, <1>5, <1>6, <1>7, <1>8

-----------------------------------------------------------------------------
(* What the operations do to the invariant *)

\* The step makes the array at a the array r.
Becomes(a, r) == arr' = [arr EXCEPT ![a] = r]

\* No call of the callback.
LEMMA NothingDisposed ==
    ASSUME IInv, cleaned' = cleaned
    PROVE  Disposes({})
  BY DEF IInv, TypeOK, Disposes

\* A call that leaves the arrays alone.
LEMMA UntouchedStep ==
    ASSUME IInv, Untouched
    PROVE  IInv'
  <1> USE DEF Untouched
  <1>1. TypeOK'
    BY DEF IInv, TypeOK
  <1>2. StorageOK'
    BY DEF IInv, StorageOK
  <1>3. CountOK'
    BY DEF IInv, CountOK
  <1>4. OwnOK'
    BY DEF IInv, OwnOK
  <1> QED
    BY <1>1, <1>2, <1>3, <1>4 DEF IInv

\* One array becomes r: the elements of D go to the callback and those of A,
\* all fresh, come in.
LEMMA ArrayBecomes ==
    ASSUME IInv, NEW a \in Arrays, NEW r \in ArrayType, Bounded(r), r.cb => NoTwice(r),
           Becomes(a, r),
           held' \in [Arrays -> 0..MaxRefs], held'[a] = r.refcount,
           \A b \in Arrays : b # a => held'[b] = held[b],
           NEW D, NEW A, D \subseteq Owns(arr[a]), A \subseteq Fresh,
           Owns(r) = (Owns(arr[a]) \ D) \cup A,
           given' = given \cup A, Disposes(D)
    PROVE  IInv'
  <1>1. r # NULL
    BY NullAssumption
  <1>2. arr'[a] = r /\ \A b \in Arrays : b # a => arr'[b] = arr[b]
    BY DEF IInv, TypeOK, Becomes
  <1>3. TypeOK'
    <2>1. cleaned' \in [Elems -> Nat]
      BY DEF IInv, TypeOK, Disposes
    <2>2. arr' \in [Arrays -> ArrayType \cup {NULL}]
      BY DEF IInv, TypeOK, Becomes
    <2>3. given' \subseteq Elems
      BY DEF IInv, TypeOK, Fresh
    <2> QED
      BY <2>1, <2>2, <2>3 DEF TypeOK
  <1>4. StorageOK'
    <2> SUFFICES ASSUME NEW b \in Arrays, arr'[b] # NULL
                 PROVE  Bounded(arr'[b]) /\ (arr'[b].cb => NoTwice(arr'[b]))
      BY DEF StorageOK
    <2>1. CASE b = a
      BY <2>1, <1>2
    <2>2. CASE b # a
      BY <2>2, <1>2 DEF IInv, StorageOK
    <2> QED
      BY <2>1, <2>2
  <1>5. CountOK'
    BY <1>1, <1>2 DEF IInv, CountOK
  <1>6. OwnOK'
    <2>1. \A b \in Arrays : b # a => Owns(arr'[b]) = Owns(arr[b])
      BY <1>2
    <2>2. Owns(arr'[a]) = (Owns(arr[a]) \ D) \cup A
      BY <1>2
    <2> QED
      BY <2>1, <2>2, OwnersChange
  <1> QED
    BY <1>3, <1>4, <1>5, <1>6 DEF IInv

\* An array whose references stay as they are.
LEMMA ElementsBecome ==
    ASSUME IInv, NEW a \in Arrays, arr[a] # NULL, NEW r \in ArrayType, Bounded(r),
           r.refcount = arr[a].refcount, r.cb => NoTwice(r),
           Becomes(a, r), held' = held,
           NEW D, NEW A, D \subseteq Owns(arr[a]), A \subseteq Fresh,
           Owns(r) = (Owns(arr[a]) \ D) \cup A,
           given' = given \cup A, Disposes(D)
    PROVE  IInv'
  <1>1. held' \in [Arrays -> 0..MaxRefs] /\ \A b \in Arrays : b # a => held'[b] = held[b]
    BY DEF IInv, TypeOK
  <1>2. held'[a] = r.refcount
    BY ArrayFacts
  <1> QED
    BY <1>1, <1>2, ArrayBecomes

\* An array with other storage and another length.
With(r, X, size, n) == [r EXCEPT !.storage = X, !.size = size, !.len = n]

\* What an owner of elements owns.
LEMMA OwnsIs ==
    ASSUME NEW r \in ArrayType
    PROVE  /\ r.cb => Owns(r) = ElemsOf(r)
           /\ ~r.cb => Owns(r) = {}
           /\ r # NULL
  BY NullAssumption DEF Owns

\* q is r with e stored at idx, without the element at idx, or with e for it.
Stored(r, q, idx, e) ==
    /\ q \in ArrayType /\ Bounded(q) /\ NoTwice(q)
    /\ ElemsOf(q) = ElemsOf(r) \cup {e}
    /\ q.storage = [s \in Slots |-> IF s = idx THEN e
                                    ELSE IF idx < s /\ s <= r.len THEN r.storage[s - 1]
                                    ELSE r.storage[s]]
    /\ q.len = r.len + 1 /\ q.refcount = r.refcount /\ q.cb = r.cb
Removed(r, q, idx) ==
    /\ q \in ArrayType /\ Bounded(q) /\ NoTwice(q)
    /\ ElemsOf(q) = ElemsOf(r) \ {r.storage[idx]}
    /\ q.storage = [s \in Slots |-> IF idx <= s /\ s < r.len - 1 THEN r.storage[s + 1]
                                    ELSE r.storage[s]]
    /\ q.len = r.len - 1 /\ q.refcount = r.refcount /\ q.cb = r.cb
Replaced(r, q, idx, e) ==
    /\ q \in ArrayType /\ Bounded(q) /\ NoTwice(q)
    /\ ElemsOf(q) = (ElemsOf(r) \ {r.storage[idx]}) \cup {e}
    /\ q.storage = [s \in Slots |-> IF s = idx THEN e ELSE r.storage[s]]
    /\ q.len = r.len /\ q.refcount = r.refcount /\ q.cb = r.cb

\* ref_array_append and ref_array_insert: the new element goes to its place
\* and those behind it move up.
LEMMA StoredElements ==
    ASSUME NEW r \in ArrayType, Bounded(r), NoTwice(r),
           NEW size \in Nat, r.len < size, r.size <= size, size <= MaxSlots,
           NEW idx \in Nat, idx <= r.len, NEW e \in Elems, e \notin ElemsOf(r),
           NEW Y, Y = [ShiftRight(r.storage, idx, r.len) EXCEPT ![idx] = e],
           NEW n, n = r.len + 1,
           NEW q, q = With(r, Y, size, n)
    PROVE  Stored(r, q, idx, e)
  <1> DEFINE X == [s \in Slots |-> IF s = idx THEN e
                                   ELSE IF idx < s /\ s <= r.len THEN r.storage[s - 1]
                                   ELSE r.storage[s]]
  <1>1. r.storage \in Storage /\ r.len \in Nat /\ r.size \in Nat /\ MaxSlots \in Nat
    BY RefArrayAssumption DEF ArrayType, Storage
  <1>2. r.len \in Slots /\ idx \in Slots
    BY <1>1 DEF Slots
  <1>3. Y = X
    <2>1. PICK st \in Storage : st = r.storage
      BY <1>1
    <2>2. PICK len \in Slots : len = r.len
      BY <1>2
    <2>3. ShiftRight(st, idx, len) =
             [s \in Slots |-> IF idx < s /\ s <= len THEN st[s - 1] ELSE st[s]]
      BY <2>2, ShiftRightIs
    <2> QED
      BY <2>1, <2>2, <2>3, <1>2
  <1>4. /\ \A s \in Slots : idx < s => s - 1 \in Slots
        /\ \A s \in Slots : s \in Nat
    BY <1>1, <1>2 DEF Slots
  <1>5. X \in Storage
    BY <1>1, <1>4 DEF Storage
  <1>6. X[idx] = e
    BY <1>2
  <1>7. ASSUME NEW s \in Slots, s <= r.len, s # idx
        PROVE  \E u \in Slots : /\ u < r.len /\ X[s] = r.storage[u]
                                /\ (s < idx => u = s) /\ (idx < s => u = s - 1)
    <2>1. CASE s < idx
      BY <2>1, <1>1, <1>4, <1>7
    <2>2. CASE idx < s
      <3>1. s - 1 \in Slots /\ s - 1 < r.len /\ X[s] = r.storage[s - 1]
        BY <2>2, <1>1, <1>4, <1>7
      <3> QED
        BY <3>1, <2>2, <1>4
    <2> QED
      BY <2>1, <2>2, <1>4, <1>7
  <1>8. ASSUME NEW u \in Slots, u < r.len
        PROVE  \E s \in Slots : s <= r.len /\ X[s] = r.storage[u]
    <2>1. CASE u < idx
      BY <2>1, <1>1, <1>4, <1>8
    <2>2. CASE idx <= u
      <3>1. u + 1 \in Slots /\ u + 1 <= r.len /\ idx < u + 1 /\ u + 1 # idx /\ (u + 1) - 1 = u
        BY <2>2, <1>1, <1>4, <1>8 DEF Slots, Bounded
      <3>2. X[u + 1] = r.storage[u]
        BY <3>1
      <3> QED
        BY <3>1, <3>2
    <2> QED
      BY <2>1, <2>2, <1>4
  <1>9. \A s \in Slots : s >= size => X[s] = r.storage[s]
    BY <1>1, <1>4
  <1> HIDE DEF X
  <1>10. /\ q \in ArrayType /\ q.storage = X /\ q.size = size /\ q.len = r.len + 1
         /\ q.refcount = r.refcount /\ q.cb = r.cb
    <2>1. n \in Nat /\ Y \in Storage
      BY <1>1, <1>3, <1>5
    <2> QED
      BY <2>1, <1>1, <1>3, NullAssumption DEF With, ArrayType, Storage
  <1>11. \A s \in Slots : s < q.len <=> s <= r.len
    BY <1>1, <1>4, <1>10
  <1>12. Bounded(q)
    <2>1. q.len <= q.size /\ q.size <= MaxSlots
      BY <1>1, <1>10
    <2>2. ASSUME NEW s \in Slots, s >= q.size PROVE q.storage[s] = JUNK
      <3>1. s >= r.size
        BY <2>2, <1>1, <1>4, <1>10
      <3> QED
        BY <3>1, <2>2, <1>9, <1>10 DEF Bounded
    <2>3. \A s \in Slots : s < q.len => q.storage[s] \in Elems
      BY <1>6, <1>7, <1>10, <1>11 DEF Bounded
    <2> QED
      BY <2>1, <2>2, <2>3 DEF Bounded
  <1>13. NoTwice(q)
    <2> SUFFICES ASSUME NEW s \in Slots, NEW t \in Slots, s <= r.len, t <= r.len, X[s] = X[t]
                 PROVE  s = t
      BY <1>10, <1>11 DEF NoTwice
    <2>1. \A u \in Slots : u < r.len => r.storage[u] # e
      BY DEF ElemsOf
    <2>2. CASE s = idx \/ t = idx
      BY <2>1, <2>2, <1>6, <1>7
    <2>3. CASE s # idx /\ t # idx
      <3>1. PICK u \in Slots : /\ u < r.len /\ X[s] = r.storage[u]
                               /\ (s < idx => u = s) /\ (idx < s => u = s - 1)
        BY <2>3, <1>7
      <3>2. PICK v \in Slots : /\ v < r.len /\ X[t] = r.storage[v]
                               /\ (t < idx => v = t) /\ (idx < t => v = t - 1)
        BY <2>3, <1>7
      <3>3. u = v
        BY <3>1, <3>2 DEF NoTwice
      <3> QED
        BY <3>1, <3>2, <3>3, <2>3, <1>4
    <2> QED
      BY <2>2, <2>3
  <1>14. ElemsOf(q) = ElemsOf(r) \cup {e}
    <2>1. ElemsOf(q) = {X[s] : s \in {x \in Slots : x <= r.len}}
      BY <1>10, <1>11 DEF ElemsOf
    <2>2. ElemsOf(q) \subseteq ElemsOf(r) \cup {e}
      BY <2>1, <1>6, <1>7 DEF ElemsOf
    <2>3. ElemsOf(r) \subseteq ElemsOf(q)
      BY <2>1, <1>8 DEF ElemsOf
    <2>4. e \in ElemsOf(q)
      BY <2>1, <1>2, <1>6
    <2> QED
      BY <2>2, <2>3, <2>4
  <1> QED
    BY <1>10, <1>12, <1>13, <1>14 DEF X, Stored

\* ref_array_remove: one element goes, and those behind it move down.
LEMMA RemovedElements ==
    ASSUME NEW r \in ArrayType, Bounded(r), NoTwice(r), NEW idx \in Nat, idx < r.len,
           NEW Y, Y = ShiftLeft(r.storage, idx, r.len),
           NEW n, n = r.len - 1,
           NEW q, q = With(r, Y, r.size, n)
    PROVE  Removed(r, q, idx)
  <1> DEFINE X == [s \in Slots |-> IF idx <= s /\ s < r.len - 1 THEN r.storage[s + 1]
                                   ELSE r.storage[s]]
  <1>1. /\ r.storage \in Storage /\ r.len \in Nat /\ r.size \in Nat /\ MaxSlots \in Nat
        /\ r.len <= r.size /\ r.size <= MaxSlots
    BY RefArrayAssumption DEF ArrayType, Storage, Bounded
  <1>2. idx \in Slots /\ \A s \in Slots : s \in Nat
    BY <1>1 DEF Slots
  <1>3. Y = X
    BY <1>1, ShiftLeftIs
  <1>4. \A s \in Slots : s < r.len - 1 => s + 1 \in Slots
    BY <1>1 DEF Slots
  <1>5. X \in Storage
    BY <1>1, <1>4 DEF Storage
  <1>6. ASSUME NEW s \in Slots, s < r.len - 1
        PROVE  \E u \in Slots : /\ u < r.len /\ X[s] = r.storage[u] /\ u # idx
                                /\ (s < idx => u = s) /\ (idx <= s => u = s + 1)
    <2>1. CASE s < idx
      BY <2>1, <1>1, <1>2, <1>6
    <2>2. CASE idx <= s
      <3>1. s + 1 \in Slots /\ s + 1 < r.len /\ X[s] = r.storage[s + 1] /\ s + 1 # idx
        BY <2>2, <1>1, <1>2, <1>4, <1>6
      <3> QED
        BY <3>1, <2>2, <1>2
    <2> QED
      BY <2>1, <2>2, <1>2, <1>6
  <1>7. ASSUME NEW u \in Slots, u < r.len, u # idx
        PROVE  \E s \in Slots : s < r.len - 1 /\ X[s] = r.storage[u]
    <2>1. CASE u < idx
      <3>1. u < r.len - 1 /\ X[u] = r.storage[u]
        BY <2>1, <1>1, <1>2, <1>7
      <3> QED
        BY <3>1
    <2>2. CASE idx < u
      <3>1. u - 1 \in Slots /\ u - 1 < r.len - 1 /\ idx <= u - 1 /\ (u - 1) + 1 = u
        BY <2>2, <1>1, <1>2, <1>7 DEF Slots
      <3>2. X[u - 1] = r.storage[u]
        BY <3>1
      <3> QED
        BY <3>1, <3>2
    <2> QED
      BY <2>1, <2>2, <1>2, <1>7
  <1>8. ASSUME NEW s \in Slots, s >= r.size PROVE X[s] = r.storage[s]
    <2>1. ~(s < r.len - 1)
      BY <1>1, <1>2, <1>8
    <2> QED
      BY <2>1
  <1> HIDE DEF X
  <1>9. /\ q \in ArrayType /\ q.storage = X /\ q.size = r.size /\ q.len = n
        /\ q.refcount = r.refcount /\ q.cb = r.cb /\ n \in Nat
    <2>1. n \in Nat /\ Y \in Storage
      BY <1>1, <1>3, <1>5
    <2> QED
      BY <2>1, <1>1, <1>3 DEF With, ArrayType, Storage
  <1>10. \A s \in Slots : s < q.len <=> s < r.len - 1
    BY <1>9
  <1>11. Bounded(q)
    <2>1. q.len <= q.size /\ q.size <= MaxSlots
      BY <1>1, <1>9
    <2>2. \A s \in Slots : s >= q.size => q.storage[s] = JUNK
      BY <1>8, <1>9 DEF Bounded
    <2>3. \A s \in Slots : s < q.len => q.storage[s] \in Elems
      BY <1>6, <1>9, <1>10 DEF Bounded
    <2> QED
      BY <2>1, <2>2, <2>3 DEF Bounded
  <1>12. NoTwice(q)
    <2> SUFFICES ASSUME NEW s \in Slots, NEW t \in Slots, s < r.len - 1, t < r.len - 1, X[s] = X[t]
                 PROVE  s = t
      BY <1>9, <1>10 DEF NoTwice
    <2>1. PICK u \in Slots : /\ u < r.len /\ X[s] = r.storage[u] /\ u # idx
                             /\ (s < idx => u = s) /\ (idx <= s => u = s + 1)
      BY <1>6
    <2>2. PICK v \in Slots : /\ v < r.len /\ X[t] = r.storage[v] /\ v # idx
                             /\ (t < idx => v = t) /\ (idx <= t => v = t + 1)
      BY <1>6
    <2>3. u = v /\ u # idx
      BY <2>1, <2>2 DEF NoTwice
    <2>4. s \in Nat /\ t \in Nat /\ idx \in Nat
      BY <1>2
    <2>5. CASE s < idx
      BY <2>1, <2>2, <2>3, <2>4, <2>5
    <2>6. CASE idx <= s
      <3>1. u = s + 1
        BY <2>1, <2>6
      <3>2. CASE t < idx
        BY <3>1, <3>2, <2>2, <2>3, <2>4, <2>6
      <3>3. CASE idx <= t
        BY <3>1, <3>3, <2>2, <2>3, <2>4
      <3> QED
        BY <3>2, <3>3, <2>4
    <2> QED
      BY <2>5, <2>6, <2>4
  <1>13. ElemsOf(q) = ElemsOf(r) \ {r.storage[idx]}
    <2>1. ElemsOf(q) = {X[s] : s \in {x \in Slots : x < r.len - 1}}
      BY <1>9, <1>10 DEF ElemsOf
    <2>2. \A u \in Slots : u < r.len /\ u # idx => r.storage[u] # r.storage[idx]
      BY <1>2 DEF NoTwice
    <2>3. ElemsOf(q) \subseteq ElemsOf(r) \ {r.storage[idx]}
      <3> SUFFICES ASSUME NEW s \in Slots, s < r.len - 1
                   PROVE  X[s] \in ElemsOf(r) /\ X[s] # r.storage[idx]
        BY <2>1
      <3>1. PICK u \in Slots : u < r.len /\ X[s] = r.storage[u] /\ u # idx
        BY <1>6
      <3> QED
        BY <3>1, <2>2 DEF ElemsOf
    <2>4. ElemsOf(r) \ {r.storage[idx]} \subseteq ElemsOf(q)
      BY <2>1, <1>7 DEF ElemsOf
    <2> QED
      BY <2>3, <2>4
  <1> QED
    BY <1>9, <1>11, <1>12, <1>13 DEF X, Removed

\* ref_array_replace inside the array: one element goes, another comes.
LEMMA ReplacedElements ==
    ASSUME NEW r \in ArrayType, Bounded(r), NoTwice(r), NEW idx \in Slots, idx < r.len,
           NEW e \in Elems, e \notin ElemsOf(r),
           NEW Y, Y = [s \in Slots |-> IF s = idx THEN e ELSE r.storage[s]],
           NEW q, q = With(r, Y, r.size, r.len)
    PROVE  Replaced(r, q, idx, e)
  <1>1. /\ r.storage \in Storage /\ r.len \in Nat /\ r.size \in Nat /\ MaxSlots \in Nat
        /\ r.len <= r.size /\ r.size <= MaxSlots
    BY RefArrayAssumption DEF ArrayType, Storage, Bounded
  <1>2. Y \in Storage
    BY <1>1 DEF Storage
  <1>3. /\ q \in ArrayType /\ q.storage = Y /\ q.size = r.size /\ q.len = r.len
        /\ q.refcount = r.refcount /\ q.cb = r.cb
    BY <1>1, <1>2 DEF With, ArrayType, Storage
  <1>4. Bounded(q)
    <2>1. idx < r.size
      BY <1>1 DEF Slots
    <2>2. \A s \in Slots : s >= r.size => s # idx
      BY <2>1, <1>1 DEF Slots
    <2> QED
      BY <2>2, <1>1, <1>3 DEF Bounded
  <1>5. \A s \in Slots : s < r.len => r.storage[s] # e
    BY DEF ElemsOf
  <1>6. NoTwice(q)
    BY <1>3, <1>5 DEF NoTwice
  <1>7. ElemsOf(q) = (ElemsOf(r) \ {r.storage[idx]}) \cup {e}
    <2>1. \A u \in Slots : u < r.len /\ u # idx => r.storage[u] # r.storage[idx]
      BY DEF NoTwice
    <2>2. ElemsOf(q) \subseteq (ElemsOf(r) \ {r.storage[idx]}) \cup {e}
      BY <2>1, <1>3 DEF ElemsOf
    <2>3. e \in ElemsOf(q)
      BY <1>3 DEF ElemsOf
    <2>4. ElemsOf(r) \ {r.storage[idx]} \subseteq ElemsOf(q)
      BY <1>3 DEF ElemsOf
    <2> QED
      BY <2>2, <2>3, <2>4
  <1> QED
    BY <1>3, <1>4, <1>6, <1>7 DEF Replaced

\* ref_array_swap: two elements change places.
LEMMA SwappedElements ==
    ASSUME NEW r \in ArrayType, Bounded(r), NEW i \in Slots, i < r.len, NEW j \in Slots, j < r.len,
           NEW Y, Y = [s \in Slots |-> IF s = j THEN r.storage[i]
                                       ELSE IF s = i THEN r.storage[j] ELSE r.storage[s]],
           NEW q, q = With(r, Y, r.size, r.len)
    PROVE  /\ q \in ArrayType /\ Bounded(q) /\ (NoTwice(r) => NoTwice(q))
           /\ ElemsOf(q) = ElemsOf(r)
           /\ q.refcount = r.refcount /\ q.cb = r.cb
  <1>1. /\ r.storage \in Storage /\ r.len \in Nat /\ r.size \in Nat /\ MaxSlots \in Nat
        /\ r.len <= r.size /\ r.size <= MaxSlots
    BY RefArrayAssumption DEF ArrayType, Storage, Bounded
  <1>2. Y \in Storage
    BY <1>1 DEF Storage
  <1>3. /\ q \in ArrayType /\ q.storage = Y /\ q.size = r.size /\ q.len = r.len
        /\ q.refcount = r.refcount /\ q.cb = r.cb
    BY <1>1, <1>2 DEF With, ArrayType, Storage
  <1>4. Bounded(q)
    <2>1. \A s \in Slots : s >= r.size => s # i /\ s # j
      BY <1>1 DEF Slots
    <2> QED
      BY <2>1, <1>1, <1>3 DEF Bounded
  <1>5. NoTwice(r) => NoTwice(q)
    BY <1>3 DEF NoTwice
  <1>6. ElemsOf(q) = ElemsOf(r)
    <2> DEFINE to(s) == IF s = j THEN i ELSE IF s = i THEN j ELSE s
    <2>1. \A s \in Slots : s < r.len => /\ to(s) \in Slots /\ to(s) < r.len
                                         /\ Y[s] = r.storage[to(s)] /\ Y[to(s)] = r.storage[s]
      OBVIOUS
    <2> HIDE DEF to
    <2>2. ElemsOf(q) \subseteq ElemsOf(r)
      BY <2>1, <1>3 DEF ElemsOf
    <2>3. ElemsOf(r) \subseteq ElemsOf(q)
      <3> SUFFICES ASSUME NEW s \in Slots, s < r.len PROVE r.storage[s] \in ElemsOf(q)
        BY DEF ElemsOf
      <3>1. to(s) \in {x \in Slots : x < q.len} /\ q.storage[to(s)] = r.storage[s]
        BY <2>1, <1>3
      <3> QED
        BY <3>1 DEF ElemsOf
    <2> QED
      BY <2>2, <2>3
  <1> QED
    BY <1>3, <1>4, <1>5, <1>6

\* A call of append or insert that finds room stores the element.
LEMMA StoreIs ==
    ASSUME IInv, NEW a \in Owner, NEW e \in Fresh, NEW idx \in Nat, idx <= arr[a].len,
           Store(a, idx, e)
    PROVE  \/ Untouched
           \/ /\ \E q : Stored(arr[a], q, idx, e) /\ Becomes(a, q)
              /\ given' = given \cup {e} /\ held' = held /\ cleaned' = cleaned
  <1> DEFINE r == arr[a]
             room == WithRoom(r)
             size == room.size
             Y == [ShiftRight(r.storage, idx, r.len) EXCEPT ![idx] = e]
             n == r.len + 1
             q == With(r, Y, size, n)
  <1>1. /\ a \in Arrays /\ r # NULL /\ r.cb
    BY DEF Owner, Live
  <1>2. /\ r \in ArrayType /\ Bounded(r) /\ NoTwice(r) /\ r.len \in Nat /\ r.size \in Nat
        /\ r.grow_by \in Nat \ {0} /\ MaxSlots \in Nat /\ r.len <= r.size /\ r.size <= MaxSlots
    BY <1>1, ArrayFacts DEF ArrayType, Bounded
  <1>3. /\ e \in Elems /\ e \notin given /\ e \notin ElemsOf(r)
    BY <1>1, <1>2, OwnsIs DEF Fresh, IInv, OwnOK
  <1>4. CASE Untouched
    BY <1>4
  <1>5. CASE /\ size <= MaxSlots
             /\ arr' = [arr EXCEPT ![a] =
                   [room EXCEPT !.storage = [ShiftRight(room.storage, idx, room.len) EXCEPT ![idx] = e],
                                !.len = @ + 1]]
             /\ given' = given \cup {e} /\ UNCHANGED <<held, cleaned>>
    <2>1. /\ room \in ArrayType /\ room.storage = r.storage /\ room.len = r.len
          /\ room = [r EXCEPT !.size = size] /\ size \in Nat /\ r.len < size /\ r.size <= size
      BY <1>2 DEF WithRoom, Full, Grown, ArrayType
    <2>2. [room EXCEPT !.storage = Y, !.len = n] = q
      BY <2>1, <1>2 DEF With, ArrayType
    <2>3. [room EXCEPT !.storage = [ShiftRight(room.storage, idx, room.len) EXCEPT ![idx] = e],
                       !.len = @ + 1] = [room EXCEPT !.storage = Y, !.len = n]
      BY <2>1
    <2> HIDE DEF q, Y, n, size, room
    <2>4. Stored(r, q, idx, e)
      BY <1>2, <1>3, <2>1, <1>5, StoredElements DEF q, Y, n
    <2> QED
      BY <2>2, <2>3, <2>4, <1>5 DEF Becomes
  <1> QED
    BY <1>4, <1>5 DEF Store

\* So append and insert keep the invariant.
LEMMA StoreStep ==
    ASSUME IInv, NEW a \in Owner, NEW e \in Fresh, NEW idx \in Nat, idx <= arr[a].len,
           Store(a, idx, e)
    PROVE  IInv'
  <1>1. /\ a \in Arrays /\ arr[a] # NULL /\ arr[a].cb /\ arr[a] \in ArrayType
    BY ArrayFacts DEF Owner, Live
  <1>2. CASE Untouched
    BY <1>2, UntouchedStep
  <1>3. CASE /\ \E q : Stored(arr[a], q, idx, e) /\ Becomes(a, q)
             /\ given' = given \cup {e} /\ held' = held /\ cleaned' = cleaned
    <2>1. PICK q : Stored(arr[a], q, idx, e) /\ Becomes(a, q)
      BY <1>3
    <2>2. Owns(q) = ElemsOf(arr[a]) \cup {e} /\ Owns(arr[a]) = ElemsOf(arr[a])
      BY <1>1, <2>1, OwnsIs DEF Stored
    <2>3. Owns(q) = (Owns(arr[a]) \ {}) \cup {e} /\ {e} \subseteq Fresh /\ {} \subseteq Owns(arr[a])
      BY <2>2
    <2>4. Disposes({})
      BY <1>3, NothingDisposed
    <2>5. /\ q \in ArrayType /\ Bounded(q) /\ NoTwice(q) /\ q.refcount = arr[a].refcount
          /\ Becomes(a, q) /\ held' = held /\ given' = given \cup {e}
      BY <2>1, <1>3 DEF Stored
    <2> QED
      BY <1>1, <2>3, <2>4, <2>5, ElementsBecome
  <1> QED
    BY <1>2, <1>3, StoreIs

\* The callback on one element.
LEMMA CleanOne ==
    ASSUME IInv, NEW r, NEW e, r.cb = TRUE, Clean(r, <<e>>)
    PROVE  Disposes({e})
  <1> DEFINE f == <<e>>
  <1>1. DOMAIN f = {1} /\ f[1] = e
    OBVIOUS
  <1>2. \A i, j \in DOMAIN f : f[i] = f[j] => i = j
    BY <1>1
  <1>3. \A x : x \in {e} <=> \E i \in DOMAIN f : f[i] = x
    BY <1>1
  <1> HIDE DEF f
  <1>4. Clean(r, f)
    BY DEF f
  <1> QED
    BY <1>1, <1>2, <1>3, <1>4, CleanCounts

\* The callback on every element of an owner.
LEMMA CleanAll ==
    ASSUME IInv, NEW a \in Arrays, arr[a] # NULL, Clean(arr[a], Content(arr[a]))
    PROVE  Disposes(Owns(arr[a]))
  <1>1. arr[a] \in ArrayType /\ Bounded(arr[a]) /\ arr[a].len \in Nat /\ arr[a].cb \in BOOLEAN
    BY ArrayFacts
  <1>2. CASE arr[a].cb
    <2>1. PICK r : r = arr[a]
      OBVIOUS
    <2>2. PICK f : f = Content(r)
      OBVIOUS
    <2>3. /\ DOMAIN f = 1..r.len /\ {f[i] : i \in 1..r.len} = ElemsOf(r)
          /\ \A i, j \in DOMAIN f : f[i] = f[j] => i = j
      BY <1>1, <1>2, <2>1, <2>2, ArrayFacts, ContentIs
    <2>4. /\ r.len \in Nat /\ Clean(r, f) /\ Owns(r) = ElemsOf(r) /\ r.cb = TRUE
      BY <1>1, <1>2, <2>1, <2>2, OwnsIs DEF Clean
    <2>5. \A e : e \in Owns(r) <=> \E i \in DOMAIN f : f[i] = e
      BY <2>3, <2>4
    <2>6. PICK D : D = Owns(r)
      OBVIOUS
    <2>7. /\ \A i, j \in DOMAIN f : f[i] = f[j] => i = j
          /\ \A e \in Elems : e \in D <=> \E i \in DOMAIN f : f[i] = e
          /\ r.cb = TRUE
      BY <2>3, <2>4, <2>5, <2>6
    <2>8. Clean(r, f)
      BY <2>4
    <2>9. Disposes(D)
      <3>1. cleaned' = [e \in Elems |-> cleaned[e] + Times(f, e)]
        BY <2>7, <2>8 DEF Clean, Times
      <3>2. \A e \in Elems : Times(f, e) = IF e \in D THEN 1 ELSE 0
        BY <2>7, TimesOnce
      <3> QED
        BY <3>1, <3>2 DEF Disposes
    <2> QED
      BY <2>1, <2>6, <2>9 DEF Disposes
  <1>3. CASE ~arr[a].cb
    <2>1. Owns(arr[a]) = {} /\ cleaned' = cleaned
      BY <1>1, <1>3, OwnsIs DEF Clean
    <2> QED
      BY <2>1, NothingDisposed
  <1> QED
    BY <1>1, <1>2, <1>3

\* ref_array_create: a new array owns nothing.
LEMMA CreateStep ==
    ASSUME IInv, NEW a \in Arrays, NEW grow \in GrowSizes, ref_array_create(a, grow)
    PROVE  IInv'
  <1>1. CASE Untouched
    BY <1>1, UntouchedStep
  <1>2. CASE /\ arr[a] = NULL /\ grow # 0 /\ arr' = [arr EXCEPT ![a] = NewArray(grow, TRUE)]
             /\ held' = [held EXCEPT ![a] = 1] /\ UNCHANGED <<given, cleaned>>
    <2> DEFINE q == NewArray(grow, TRUE)
    <2>1. grow \in Nat \ {0} /\ MaxSlots \in Nat /\ MaxRefs \in Nat \ {0}
      BY <1>2, RefArrayAssumption
    <2>2. q \in ArrayType
      BY <2>1 DEF NewArray, ArrayType
    <2>3. /\ q.len = 0 /\ q.size = 0 /\ q.refcount = 1 /\ q.cb
          /\ q.storage = [s \in Slots |-> JUNK]
      BY DEF NewArray
    <2>4. \A s \in Slots : ~(s < 0)
      BY <2>1 DEF Slots
    <2> HIDE DEF q
    <2>5. Bounded(q) /\ NoTwice(q) /\ ElemsOf(q) = {}
      BY <2>1, <2>3, <2>4 DEF Bounded, NoTwice, ElemsOf
    <2>6. Owns(q) = (Owns(arr[a]) \ {}) \cup {} /\ {} \subseteq Owns(arr[a]) /\ {} \subseteq Fresh
      BY <1>2, <2>2, <2>3, <2>5, OwnsIs DEF Owns
    <2>7. /\ held' \in [Arrays -> 0..MaxRefs] /\ held'[a] = q.refcount
          /\ \A b \in Arrays : b # a => held'[b] = held[b]
      BY <1>2, <2>1, <2>3 DEF IInv, TypeOK
    <2>8. Disposes({})
      BY <1>2, NothingDisposed
    <2>9. Becomes(a, q) /\ given' = given \cup {}
      BY <1>2 DEF q, Becomes
    <2> QED
      BY <2>2, <2>5, <2>6, <2>7, <2>8, <2>9, ArrayBecomes
  <1> QED
    BY <1>1, <1>2 DEF ref_array_create

\* The step makes the references held to a the number n.
HeldIs(a, n) == held' = [held EXCEPT ![a] = n]

\* An array with another reference count.
Counting(r, n) == [r EXCEPT !.refcount = n]

\* ref_array_getref, and ref_array_destroy while others hold the array.
LEMMA CountStep ==
    ASSUME IInv, NEW a \in Arrays, arr[a] # NULL, NEW n \in 1..MaxRefs,
           NEW q, q = Counting(arr[a], n), Becomes(a, q),
           HeldIs(a, n), UNCHANGED <<given, cleaned>>
    PROVE  IInv'
  <1>1. arr[a] \in ArrayType /\ Bounded(arr[a]) /\ (arr[a].cb => NoTwice(arr[a])) /\ n \in Nat \ {0}
    BY ArrayFacts, RefArrayAssumption
  <1>2. /\ q \in ArrayType /\ q.storage = arr[a].storage /\ q.len = arr[a].len
        /\ q.size = arr[a].size /\ q.refcount = n /\ q.cb = arr[a].cb
    BY <1>1 DEF Counting, ArrayType
  <1>3. Bounded(q) /\ (q.cb => NoTwice(q)) /\ ElemsOf(q) = ElemsOf(arr[a])
    BY <1>1, <1>2 DEF Bounded, NoTwice, ElemsOf
  <1>4. Owns(q) = (Owns(arr[a]) \ {}) \cup {} /\ {} \subseteq Owns(arr[a]) /\ {} \subseteq Fresh
    BY <1>1, <1>2, <1>3, NullAssumption DEF Owns
  <1>5. /\ held' \in [Arrays -> 0..MaxRefs] /\ held'[a] = q.refcount
        /\ \A b \in Arrays : b # a => held'[b] = held[b]
    BY <1>2, RefArrayAssumption DEF IInv, TypeOK, HeldIs
  <1>6. Disposes({})
    BY NothingDisposed
  <1>7. given' = given \cup {}
    OBVIOUS
  <1> QED
    BY <1>2, <1>3, <1>4, <1>5, <1>6, <1>7, ArrayBecomes

\* ref_array_destroy by the last holder: every element goes to the callback.
LEMMA FreeStep ==
    ASSUME IInv, NEW a \in Arrays, arr[a] # NULL, arr[a].refcount = 1,
           Clean(arr[a], Content(arr[a])), Becomes(a, NULL),
           HeldIs(a, 0), UNCHANGED given
    PROVE  IInv'
  <1>1. arr'[a] = NULL /\ \A b \in Arrays : b # a => arr'[b] = arr[b]
    BY DEF IInv, TypeOK, Becomes
  <1>2. held'[a] = 0 /\ \A b \in Arrays : b # a => held'[b] = held[b]
    BY DEF IInv, TypeOK, HeldIs
  <1>3. Disposes(Owns(arr[a]))
    BY CleanAll
  <1>4. TypeOK'
    <2>1. cleaned' \in [Elems -> Nat]
      BY <1>3 DEF IInv, TypeOK, Disposes
    <2>2. held' \in [Arrays -> 0..MaxRefs]
      BY RefArrayAssumption DEF IInv, TypeOK, HeldIs
    <2>3. arr' \in [Arrays -> ArrayType \cup {NULL}] /\ given' \subseteq Elems
      BY DEF IInv, TypeOK, Becomes
    <2> QED
      BY <2>1, <2>2, <2>3 DEF TypeOK
  <1>5. StorageOK'
    BY <1>1 DEF IInv, StorageOK
  <1>6. CountOK'
    BY <1>1, <1>2 DEF IInv, CountOK, TypeOK
  <1>7. OwnOK'
    <2>1. \A b \in Arrays : b # a => Owns(arr'[b]) = Owns(arr[b])
      BY <1>1
    <2>2. /\ Owns(arr'[a]) = (Owns(arr[a]) \ Owns(arr[a])) \cup {}
          /\ Owns(arr[a]) \subseteq Owns(arr[a]) /\ {} \subseteq Fresh /\ given' = given \cup {}
      BY <1>1 DEF Owns
    <2> QED
      BY <2>1, <2>2, <1>3, OwnersChange
  <1> QED
    BY <1>4, <1>5, <1>6, <1>7 DEF IInv

\* ref_array_getref and ref_array_destroy.
LEMMA RefStep ==
    ASSUME IInv, NEW a \in Arrays, ref_array_getref(a) \/ ref_array_destroy(a)
    PROVE  IInv'
  <1>1. held[a] > 0 /\ held[a] \in Nat /\ held[a] <= MaxRefs /\ MaxRefs \in Nat
    BY RefArrayAssumption DEF ref_array_getref, ref_array_destroy, IInv, TypeOK
  <1>2. arr[a] # NULL
    BY <1>1 DEF IInv, CountOK
  <1>3. arr[a].refcount = held[a] /\ arr[a].refcount \in Nat
    BY <1>2, ArrayFacts
  <1>4. CASE ref_array_getref(a)
    <2>1. held[a] + 1 \in 1..MaxRefs
      BY <1>1, <1>4, RefArrayAssumption DEF ref_array_getref
    <2>2. PICK n \in 1..MaxRefs : n = held[a] + 1
      BY <2>1
    <2>3. PICK q : q = Counting(arr[a], n)
      OBVIOUS
    <2>4. Becomes(a, q)
      BY <1>3, <1>4, <2>2, <2>3 DEF ref_array_getref, Counting, Becomes
    <2>5. HeldIs(a, n) /\ UNCHANGED <<given, cleaned>>
      BY <1>4, <2>2 DEF ref_array_getref, HeldIs
    <2> QED
      BY <2>3, <2>4, <2>5, <1>2, CountStep, Zenon
  <1>5. CASE ref_array_destroy(a) /\ arr[a].refcount > 1
    <2>1. held[a] - 1 \in 1..MaxRefs
      BY <1>1, <1>3, <1>5
    <2>2. PICK n \in 1..MaxRefs : n = held[a] - 1
      BY <2>1
    <2>3. PICK q : q = Counting(arr[a], n)
      OBVIOUS
    <2>4. Becomes(a, q)
      BY <1>3, <1>5, <2>2, <2>3 DEF ref_array_destroy, Counting, Becomes
    <2>5. HeldIs(a, n) /\ UNCHANGED <<given, cleaned>>
      BY <1>5, <2>2 DEF ref_array_destroy, HeldIs
    <2> QED
      BY <2>3, <2>4, <2>5, <1>2, CountStep, Zenon
  <1>6. CASE ref_array_destroy(a) /\ arr[a].refcount = 1
    <2>1. /\ Clean(arr[a], Content(arr[a])) /\ arr' = [arr EXCEPT ![a] = NULL]
          /\ held' = [held EXCEPT ![a] = held[a] - 1] /\ UNCHANGED given
      BY <1>6 DEF ref_array_destroy
    <2>2. held[a] - 1 = 0
      BY <1>3, <1>6
    <2>3. Becomes(a, NULL) /\ HeldIs(a, 0)
      BY <2>1, <2>2 DEF Becomes, HeldIs
    <2> QED
      BY <1>2, <1>6, <2>1, <2>3, FreeStep
  <1> QED
    BY <1>1, <1>3, <1>4, <1>5, <1>6

\* A successful remove drops one element, which goes to the callback.
LEMMA RemoveIs ==
    ASSUME IInv, NEW a \in Owner, NEW idx \in Nat, ref_array_remove(a, idx)
    PROVE  \/ Untouched
           \/ /\ idx < arr[a].len /\ idx \in Slots
              /\ \E q : Removed(arr[a], q, idx) /\ Becomes(a, q)
              /\ Clean(arr[a], <<arr[a].storage[idx]>>)
              /\ given' = given /\ held' = held
  <1> DEFINE r == arr[a]
             Y == ShiftLeft(r.storage, idx, r.len)
             n == r.len - 1
             q == With(r, Y, r.size, n)
  <1>1. /\ a \in Arrays /\ r # NULL /\ r.cb
    BY DEF Owner, Live
  <1>2. /\ r \in ArrayType /\ Bounded(r) /\ NoTwice(r) /\ r.len \in Nat /\ r.size \in Nat
        /\ MaxSlots \in Nat /\ r.len <= r.size /\ r.size <= MaxSlots
    BY <1>1, ArrayFacts DEF ArrayType, Bounded
  <1>3. CASE Untouched
    BY <1>3
  <1>4. CASE /\ idx < r.len /\ Clean(r, <<r.storage[idx]>>)
             /\ arr' = [arr EXCEPT ![a].storage = ShiftLeft(@, idx, r.len), ![a].len = @ - 1]
             /\ UNCHANGED <<held, given>>
    <2>1. arr' = [arr EXCEPT ![a] = [r EXCEPT !.storage = Y, !.len = n]]
      BY <1>4
    <2>2. [r EXCEPT !.storage = Y, !.len = n] = q
      BY <1>2 DEF With, ArrayType
    <2>3. idx \in Slots
      BY <1>2, <1>4 DEF Slots
    <2> HIDE DEF q, Y, n
    <2>4. Removed(r, q, idx)
      BY <1>2, <1>4, RemovedElements DEF q, Y, n
    <2>5. Becomes(a, q)
      BY <2>1, <2>2 DEF Becomes
    <2> QED
      BY <2>3, <2>4, <2>5, <1>4
  <1> QED
    BY <1>3, <1>4 DEF ref_array_remove

\* So remove keeps the invariant.
LEMMA RemoveStep ==
    ASSUME IInv, NEW a \in Owner, NEW idx \in Nat, ref_array_remove(a, idx)
    PROVE  IInv'
  <1>1. /\ a \in Arrays /\ arr[a] # NULL /\ arr[a].cb /\ arr[a] \in ArrayType
        /\ arr[a].cb \in BOOLEAN
    BY ArrayFacts DEF Owner, Live
  <1>2. CASE Untouched
    BY <1>2, UntouchedStep
  <1>3. CASE /\ idx < arr[a].len /\ idx \in Slots
             /\ \E q : Removed(arr[a], q, idx) /\ Becomes(a, q)
             /\ Clean(arr[a], <<arr[a].storage[idx]>>)
             /\ given' = given /\ held' = held
    <2>1. PICK q : Removed(arr[a], q, idx) /\ Becomes(a, q)
      BY <1>3
    <2>2. PICK e : e = arr[a].storage[idx]
      OBVIOUS
    <2>3. e \in ElemsOf(arr[a])
      BY <2>2, <1>3 DEF ElemsOf
    <2> DEFINE none == {}
    <2>4. Owns(q) = (Owns(arr[a]) \ {e}) \cup none /\ {e} \subseteq Owns(arr[a]) /\ none \subseteq Fresh
      BY <1>1, <2>1, <2>2, <2>3, OwnsIs DEF Removed
    <2>5. Disposes({e})
      <3>1. PICK r : r = arr[a]
        OBVIOUS
      <3>2. r.cb = TRUE /\ Clean(r, <<e>>)
        BY <3>1, <2>2, <1>1, <1>3 DEF Clean
      <3> QED
        BY <3>2, CleanOne
    <2>6. /\ q \in ArrayType /\ Bounded(q) /\ NoTwice(q) /\ q.refcount = arr[a].refcount
          /\ Becomes(a, q) /\ held' = held /\ given' = given \cup none
      BY <2>1, <1>3 DEF Removed
    <2> HIDE DEF none
    <2> QED
      BY <1>1, <2>4, <2>5, <2>6, ElementsBecome
  <1> QED
    BY <1>2, <1>3, RemoveIs

\* A replace inside the array disposes of one element and stores another.
LEMMA ReplaceIs ==
    ASSUME IInv, NEW a \in Owner, NEW idx \in Nat, NEW e \in Fresh,
           ref_array_replace(a, idx, e), idx = arr[a].len => ~ReplaceAtEnd
    PROVE  \/ Untouched
           \/ /\ idx < arr[a].len /\ idx \in Slots
              /\ \E q : Replaced(arr[a], q, idx, e) /\ Becomes(a, q)
              /\ Clean(arr[a], <<arr[a].storage[idx]>>)
              /\ given' = given \cup {e} /\ held' = held
  <1> DEFINE r == arr[a]
             Y == [s \in Slots |-> IF s = idx THEN e ELSE r.storage[s]]
             q == With(r, Y, r.size, r.len)
  <1>1. /\ a \in Arrays /\ r # NULL /\ r.cb
    BY DEF Owner, Live
  <1>2. /\ r \in ArrayType /\ Bounded(r) /\ NoTwice(r) /\ r.len \in Nat /\ r.storage \in Storage
    BY <1>1, ArrayFacts
  <1>3. e \in Elems /\ e \notin given /\ e \notin ElemsOf(r)
    BY <1>1, <1>2, OwnsIs DEF Fresh, IInv, OwnOK
  <1>4. CASE Untouched
    BY <1>4
  <1>5. CASE /\ idx <= r.len /\ (idx = r.len => ReplaceAtEnd) /\ idx \in Slots
             /\ Clean(r, <<r.storage[idx]>>)
             /\ arr' = [arr EXCEPT ![a].storage[idx] = e]
             /\ given' = given \cup {e} /\ UNCHANGED held
    <2>1. idx < r.len
      BY <1>2, <1>5
    <2>2. arr' = [arr EXCEPT ![a] = [r EXCEPT !.storage = [r.storage EXCEPT ![idx] = e]]]
      BY <1>5
    <2>3. [r.storage EXCEPT ![idx] = e] = Y
      BY <1>2 DEF Storage
    <2>4. [r EXCEPT !.storage = Y] = q
      BY <1>2 DEF With, ArrayType
    <2> HIDE DEF q, Y
    <2>5. Replaced(r, q, idx, e)
      BY <1>2, <1>3, <1>5, <2>1, ReplacedElements DEF q, Y
    <2>6. Becomes(a, q)
      BY <2>2, <2>3, <2>4 DEF Becomes
    <2> QED
      BY <2>1, <2>5, <2>6, <1>5
  <1> QED
    BY <1>4, <1>5 DEF ref_array_replace

\* So replace keeps the invariant.
LEMMA ReplaceStep ==
    ASSUME IInv, ~ReplaceAtEnd, NEW a \in Owner, NEW idx \in Nat, NEW e \in Fresh,
           ref_array_replace(a, idx, e)
    PROVE  IInv'
  <1>1. /\ a \in Arrays /\ arr[a] # NULL /\ arr[a].cb /\ arr[a] \in ArrayType
        /\ arr[a].cb \in BOOLEAN
    BY ArrayFacts DEF Owner, Live
  <1>2. CASE Untouched
    BY <1>2, UntouchedStep
  <1>3. CASE /\ idx < arr[a].len /\ idx \in Slots
             /\ \E q : Replaced(arr[a], q, idx, e) /\ Becomes(a, q)
             /\ Clean(arr[a], <<arr[a].storage[idx]>>)
             /\ given' = given \cup {e} /\ held' = held
    <2>1. PICK q : Replaced(arr[a], q, idx, e) /\ Becomes(a, q)
      BY <1>3
    <2>2. PICK old : old = arr[a].storage[idx]
      OBVIOUS
    <2>3. old \in ElemsOf(arr[a])
      BY <2>2, <1>3 DEF ElemsOf
    <2>4. /\ Owns(q) = (Owns(arr[a]) \ {old}) \cup {e}
          /\ {old} \subseteq Owns(arr[a]) /\ {e} \subseteq Fresh
      BY <1>1, <2>1, <2>2, <2>3, OwnsIs DEF Replaced
    <2>5. Disposes({old})
      <3>1. PICK r : r = arr[a]
        OBVIOUS
      <3>2. r.cb = TRUE /\ Clean(r, <<old>>)
        BY <3>1, <2>2, <1>1, <1>3 DEF Clean
      <3> QED
        BY <3>2, CleanOne
    <2>6. /\ q \in ArrayType /\ Bounded(q) /\ NoTwice(q) /\ q.refcount = arr[a].refcount
          /\ Becomes(a, q) /\ held' = held /\ given' = given \cup {e}
      BY <2>1, <1>3 DEF Replaced
    <2> QED
      BY <1>1, <2>4, <2>5, <2>6, ElementsBecome
  <1> QED
    BY <1>2, <1>3, ReplaceIs

\* ref_array_reset: every element goes to the callback.
LEMMA ResetStep ==
    ASSUME IInv, NEW a \in Owner, ref_array_reset(a)
    PROVE  IInv'
  <1> DEFINE r == arr[a]
             Y == [s \in Slots |-> JUNK]
             q == With(r, Y, 0, 0)
             none == {}
  <1>1. /\ a \in Arrays /\ r # NULL /\ r.cb /\ r \in ArrayType /\ MaxSlots \in Nat
    BY ArrayFacts DEF Owner, Live
  <1>2. /\ q \in ArrayType /\ q.storage = Y /\ q.size = 0 /\ q.len = 0
        /\ q.refcount = r.refcount /\ q.cb = r.cb
    BY <1>1 DEF With, ArrayType
  <1>3. \A s \in Slots : ~(s < 0) /\ Y[s] = JUNK
    BY <1>1 DEF Slots
  <1>4. arr' = [arr EXCEPT ![a] = [r EXCEPT !.storage = Y, !.size = 0, !.len = 0]]
    BY DEF ref_array_reset
  <1>5. Becomes(a, q)
    BY <1>4 DEF Becomes, With
  <1> HIDE DEF q, Y
  <1>6. Bounded(q) /\ NoTwice(q) /\ ElemsOf(q) = none
    BY <1>1, <1>2, <1>3 DEF Bounded, NoTwice, ElemsOf
  <1>7. PICK D : D = Owns(r)
    OBVIOUS
  <1>8. Owns(q) = (Owns(r) \ D) \cup none /\ D \subseteq Owns(r) /\ none \subseteq Fresh
    BY <1>1, <1>2, <1>6, <1>7, OwnsIs
  <1>9. Disposes(D)
    BY <1>1, <1>7, CleanAll DEF Disposes, ref_array_reset
  <1>10. held' = held /\ given' = given \cup none
    BY DEF ref_array_reset
  <1>11. PICK p : p = q
    OBVIOUS
  <1>12. /\ p \in ArrayType /\ Bounded(p) /\ NoTwice(p) /\ p.refcount = arr[a].refcount
         /\ Becomes(a, p) /\ Owns(p) = (Owns(arr[a]) \ D) \cup none /\ D \subseteq Owns(arr[a])
    BY <1>2, <1>5, <1>6, <1>8, <1>11 DEF Becomes
  <1> HIDE DEF r, none
  <1> QED
    BY <1>1, <1>8, <1>9, <1>10, <1>12, ElementsBecome DEF r

\* ref_array_swap: the array owns what it owned.
LEMMA SwapStep ==
    ASSUME IInv, NEW a \in Live, NEW i \in Nat, NEW j \in Nat, ref_array_swap(a, i, j)
    PROVE  IInv'
  <1> DEFINE r == arr[a]
             Y == [s \in Slots |-> IF s = j THEN r.storage[i]
                                   ELSE IF s = i THEN r.storage[j] ELSE r.storage[s]]
             q == With(r, Y, r.size, r.len)
             none == {}
  <1>1. /\ a \in Arrays /\ r # NULL
    BY DEF Live
  <1>2. /\ r \in ArrayType /\ Bounded(r) /\ (r.cb => NoTwice(r)) /\ r.len \in Nat /\ r.size \in Nat
        /\ r.storage \in Storage /\ MaxSlots \in Nat /\ r.len <= r.size /\ r.size <= MaxSlots
    BY <1>1, ArrayFacts DEF ArrayType, Bounded
  <1>3. CASE Untouched
    BY <1>3, UntouchedStep
  <1>4. CASE /\ i < r.len /\ j < r.len /\ UNCHANGED <<held, given, cleaned>>
             /\ arr' = [arr EXCEPT ![a].storage[i] = arr[a].storage[j],
                                   ![a].storage[j] = arr[a].storage[i]]
    <2>1. i \in Slots /\ j \in Slots
      BY <1>2, <1>4 DEF Slots
    <2>2. arr' = [arr EXCEPT ![a] = [r EXCEPT !.storage = [r.storage EXCEPT ![i] = r.storage[j],
                                                                          ![j] = r.storage[i]]]]
      BY <1>1, <1>2, <2>1, <1>4 DEF IInv, TypeOK
    <2>3. [r.storage EXCEPT ![i] = r.storage[j], ![j] = r.storage[i]] = Y
      BY <1>2, <2>1 DEF Storage
    <2>4. [r EXCEPT !.storage = Y] = q
      BY <1>2 DEF With, ArrayType
    <2>5. PICK p : p = q
      OBVIOUS
    <2> HIDE DEF q, Y
    <2>6. /\ q \in ArrayType /\ Bounded(q) /\ (NoTwice(r) => NoTwice(q)) /\ ElemsOf(q) = ElemsOf(r)
          /\ q.refcount = r.refcount /\ q.cb = r.cb
      BY <1>2, <1>4, <2>1, SwappedElements DEF q, Y
    <2>7. Owns(q) = Owns(r)
      BY <1>1, <1>2, <2>6, NullAssumption DEF Owns
    <2>8. /\ p \in ArrayType /\ Bounded(p) /\ (p.cb => NoTwice(p)) /\ p.refcount = arr[a].refcount
          /\ Owns(p) = (Owns(arr[a]) \ none) \cup none /\ none \subseteq Owns(arr[a]) /\ none \subseteq Fresh
      BY <1>2, <2>5, <2>6, <2>7
    <2>9. Becomes(a, p)
      BY <2>2, <2>3, <2>4, <2>5 DEF Becomes
    <2>10. held' = held /\ given' = given \cup none /\ Disposes(none)
      BY <1>4, NothingDisposed
    <2> HIDE DEF none
    <2> QED
      BY <1>1, <2>8, <2>9, <2>10, ElementsBecome
  <1>5. CASE UNCHANGED arr /\ UNCHANGED <<held, given, cleaned>>
    BY <1>5, UntouchedStep DEF Untouched
  <1> QED
    BY <1>3, <1>4, <1>5 DEF ref_array_swap

\* The first elements of a copy are the copies.
LEMMA CopiedElements ==
    ASSUME NEW r \in ArrayType, Bounded(r), NEW n, n = r.len, NEW copies \in [1..n -> Elems],
           NEW cb \in BOOLEAN, NEW q, q = CopyOf(r, copies, n, cb)
    PROVE  /\ q \in ArrayType /\ Bounded(q)
           /\ q.len = n /\ q.refcount = 1 /\ q.cb = cb
           /\ IsInjective(copies) => NoTwice(q)
           /\ ElemsOf(q) = Range(copies)
           /\ Content(q) = copies
  <1> DEFINE X == [s \in Slots |-> IF s < n THEN copies[s + 1]
                                   ELSE IF s < r.size THEN NULL ELSE JUNK]
  <1>1. /\ n \in Nat /\ r.len \in Nat /\ r.size \in Nat /\ MaxSlots \in Nat
        /\ n <= r.size /\ r.size <= MaxSlots
    BY RefArrayAssumption DEF ArrayType, Bounded
  <1>2. \A s \in Slots : s \in Nat /\ (s < n => s + 1 \in 1..n /\ (s + 1) - 1 = s)
    BY <1>1 DEF Slots
  <1>3. \A i \in 1..n : i - 1 \in Slots /\ i - 1 < n /\ (i - 1) + 1 = i
    BY <1>1 DEF Slots
  <1>4. X \in Storage
    BY <1>2 DEF Storage
  <1>5. q = [r EXCEPT !.storage = X, !.len = n, !.refcount = 1, !.cb = cb]
    BY DEF CopyOf
  <1>6. \A s \in Slots : s < n => X[s] = copies[s + 1] /\ X[s] \in Elems
    BY <1>2
  <1>7. \A i \in 1..n : X[i - 1] = copies[i]
    BY <1>3
  <1>8. \A s \in Slots : s >= r.size => X[s] = JUNK
    BY <1>1, <1>2
  <1> HIDE DEF X
  <1>9. /\ q \in ArrayType /\ q.storage = X /\ q.size = r.size /\ q.len = n
        /\ q.refcount = 1 /\ q.cb = cb
    <2>1. X \in [Slots -> Elems \cup {JUNK, NULL}] /\ 1 \in Nat \ {0}
      BY <1>4 DEF Storage
    <2>2. q \in ArrayType
      BY <2>1, <1>1, <1>5 DEF ArrayType
    <2>3. /\ q.storage = X /\ q.size = r.size /\ q.len = n /\ q.refcount = 1 /\ q.cb = cb
      BY <1>5 DEF ArrayType
    <2> QED
      BY <2>2, <2>3
  <1>10. Bounded(q)
    BY <1>1, <1>6, <1>8, <1>9 DEF Bounded
  <1>11. IsInjective(copies) => NoTwice(q)
    <2> SUFFICES ASSUME IsInjective(copies), NEW s \in Slots, NEW t \in Slots, s < n, t < n, X[s] = X[t]
                 PROVE  s = t
      BY <1>9 DEF NoTwice
    <2>1. s + 1 \in DOMAIN copies /\ t + 1 \in DOMAIN copies /\ copies[s + 1] = copies[t + 1]
      BY <1>2, <1>6
    <2>2. s + 1 = t + 1
      BY <2>1 DEF IsInjective
    <2> QED
      BY <2>2, <1>2
  <1>12. ElemsOf(q) = Range(copies)
    <2>1. ElemsOf(q) \subseteq Range(copies)
      BY <1>2, <1>6, <1>9 DEF ElemsOf, Range
    <2>2. Range(copies) \subseteq ElemsOf(q)
      <3> SUFFICES ASSUME NEW i \in 1..n PROVE copies[i] \in ElemsOf(q)
        BY DEF Range
      <3>1. i - 1 \in {x \in Slots : x < q.len} /\ q.storage[i - 1] = copies[i]
        BY <1>3, <1>7, <1>9
      <3> QED
        BY <3>1 DEF ElemsOf
    <2> QED
      BY <2>1, <2>2
  <1>13. Content(q) = copies
    BY <1>7, <1>9 DEF Content
  <1> QED
    BY <1>9, <1>10, <1>11, <1>12, <1>13

\* A copy at b that owns the resources of A.
LEMMA NewCopy ==
    ASSUME IInv, NEW b \in Arrays, arr[b] = NULL, NEW q \in ArrayType, Bounded(q),
           q.cb => NoTwice(q), q.refcount = 1, Becomes(b, q), HeldIs(b, 1),
           NEW A, A \subseteq Fresh, Owns(q) = A, given' = given \cup A, cleaned' = cleaned
    PROVE  IInv'
  <1> DEFINE none == {}
  <1>1. /\ held' \in [Arrays -> 0..MaxRefs] /\ held'[b] = q.refcount
        /\ \A c \in Arrays : c # b => held'[c] = held[c]
    <2>1. 1 \in 0..MaxRefs
      BY RefArrayAssumption
    <2> QED
      BY <2>1 DEF IInv, TypeOK, HeldIs
  <1>2. Disposes(none)
    BY NothingDisposed
  <1>3. Owns(arr[b]) = none
    BY DEF Owns
  <1>4. none \subseteq Owns(arr[b]) /\ Owns(q) = (Owns(arr[b]) \ none) \cup A
    BY <1>3
  <1> HIDE DEF none
  <1> QED
    BY <1>1, <1>2, <1>4, ArrayBecomes

\* ref_array_copy without callbacks: the copy owns nothing.
LEMMA ShallowStep ==
    ASSUME IInv, NEW a \in Live, NEW b \in Arrays, ref_array_copy_shallow(a, b)
    PROVE  IInv'
  <1>1. PICK r : r = arr[a]
    OBVIOUS
  <1>2. PICK n : n = r.len
    OBVIOUS
  <1>3. PICK copies : copies = Content(r)
    OBVIOUS
  <1>4. PICK cb \in BOOLEAN : cb = FALSE
    OBVIOUS
  <1>4a. PICK q : q = CopyOf(r, copies, n, cb)
    OBVIOUS
  <1>5. r \in ArrayType /\ Bounded(r) /\ n \in Nat
    BY <1>1, <1>2, ArrayFacts DEF Live
  <1>6. copies \in [1..n -> Elems]
    <2>1. n <= MaxSlots /\ MaxSlots \in Nat
      BY <1>2, <1>5, RefArrayAssumption DEF Bounded, ArrayType
    <2>2. \A i \in 1..n : i - 1 \in Slots /\ i - 1 < n
      BY <2>1, <1>5 DEF Slots
    <2> QED
      BY <2>2, <1>2, <1>3, <1>5 DEF Content, Bounded
  <1>7. /\ q \in ArrayType /\ Bounded(q) /\ q.refcount = 1 /\ q.cb = FALSE
    BY <1>2, <1>4, <1>4a, <1>5, <1>6, CopiedElements
  <1>8. arr[b] = NULL /\ Becomes(b, q) /\ HeldIs(b, 1) /\ given' = given /\ cleaned' = cleaned
    BY <1>1, <1>2, <1>3, <1>4, <1>4a DEF ref_array_copy_shallow, Becomes, HeldIs
  <1> DEFINE none == {}
  <1>9. none \subseteq Fresh /\ Owns(q) = none /\ given' = given \cup none
    BY <1>7, <1>8, OwnsIs
  <1> HIDE DEF none
  <1> QED
    BY <1>7, <1>8, <1>9, NewCopy

\* A copy that fails half way hands over some resources and disposes of them.
LEMMA AbandonStep ==
    ASSUME IInv, NEW n, NEW copies \in [1..n -> Fresh], IsInjective(copies),
           AbandonCopy(copies), given' = given \cup Range(copies), UNCHANGED <<arr, held>>
    PROVE  IInv'
  <1> DEFINE A == Range(copies)
  <1>1. OwnOK /\ cleaned \in [Elems -> Nat] /\ given \subseteq Elems
    BY DEF IInv, TypeOK
  <1>2. A \subseteq Fresh /\ A \subseteq Elems
    BY DEF Range, Fresh
  <1>3. Disposes(A)
    <2>1. cleaned' = [e \in Elems |-> cleaned[e] + Times(copies, e)]
      BY DEF AbandonCopy, Times
    <2>2. \A i, j \in DOMAIN copies : copies[i] = copies[j] => i = j
      BY DEF IsInjective
    <2>3. \A e \in Elems : e \in A <=> \E i \in DOMAIN copies : copies[i] = e
      BY DEF Range
    <2> HIDE DEF A
    <2>4. \A e \in Elems : Times(copies, e) = IF e \in A THEN 1 ELSE 0
      BY <2>2, <2>3, TimesOnce
    <2> QED
      BY <2>1, <2>4 DEF Disposes
  <1> HIDE DEF A
  <1>4. given' = given \cup A
    BY DEF A
  <1>5. TypeOK'
    <2>1. cleaned' \in [Elems -> Nat]
      BY <1>1, <1>3 DEF Disposes
    <2> QED
      BY <2>1, <1>1, <1>2, <1>4 DEF IInv, TypeOK
  <1>6. StorageOK'
    BY DEF IInv, StorageOK
  <1>7. CountOK'
    BY DEF IInv, CountOK
  <1>8. OwnOK'
    <2>1. \A e \in A : e \notin given /\ cleaned[e] = 0 /\ cleaned'[e] = 1 /\ e \in given'
      <3> SUFFICES ASSUME NEW e \in A
                   PROVE  e \notin given /\ cleaned[e] = 0 /\ cleaned'[e] = 1 /\ e \in given'
        OBVIOUS
      <3>1. e \in Elems /\ e \notin given /\ cleaned[e] = 0 /\ e \in given'
        BY <1>1, <1>2, <1>4 DEF Fresh, OwnOK
      <3>2. cleaned'[e] = 0 + 1
        BY <3>1, <1>3 DEF Disposes
      <3> QED
        BY <3>1, <3>2
    <2>2. ASSUME NEW e \in Elems, e \notin A
          PROVE  cleaned'[e] = cleaned[e] /\ (e \in given' <=> e \in given)
      <3>1. cleaned'[e] = cleaned[e] + 0 /\ cleaned[e] \in Nat
        BY <2>2, <1>1, <1>3 DEF Disposes
      <3> QED
        BY <3>1, <2>2, <1>4
    <2>3. \A b \in Arrays : \A e \in Owns(arr[b]) : e \notin A /\ e \in Elems
      BY <2>1, <1>1 DEF OwnOK
    <2>4. \A b, c \in Arrays : b # c => Owns(arr'[b]) \cap Owns(arr'[c]) = {}
      BY <1>1 DEF OwnOK
    <2>5. \A b \in Arrays : \A e \in Owns(arr'[b]) : e \in given' /\ cleaned'[e] = 0
      BY <1>1, <2>2, <2>3 DEF OwnOK
    <2>6. \A e \in Elems : e \in given' => cleaned'[e] = 1 \/ \E b \in Arrays : e \in Owns(arr'[b])
      BY <1>1, <2>1, <2>2 DEF OwnOK
    <2>7. \A e \in Elems : cleaned'[e] \in {0, 1} /\ (e \notin given' => cleaned'[e] = 0)
      BY <1>1, <2>1, <2>2 DEF OwnOK
    <2> QED
      BY <2>4, <2>5, <2>6, <2>7 DEF OwnOK
  <1> QED
    BY <1>5, <1>6, <1>7, <1>8 DEF IInv

\* ref_array_copy: the copies belong to the new array, or are disposed of.
LEMMA CopyStep ==
    ASSUME IInv, NEW a \in Owner, NEW b \in Arrays, ref_array_copy(a, b)
    PROVE  IInv'
  <1>1. CASE Untouched
    BY <1>1, UntouchedStep
  <1>2. ASSUME NEW copies \in [1..arr[a].len -> Fresh], IsInjective(copies),
               arr' = [arr EXCEPT ![b] = CopyOf(arr[a], copies, arr[a].len, TRUE)],
               held' = [held EXCEPT ![b] = 1], given' = given \cup Range(copies), cleaned' = cleaned
        PROVE  IInv'
    <2>1. PICK r : r = arr[a]
      OBVIOUS
    <2>2. PICK n : n = r.len
      OBVIOUS
    <2>2a. PICK cb \in BOOLEAN : cb = TRUE
      OBVIOUS
    <2>3. PICK q : q = CopyOf(r, copies, n, cb)
      OBVIOUS
    <2>4. r \in ArrayType /\ Bounded(r)
      BY <2>1, ArrayFacts DEF Owner, Live
    <2>5. copies \in [1..n -> Elems] /\ Range(copies) \subseteq Fresh
      BY <2>1, <2>2 DEF Fresh, Range
    <2>6. /\ q \in ArrayType /\ Bounded(q) /\ q.refcount = 1 /\ q.cb = TRUE
          /\ NoTwice(q) /\ ElemsOf(q) = Range(copies)
      <3>1. /\ q \in ArrayType /\ Bounded(q) /\ q.refcount = 1 /\ q.cb = cb
            /\ (IsInjective(copies) => NoTwice(q)) /\ ElemsOf(q) = Range(copies)
        BY <2>2, <2>3, <2>4, <2>5, CopiedElements
      <3> QED
        BY <3>1, <1>2, <2>2a
    <2>7. PICK A : A = Range(copies)
      OBVIOUS
    <2>8. Owns(q) = A
      BY <2>6, <2>7, OwnsIs
    <2>9. arr[b] = NULL /\ Becomes(b, q) /\ HeldIs(b, 1) /\ given' = given \cup A /\ A \subseteq Fresh
      BY <1>2, <2>1, <2>2, <2>2a, <2>3, <2>5, <2>7 DEF ref_array_copy, Becomes, HeldIs
    <2> QED
      BY <1>2, <2>6, <2>8, <2>9, NewCopy
  <1>3. ASSUME NEW n \in 0..(arr[a].len - 1), NEW copies \in [1..n -> Fresh], IsInjective(copies),
               AbandonCopy(copies), given' = given \cup Range(copies), UNCHANGED <<arr, held>>
        PROVE  IInv'
    BY <1>3, AbandonStep
  <1> QED
    BY <1>1, <1>2, <1>3 DEF ref_array_copy

-----------------------------------------------------------------------------
(* The theorems *)

\* Before the first call there is no array.
LEMMA InitInv == Init => IInv
  <1> SUFFICES ASSUME Init PROVE IInv
    OBVIOUS
  <1>1. \A a \in Arrays : arr[a] = NULL /\ Owns(arr[a]) = {} /\ held[a] = 0
    BY DEF Init, Owns
  <1>2. TypeOK
    BY RefArrayAssumption DEF Init, TypeOK
  <1>3. StorageOK /\ CountOK
    BY <1>1 DEF StorageOK, CountOK
  <1>4. OwnOK
    BY <1>1 DEF Init, OwnOK
  <1> QED
    BY <1>2, <1>3, <1>4 DEF IInv

\* Every call keeps the invariant.
LEMMA NextInv ==
    ASSUME IInv, ~ReplaceAtEnd, [Next]_vars
    PROVE  IInv'
  <1>1. CASE UNCHANGED vars
    BY <1>1, UntouchedStep DEF vars, Untouched
  <1>2. ASSUME NEW a \in Owner
        PROVE  /\ a \in Arrays /\ a \in Live /\ arr[a].len \in Nat
               /\ Indexes(a) \subseteq Nat
    BY ArrayFacts DEF Owner, Live, Indexes
  <1>3. ASSUME NEW a \in Live PROVE Indexes(a) \subseteq Nat
    BY ArrayFacts DEF Live, Indexes
  <1>4. ASSUME NEW a \in Arrays, NEW grow \in GrowSizes, ref_array_create(a, grow) PROVE IInv'
    BY <1>4, CreateStep
  <1>5. ASSUME NEW a \in Arrays, ref_array_getref(a) \/ ref_array_destroy(a) PROVE IInv'
    BY <1>5, RefStep
  <1>6. ASSUME NEW a \in Owner, NEW e \in Fresh, ref_array_append(a, e) PROVE IInv'
    BY <1>2, <1>6, StoreStep DEF ref_array_append
  <1>7. ASSUME NEW a \in Owner, NEW e \in Fresh, NEW idx \in Indexes(a), ref_array_insert(a, idx, e)
        PROVE  IInv'
    <2>1. idx \in Nat
      BY <1>2
    <2>2. CASE Untouched
      BY <2>2, UntouchedStep
    <2>3. CASE idx <= arr[a].len /\ Store(a, idx, e)
      BY <2>1, <2>3, StoreStep
    <2> QED
      BY <1>7, <2>2, <2>3 DEF ref_array_insert
  <1>8. ASSUME NEW a \in Owner, NEW e \in Fresh, NEW idx \in Indexes(a), ref_array_replace(a, idx, e)
        PROVE  IInv'
    <2>1. idx \in Nat
      BY <1>2
    <2> QED
      BY <2>1, <1>8, ReplaceStep
  <1>9. ASSUME NEW a \in Live, NEW idx \in Indexes(a), ref_array_get(a, idx) PROVE IInv'
    BY <1>9, UntouchedStep DEF ref_array_get
  <1>10. ASSUME NEW a \in Owner, NEW idx \in Indexes(a), ref_array_remove(a, idx) PROVE IInv'
    <2>1. idx \in Nat
      BY <1>2
    <2> QED
      BY <2>1, <1>10, RemoveStep
  <1>11. ASSUME NEW a \in Owner, ref_array_reset(a) PROVE IInv'
    BY <1>11, ResetStep
  <1>12. ASSUME NEW a \in Live, NEW i \in Indexes(a), NEW j \in Indexes(a), ref_array_swap(a, i, j)
         PROVE  IInv'
    <2>1. i \in Nat /\ j \in Nat
      BY <1>3
    <2> QED
      BY <2>1, <1>12, SwapStep
  <1>13. ASSUME NEW a \in Owner, NEW b \in Arrays, ref_array_copy(a, b) PROVE IInv'
    BY <1>13, CopyStep
  <1>14. ASSUME NEW a \in Live, NEW b \in Arrays, ref_array_copy_shallow(a, b) PROVE IInv'
    BY <1>14, ShallowStep
  <1> QED
    BY <1>1, <1>4, <1>5, <1>6, <1>7, <1>8, <1>9, <1>10, <1>11, <1>12, <1>13, <1>14 DEF Next

\* The invariant implies what the run checks.
LEMMA InvSound ==
    ASSUME IInv
    PROVE  ElementsSound
  <1>1. WithinStorage
    BY ArrayFacts DEF WithinStorage, Live, Bounded
  <1>2. LiveWhileHeld
    <2> SUFFICES ASSUME NEW a \in Arrays PROVE (arr[a] # NULL) <=> (held[a] > 0)
      BY DEF LiveWhileHeld
    <2>1. arr[a] = NULL => held[a] = 0
      BY DEF IInv, CountOK
    <2>2. CASE arr[a] # NULL
      BY <2>2, ArrayFacts
    <2> QED
      BY <2>1, <2>2
  <1>3. ASSUME NEW e \in Elems
        PROVE  Cardinality(Places(e)) + cleaned[e] = IF e \in given THEN 1 ELSE 0
    <2>1. ASSUME NEW p \in Places(e)
          PROVE  /\ p \in Owner \X Slots /\ p[1] \in Arrays /\ p[1] \in Owner /\ p[2] \in Slots
                 /\ p[2] < arr[p[1]].len /\ arr[p[1]].storage[p[2]] = e
                 /\ e \in Owns(arr[p[1]]) /\ NoTwice(arr[p[1]])
      <3>1. /\ p \in Owner \X Slots /\ p[1] \in Owner /\ p[2] \in Slots
            /\ p[2] < arr[p[1]].len /\ arr[p[1]].storage[p[2]] = e
        BY <2>1 DEF Places
      <3>2. p[1] \in Arrays /\ arr[p[1]] # NULL /\ arr[p[1]].cb
        BY <3>1 DEF Owner, Live
      <3>3. NoTwice(arr[p[1]]) /\ e \in ElemsOf(arr[p[1]])
        BY <3>1, <3>2, ArrayFacts DEF ElemsOf
      <3> QED
        BY <3>1, <3>2, <3>3 DEF Owns
    <2>2. ASSUME NEW p \in Places(e), NEW q \in Places(e) PROVE p = q
      <3>1. p[1] = q[1]
        BY <2>1 DEF IInv, OwnOK
      <3>2. p[2] = q[2]
        BY <2>1, <3>1 DEF NoTwice
      <3> QED
        BY <2>1, <3>1, <3>2
    <2>3. CASE Places(e) # {}
      <3>1. PICK p \in Places(e) : TRUE
        BY <2>3
      <3>2. Places(e) = {p}
        BY <2>2, <3>1
      <3>3. Cardinality(Places(e)) = 1
        BY <3>2, FS_Singleton
      <3>4. e \in given /\ cleaned[e] = 0
        BY <2>1, <3>1 DEF IInv, OwnOK
      <3> QED
        BY <3>3, <3>4
    <2>4. CASE Places(e) = {}
      <3>1. Cardinality(Places(e)) = 0
        BY <2>4, FS_EmptySet
      <3>2. ASSUME NEW b \in Arrays, e \in Owns(arr[b]) PROVE FALSE
        <4>1. arr[b] # NULL /\ arr[b].cb /\ e \in ElemsOf(arr[b])
          BY <3>2 DEF Owns
        <4>2. PICK s \in Slots : s < arr[b].len /\ arr[b].storage[s] = e
          BY <4>1 DEF ElemsOf
        <4>3. <<b, s>> \in Places(e)
          BY <4>1, <4>2 DEF Places, Owner, Live
        <4> QED
          BY <4>3, <2>4
      <3>3. cleaned[e] = IF e \in given THEN 1 ELSE 0
        BY <3>2 DEF IInv, OwnOK
      <3> QED
        BY <3>1, <3>3
    <2> QED
      BY <2>3, <2>4
  <1>4. OwnedOnce
    BY <1>3 DEF OwnedOnce
  <1> QED
    BY <1>1, <1>2, <1>4 DEF ElementsSound, IInv

\* As long as callers replace only elements that are there: the arrays keep
\* to their storage, every resource handed over is an element of one array
\* or was given to the callback once, and an array lives while it is held.
THEOREM ElementsCorrect == ~ReplaceAtEnd /\ Spec => []ElementsSound
  <1> SUFFICES ASSUME ~ReplaceAtEnd PROVE Spec => []ElementsSound
    OBVIOUS
  <1>1. IInv /\ [Next]_vars => IInv'
    BY NextInv
  <1> QED
    BY <1>1, InitInv, InvSound, PTL DEF Spec

-----------------------------------------------------------------------------
(* The arrays as sequences *)

\* The contents of an array are a sequence of elements.
LEMMA ContentSeq ==
    ASSUME NEW r \in ArrayType, Bounded(r)
    PROVE  /\ Content(r) \in Seq(Elems) /\ Len(Content(r)) = r.len
           /\ \A i \in 1..r.len : i - 1 \in Slots /\ Content(r)[i] = r.storage[i - 1]
           /\ r.len \in Nat /\ MaxSlots \in Nat /\ r.len <= MaxSlots /\ r.storage \in Storage
  <1>1. /\ r.len \in Nat /\ MaxSlots \in Nat /\ r.len <= MaxSlots /\ r.storage \in Storage
    BY RefArrayAssumption DEF ArrayType, Bounded, Storage
  <1>2. \A i \in 1..r.len : i - 1 \in Slots /\ i - 1 < r.len
    BY <1>1 DEF Slots
  <1>3. \A i \in 1..r.len : Content(r)[i] = r.storage[i - 1] /\ Content(r)[i] \in Elems
    BY <1>2 DEF Content, Bounded
  <1>4. Content(r) \in [1..r.len -> Elems]
    BY <1>3 DEF Content
  <1>5. Content(r) \in Seq(Elems) /\ Len(Content(r)) = r.len
    BY <1>1, <1>4
  <1> QED
    BY <1>1, <1>2, <1>3, <1>5

\* Moving the elements from idx on up and storing e inserts e.
LEMMA StoreInserts ==
    ASSUME NEW r \in ArrayType, Bounded(r), NEW idx \in Nat, idx <= r.len, r.len < MaxSlots,
           NEW e \in Elems, NEW q, q.len = r.len + 1,
           q.storage = [ShiftRight(r.storage, idx, r.len) EXCEPT ![idx] = e]
    PROVE  Content(q) = InsertAt(Content(r), idx + 1, e)
  <1> DEFINE before == Content(r)
             after == InsertAt(before, idx + 1, e)
  <1>1. /\ r.len \in Nat /\ MaxSlots \in Nat /\ r.storage \in Storage
        /\ before \in Seq(Elems) /\ Len(before) = r.len
        /\ \A i \in 1..r.len : before[i] = r.storage[i - 1]
    BY ContentSeq
  <1>2. r.len \in Slots /\ idx \in Slots
    BY <1>1 DEF Slots
  <1>3. \A s \in Slots : q.storage[s] = IF s = idx THEN e
                                         ELSE IF idx < s /\ s <= r.len THEN r.storage[s - 1]
                                         ELSE r.storage[s]
    <2>1. PICK st \in Storage : st = r.storage
      BY <1>1
    <2>2. PICK len \in Slots : len = r.len
      BY <1>2
    <2>3. ShiftRight(st, idx, len) =
             [s \in Slots |-> IF idx < s /\ s <= len THEN st[s - 1] ELSE st[s]]
      BY <2>2, ShiftRightIs
    <2> QED
      BY <2>1, <2>2, <2>3, <1>2
  <1>4. after = [j \in 1..(r.len + 1) |-> IF j < idx + 1 THEN before[j]
                                          ELSE IF j = idx + 1 THEN e ELSE before[j - 1]]
    <2>1. idx + 1 \in 1..(Len(before) + 1)
      BY <1>1
    <2> HIDE DEF before
    <2>2. PICK s \in Seq(Elems) : s = before
      BY <1>1
    <2>3. PICK i \in 1..(Len(s) + 1) : i = idx + 1
      BY <2>1, <2>2
    <2>4. InsertAt(s, i, e) = [j \in 1..(Len(s) + 1) |->
                                 IF j < i THEN s[j] ELSE IF j = i THEN e ELSE s[j - 1]]
      BY InsertAtIs
    <2> QED
      BY <2>2, <2>3, <2>4, <1>1
  <1> HIDE DEF before, after
  <1>5. Content(q) = [j \in 1..(r.len + 1) |-> q.storage[j - 1]]
    BY DEF Content
  <1>6. ASSUME NEW j \in 1..(r.len + 1) PROVE q.storage[j - 1] = after[j]
    <2>1. j - 1 \in Slots /\ j \in Nat
      BY <1>1 DEF Slots
    <2>2. CASE j < idx + 1
      <3>1. q.storage[j - 1] = r.storage[j - 1] /\ j \in 1..r.len
        BY <2>1, <2>2, <1>1, <1>3
      <3> QED
        BY <3>1, <2>2, <1>1, <1>4
    <2>3. CASE j = idx + 1
      <3>1. j - 1 = idx
        BY <2>3
      <3> QED
        BY <3>1, <2>1, <2>3, <1>3, <1>4
    <2>4. CASE idx + 1 < j
      <3>1. /\ idx < j - 1 /\ j - 1 <= r.len /\ j - 1 # idx /\ j - 1 \in 1..r.len
            /\ ~(j < idx + 1) /\ j # idx + 1
        BY <2>4, <1>1
      <3>2. q.storage[j - 1] = r.storage[(j - 1) - 1]
        BY <3>1, <2>1, <1>3
      <3>3. after[j] = before[j - 1]
        BY <3>1, <1>4
      <3> QED
        BY <3>1, <3>2, <3>3, <1>1
    <2> QED
      BY <2>1, <2>2, <2>3, <2>4
  <1>7. after = [j \in 1..(r.len + 1) |-> after[j]]
    BY <1>4
  <1> QED
    BY <1>5, <1>6, <1>7 DEF after, before

\* Moving the elements after idx down removes one.
LEMMA ShiftRemoves ==
    ASSUME NEW r \in ArrayType, Bounded(r), NEW idx \in Nat, idx < r.len,
           NEW q, q.len = r.len - 1, q.storage = ShiftLeft(r.storage, idx, r.len)
    PROVE  Content(q) = RemoveAt(Content(r), idx + 1)
  <1> DEFINE before == Content(r)
             after == RemoveAt(before, idx + 1)
  <1>1. /\ r.len \in Nat /\ MaxSlots \in Nat /\ r.storage \in Storage /\ r.len <= MaxSlots
        /\ before \in Seq(Elems) /\ Len(before) = r.len
        /\ \A i \in 1..r.len : before[i] = r.storage[i - 1]
    BY ContentSeq
  <1>2. \A s \in Slots : q.storage[s] = IF idx <= s /\ s < r.len - 1 THEN r.storage[s + 1]
                                         ELSE r.storage[s]
    BY <1>1, ShiftLeftIs
  <1>3. after = [j \in 1..(r.len - 1) |-> IF j < idx + 1 THEN before[j] ELSE before[j + 1]]
    <2>1. idx + 1 \in 1..Len(before)
      BY <1>1
    <2> HIDE DEF before
    <2>2. after = [j \in 1..(Len(before) - 1) |-> IF j < idx + 1 THEN before[j] ELSE before[j + 1]]
      BY <2>1, <1>1, RemoveAtIs
    <2> HIDE DEF after
    <2> QED
      BY <2>2, <1>1
  <1> HIDE DEF before, after
  <1>4. Content(q) = [j \in 1..(r.len - 1) |-> q.storage[j - 1]]
    BY DEF Content
  <1>5. ASSUME NEW j \in 1..(r.len - 1) PROVE q.storage[j - 1] = after[j]
    <2>1. j - 1 \in Slots /\ j \in Nat /\ j \in 1..r.len /\ j + 1 \in 1..r.len
      BY <1>1 DEF Slots
    <2>2. CASE j < idx + 1
      <3>1. q.storage[j - 1] = r.storage[j - 1]
        BY <2>1, <2>2, <1>1, <1>2
      <3> QED
        BY <3>1, <2>1, <2>2, <1>1, <1>3
    <2>3. CASE idx + 1 <= j
      <3>1. idx <= j - 1 /\ j - 1 < r.len - 1 /\ (j - 1) + 1 = (j + 1) - 1 /\ ~(j < idx + 1)
        BY <2>3, <2>1, <1>1
      <3>2. q.storage[j - 1] = r.storage[(j - 1) + 1]
        BY <3>1, <2>1, <1>2
      <3>3. after[j] = before[j + 1]
        BY <3>1, <1>3
      <3> QED
        BY <3>1, <3>2, <3>3, <2>1, <1>1
    <2> QED
      BY <2>1, <2>2, <2>3
  <1>6. after = [j \in 1..(r.len - 1) |-> after[j]]
    BY <1>3
  <1> QED
    BY <1>4, <1>5, <1>6 DEF after, before

\* A store that changes the arrays inserts the element.
LEMMA StoreContent ==
    ASSUME IInv, arr' # arr, NEW a \in Live, NEW e \in Fresh, NEW idx \in Nat, idx <= arr[a].len,
           arr[a].len < MaxSlots, Store(a, idx, e)
    PROVE  Content(arr'[a]) = InsertAt(Content(arr[a]), idx + 1, e)
  <1> DEFINE room == WithRoom(arr[a])
  <1>1. PICK r : r = arr[a]
    OBVIOUS
  <1>2. a \in Arrays /\ r \in ArrayType /\ Bounded(r) /\ e \in Elems
    BY <1>1, ArrayFacts DEF Live, Fresh
  <1>3. room.storage = r.storage /\ room.len = r.len /\ room \in ArrayType
    BY <1>1, <1>2 DEF WithRoom, Full, Grown, ArrayType
  <1>4. arr' = [arr EXCEPT ![a] =
                  [room EXCEPT !.storage = [ShiftRight(room.storage, idx, room.len) EXCEPT ![idx] = e],
                               !.len = @ + 1]]
    BY DEF Store, Untouched
  <1> HIDE DEF room
  <1>5. PICK Y : Y = [ShiftRight(r.storage, idx, r.len) EXCEPT ![idx] = e]
    OBVIOUS
  <1>6. arr' = [arr EXCEPT ![a] = [room EXCEPT !.storage = Y, !.len = r.len + 1]]
    BY <1>3, <1>4, <1>5
  <1>7. PICK q : q = arr'[a]
    OBVIOUS
  <1>8. q = [room EXCEPT !.storage = Y, !.len = r.len + 1]
    BY <1>2, <1>6, <1>7 DEF IInv, TypeOK
  <1>9. q.storage = Y /\ q.len = r.len + 1
    BY <1>3, <1>8 DEF ArrayType
  <1>10. Content(q) = InsertAt(Content(r), idx + 1, e)
    BY <1>1, <1>2, <1>5, <1>9, StoreInserts
  <1> QED
    BY <1>1, <1>7, <1>10

\* A remove that changes the arrays removes the element.
LEMMA RemoveContent ==
    ASSUME IInv, arr' # arr, NEW a \in Live, NEW idx \in Nat, ref_array_remove(a, idx)
    PROVE  Content(arr'[a]) = RemoveAt(Content(arr[a]), idx + 1)
  <1>1. PICK r : r = arr[a]
    OBVIOUS
  <1>2. a \in Arrays /\ r \in ArrayType /\ Bounded(r)
    BY <1>1, ArrayFacts DEF Live
  <1>3. PICK Y : Y = ShiftLeft(r.storage, idx, r.len)
    OBVIOUS
  <1>4. idx < r.len /\ arr' = [arr EXCEPT ![a].storage = Y, ![a].len = @ - 1]
    BY <1>1, <1>3 DEF ref_array_remove, Untouched
  <1>5. PICK q : q = arr'[a]
    OBVIOUS
  <1>6. q = [r EXCEPT !.storage = Y, !.len = r.len - 1]
    BY <1>1, <1>2, <1>4, <1>5 DEF IInv, TypeOK
  <1>7. q.storage = Y /\ q.len = r.len - 1
    BY <1>2, <1>6 DEF ArrayType
  <1>8. Content(q) = RemoveAt(Content(r), idx + 1)
    BY <1>2, <1>3, <1>4, <1>7, ShiftRemoves
  <1> QED
    BY <1>1, <1>5, <1>8

\* A replace that changes the arrays replaces the element.
LEMMA ReplaceContent ==
    ASSUME IInv, arr' # arr, NEW a \in Live, NEW e \in Fresh, NEW idx \in Nat, idx < arr[a].len,
           ref_array_replace(a, idx, e)
    PROVE  Content(arr'[a]) = ReplaceAt(Content(arr[a]), idx + 1, e)
  <1>1. PICK r : r = arr[a]
    OBVIOUS
  <1>2. a \in Arrays /\ r \in ArrayType /\ Bounded(r)
    BY <1>1, ArrayFacts DEF Live
  <1>3. arr' = [arr EXCEPT ![a].storage[idx] = e] /\ idx \in Slots
    BY DEF ref_array_replace, Untouched
  <1>4. PICK q : q = arr'[a]
    OBVIOUS
  <1>5. q = [r EXCEPT !.storage[idx] = e]
    BY <1>1, <1>2, <1>3, <1>4 DEF IInv, TypeOK
  <1>6. r.storage \in Storage /\ r.len \in Nat /\ \A j \in 1..r.len : j - 1 \in Slots
    BY <1>2, ContentSeq
  <1>7. q.len = r.len /\ \A s \in Slots : q.storage[s] = IF s = idx THEN e ELSE r.storage[s]
    BY <1>2, <1>3, <1>5, <1>6 DEF ArrayType, Storage
  <1>8. Content(q) = [j \in 1..r.len |-> q.storage[j - 1]]
    BY <1>7 DEF Content
  <1>9. ReplaceAt(Content(r), idx + 1, e) = [j \in 1..r.len |-> IF j = idx + 1 THEN e ELSE r.storage[j - 1]]
    BY DEF ReplaceAt, Content
  <1>10. ASSUME NEW j \in 1..r.len
         PROVE  q.storage[j - 1] = IF j = idx + 1 THEN e ELSE r.storage[j - 1]
    <2>1. j - 1 \in Slots /\ (j - 1 = idx <=> j = idx + 1)
      BY <1>6
    <2> QED
      BY <2>1, <1>7
  <1> QED
    BY <1>1, <1>4, <1>8, <1>9, <1>10

\* A copy without callbacks holds what the array holds, which stays as it is.
LEMMA ShallowContent ==
    ASSUME IInv, NEW a \in Live, NEW b \in Arrays, ref_array_copy_shallow(a, b)
    PROVE  Content(arr'[a]) = Content(arr[a]) /\ Content(arr'[b]) = Content(arr[a])
  <1>1. PICK r : r = arr[a]
    OBVIOUS
  <1>2. PICK n : n = r.len
    OBVIOUS
  <1>3. PICK copies : copies = Content(r)
    OBVIOUS
  <1>4. PICK cb \in BOOLEAN : cb = FALSE
    OBVIOUS
  <1>5. PICK q : q = CopyOf(r, copies, n, cb)
    OBVIOUS
  <1>6. a \in Arrays /\ r # NULL /\ r \in ArrayType /\ Bounded(r)
    BY <1>1, ArrayFacts DEF Live
  <1>7. copies \in [1..n -> Elems]
    <2>1. copies \in Seq(Elems) /\ Len(copies) = n
      BY <1>2, <1>3, <1>6, ContentSeq
    <2> QED
      BY <2>1, LenProperties
  <1>8. Content(q) = copies
    BY <1>2, <1>5, <1>6, <1>7, CopiedElements
  <1>9. arr[b] = NULL /\ arr' = [arr EXCEPT ![b] = q]
    BY <1>1, <1>2, <1>3, <1>4, <1>5 DEF ref_array_copy_shallow
  <1>10. arr'[b] = q /\ arr'[a] = r
    BY <1>1, <1>6, <1>9 DEF IInv, TypeOK
  <1> QED
    BY <1>1, <1>3, <1>8, <1>10

\* Each operation changes the contents as its name on sequences says.
LEMMA NextContent ==
    ASSUME IInv, arr' # arr, NEW a \in Live \cap Live'
    PROVE  ContentStep(a)
  <1> DEFINE before == Content(arr[a])
             after == Content(arr'[a])
  <1>1. /\ before \in Seq(Elems) /\ Len(before) = arr[a].len /\ arr[a].len \in Nat
    BY ArrayFacts, ContentSeq DEF Live
  <1>2. ASSUME NEW e \in Fresh, ref_array_append(a, e) PROVE after = Append(before, e)
    <2>1. after = InsertAt(before, arr[a].len + 1, e)
      BY <1>1, <1>2, StoreContent DEF ref_array_append
    <2>2. PICK s \in Seq(Elems) : s = before
      BY <1>1
    <2>3. PICK i \in 1..(Len(s) + 1) : i = Len(s) + 1
      OBVIOUS
    <2>4. e \in Elems
      BY DEF Fresh
    <2>5. InsertAt(s, i, e) = [j \in 1..(Len(s) + 1) |->
                                  IF j < i THEN s[j] ELSE IF j = i THEN e ELSE s[j - 1]]
      BY <2>4, InsertAtIs
    <2>6. Append(s, e) = [j \in 1..(Len(s) + 1) |-> IF j <= Len(s) THEN s[j] ELSE e]
      BY <2>4, AppendIs
    <2>7. InsertAt(s, i, e) = Append(s, e)
      BY <2>3, <2>5, <2>6
    <2> QED
      BY <1>1, <2>1, <2>2, <2>3, <2>7
  <1>3. ASSUME NEW e \in Fresh, NEW i \in 0..Len(before), ref_array_insert(a, i, e)
        PROVE  after = InsertAt(before, i + 1, e)
    <2>1. i \in Nat /\ i <= arr[a].len /\ arr[a].len < MaxSlots /\ Store(a, i, e)
      BY <1>1, <1>3 DEF ref_array_insert, Untouched
    <2> QED
      BY <2>1, StoreContent
  <1>4. ASSUME NEW i \in 0..(Len(before) - 1)
        PROVE  /\ ref_array_remove(a, i) => after = RemoveAt(before, i + 1)
               /\ \A e \in Fresh : ref_array_replace(a, i, e) => after = ReplaceAt(before, i + 1, e)
    <2>1. i \in Nat /\ i < arr[a].len
      BY <1>1
    <2> QED
      BY <2>1, RemoveContent, ReplaceContent
  <1>5. ASSUME NEW b \in Arrays, ref_array_copy_shallow(a, b)
        PROVE  after = before /\ Content(arr'[b]) = before
    BY <1>5, ShallowContent
  <1> QED
    BY <1>2, <1>3, <1>4, <1>5 DEF ContentStep

\* As long as callers replace only elements that are there: append, insert,
\* remove, replace and copy change the contents of an array as the operations
\* of the same name on sequences do.
THEOREM ContentCorrect == ~ReplaceAtEnd /\ Spec => ContentIsSequence
  <1> SUFFICES ASSUME ~ReplaceAtEnd PROVE Spec => ContentIsSequence
    OBVIOUS
  <1>1. IInv /\ [Next]_vars => IInv'
    BY NextInv
  <1>2. IInv /\ [Next]_vars => [arr' # arr => \A a \in Live \cap Live' : ContentStep(a)]_vars
    BY NextContent
  <1> QED
    BY <1>1, <1>2, InitInv, PTL DEF Spec, ContentIsSequence

=============================================================================
