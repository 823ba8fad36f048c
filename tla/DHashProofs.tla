---------------------------- MODULE DHashProofs ----------------------------
(***************************************************************************)
(* Theorems about DHash for every set of keys, every hash function, every  *)
(* width of address_t and every table size and load factor: first where    *)
(* the elements are, then what the table holds (which entries, how many,   *)
(* which of them an iteration has still to return), from which it follows  *)
(* that DHash implements DHashMap and that the load is bounded.            *)
(***************************************************************************)
EXTENDS DHash, FiniteSetTheorems, TLAPS

-----------------------------------------------------------------------------
(* Remainders *)

\* Division with remainder.
LEMMA DivMod ==
    ASSUME NEW a \in Nat, NEW s \in Nat \ {0}
    PROVE  /\ a = (a \div s) * s + (a % s)
           /\ a \div s \in Nat
           /\ a % s \in 0..(s - 1)
  OBVIOUS

\* Multiplication by a natural is monotone.
LEMMA TimesMonotone ==
    ASSUME NEW x \in Int, NEW y \in Int, NEW s \in Nat, x <= y
    PROVE  x * s <= y * s
  OBVIOUS

\* A smaller quotient makes a smaller number, whatever the remainders.
LEMMA QuotientOrder ==
    ASSUME NEW s \in Nat \ {0},
           NEW q1 \in Nat, NEW r1 \in 0..(s - 1),
           NEW q2 \in Nat, NEW r2 \in 0..(s - 1), q1 < q2
    PROVE  q1 * s + r1 < q2 * s + r2
  <1>1. (q1 + 1) * s <= q2 * s
    BY TimesMonotone
  <1>2. (q1 + 1) * s = q1 * s + s
    OBVIOUS
  <1> QED
    BY <1>1, <1>2

\* Quotient and remainder are unique.
LEMMA DivModUnique ==
    ASSUME NEW s \in Nat \ {0}, NEW q \in Nat, NEW r \in 0..(s - 1),
           NEW a \in Nat, a = q * s + r
    PROVE  a % s = r /\ a \div s = q
  <1>1. PICK q2 \in Nat, r2 \in 0..(s - 1) :
           a = q2 * s + r2 /\ a \div s = q2 /\ a % s = r2
    BY DivMod
  <1>2. ~(q2 < q) /\ ~(q < q2)
    BY <1>1, QuotientOrder
  <1>3. q2 = q
    BY <1>2
  <1> QED
    BY <1>1, <1>3

\* A multiple has no remainder.
LEMMA MultipleMod ==
    ASSUME NEW s \in Nat \ {0}, NEW q \in Nat
    PROVE  (q * s) % s = 0
  <1> DEFINE a == q * s
  <1>1. a \in Nat /\ a = q * s + 0 /\ 0 \in 0..(s - 1)
    OBVIOUS
  <1> HIDE DEF a
  <1>2. a % s = 0
    BY <1>1, DivModUnique
  <1> QED
    BY <1>2 DEF a

\* Doubling the modulus keeps a remainder or moves it up by the old modulus.
LEMMA DoubleMod ==
    ASSUME NEW h \in Nat, NEW m \in Nat \ {0}
    PROVE  h % (2 * m) = h % m \/ h % (2 * m) = (h % m) + m
  <1>1. PICK q \in Nat, r \in 0..(m - 1) : h = q * m + r /\ h % m = r
    BY DivMod
  <1>2. PICK k \in Nat : q = 2 * k \/ q = 2 * k + 1
    <2>1. q = (q \div 2) * 2 + (q % 2) /\ q \div 2 \in Nat /\ q % 2 \in 0..1
      BY DivMod
    <2> QED
      BY <2>1
  <1>3. CASE q = 2 * k
    <2>1. h = k * (2 * m) + r
      BY <1>1, <1>3
    <2>2. h % (2 * m) = r
      BY <2>1, DivModUnique
    <2> QED
      BY <2>2, <1>1
  <1>4. CASE q = 2 * k + 1
    <2>1. h = k * (2 * m) + (m + r)
      BY <1>1, <1>4
    <2>2. h % (2 * m) = m + r
      BY <2>1, DivModUnique
    <2> QED
      BY <2>2, <1>1
  <1> QED
    BY <1>2, <1>3, <1>4

-----------------------------------------------------------------------------
(* Addresses under linear hashing *)

\* The address hash() computes from a hash code and the split's position.
Addr(h, m, p) == IF h % m < p THEN h % (2 * m) ELSE h % m

\* The split's position after splitting bucket p of a table at (m, p).
NextM(m, p) == IF p + 1 = m THEN 2 * m ELSE m
NextP(m, p) == IF p + 1 = m THEN 0 ELSE p + 1

\* hash() as the remainder with respect to the level of the split.
LEMMA HashIsAddr ==
    ASSUME NEW t, NEW k PROVE hash(t, k) = Addr(HashOf[k], t.maxp, t.p)
  BY DEF hash, Addr

\* hash() stays below maxp + p, the number of buckets.
LEMMA AddrInRange ==
    ASSUME NEW h \in Nat, NEW m \in Nat \ {0}, NEW p \in Nat, p < m
    PROVE  Addr(h, m, p) \in 0..(m + p - 1)
  <1>1. h % m \in 0..(m - 1)
    BY DivMod
  <1>2. h % (2 * m) = h % m \/ h % (2 * m) = (h % m) + m
    BY DoubleMod
  <1> QED
    BY <1>1, <1>2 DEF Addr

\* Splitting bucket p sends its keys to p or to m + p and moves no other key.
LEMMA SplitMoves ==
    ASSUME NEW h \in Nat, NEW m \in Nat \ {0}, NEW p \in Nat, p < m
    PROVE  /\ Addr(h, m, p) = p => Addr(h, NextM(m, p), NextP(m, p)) \in {p, m + p}
           /\ Addr(h, m, p) # p => Addr(h, NextM(m, p), NextP(m, p)) = Addr(h, m, p)
  <1>1. h % m \in 0..(m - 1)
    BY DivMod
  <1>2. h % (2 * m) = h % m \/ h % (2 * m) = (h % m) + m
    BY DoubleMod
  <1>3. CASE p + 1 = m
    <2>1. Addr(h, NextM(m, p), NextP(m, p)) = h % (2 * m)
      <3>1. h % (2 * m) \in Nat
        BY <1>1, <1>2
      <3> QED
        BY <1>3, <3>1 DEF Addr, NextM, NextP
    <2> QED
      BY <2>1, <1>1, <1>2, <1>3 DEF Addr
  <1>4. CASE p + 1 # m
    BY <1>1, <1>2, <1>4 DEF Addr, NextM, NextP
  <1> QED
    BY <1>3, <1>4

\* Merging the last bucket undoes the split of bucket p: its keys go back to
\* p and no other key moves.
LEMMA MergeMoves ==
    ASSUME NEW h \in Nat, NEW m \in Nat \ {0}, NEW p \in Nat, p < m
    PROVE  /\ Addr(h, NextM(m, p), NextP(m, p)) = m + p => Addr(h, m, p) = p
           /\ Addr(h, NextM(m, p), NextP(m, p)) # m + p =>
                 Addr(h, m, p) = Addr(h, NextM(m, p), NextP(m, p))
  BY SplitMoves, AddrInRange

-----------------------------------------------------------------------------
(* Tables *)

IsTable(t) == \E d, s \in 1..AddrBits : t \in TableType(d, s)
TableOK(t) == IsTable(t) /\ ShapeOf(t) /\ SegmentsOf(t) /\ PlacedOf(t)

\* A shift is a positive number.
LEMMA BitNat ==
    /\ AddrBits \in Nat
    /\ \A i \in Int : 0 <= i /\ i <= AddrBits => Bit[i] \in Nat \ {0}
  BY BitType

\* What the proofs below use of the sizes of a table.
LEMMA SizeFacts ==
    ASSUME NEW t, IsTable(t), ShapeOf(t)
    PROVE  /\ directory_size(t) \in Nat \ {0}
           /\ segment_size(t) \in Nat \ {0}
           /\ Capacity(t) = directory_size(t) * segment_size(t)
           /\ Capacity(t) \in Nat \ {0}
           /\ DOMAIN t.directory = 0..(directory_size(t) - 1)
           /\ DOMAIN t.chain = Addresses(t)
           /\ \A a \in Addresses(t) : t.chain[a] \in SUBSET Element
           /\ t.maxp \in Nat \ {0}
           /\ t.p \in Nat /\ t.bucket_count \in Nat /\ t.segment_count \in Nat
  <1>1. PICK d, s \in 1..AddrBits : t \in TableType(d, s)
    BY DEF IsTable
  <1>2. t.directory_size_shift = d /\ t.segment_size_shift = s
    BY <1>1 DEF TableType
  <1>3. Bit[d] \in Nat \ {0} /\ Bit[s] \in Nat \ {0}
    BY <1>1, BitNat
  <1>4. directory_size(t) = Bit[d] /\ segment_size(t) = Bit[s]
    BY <1>2 DEF directory_size, segment_size
  <1>5. Capacity(t) \in Nat \ {0}
    BY <1>3, <1>4 DEF Capacity
  <1>6. t.maxp \in Nat \ {0}
    <2>1. PICK i \in t.segment_size_shift..AddrBits : t.maxp = Bit[i]
      BY DEF ShapeOf
    <2> QED
      BY <2>1, <1>1, <1>2, BitNat
  <1>7. /\ t.directory \in [0..(Bit[d] - 1) -> {"null", "live", "freed"}]
        /\ t.chain \in [0..(Bit[d] * Bit[s] - 1) -> SUBSET Element]
        /\ t.p \in Nat /\ t.bucket_count \in Nat /\ t.segment_count \in Nat
    BY <1>1 DEF TableType
  <1> QED
    BY <1>3, <1>4, <1>5, <1>6, <1>7 DEF Capacity, Addresses

\* Every key addresses an existing bucket.
LEMMA HashInRange ==
    ASSUME NEW t, IsTable(t), ShapeOf(t), NEW k \in Keys
    PROVE  hash(t, k) \in 0..(t.bucket_count - 1) /\ hash(t, k) \in Addresses(t)
  <1>1. hash(t, k) \in 0..(t.maxp + t.p - 1)
    <2>1. HashOf[k] \in Nat
      BY HashAssumption
    <2> QED
      BY <2>1, SizeFacts, HashIsAddr, AddrInRange DEF ShapeOf
  <1>2. /\ t.maxp \in Nat /\ t.p \in Nat /\ Capacity(t) \in Nat
        /\ t.bucket_count = t.maxp + t.p /\ t.bucket_count <= Capacity(t)
    BY SizeFacts DEF ShapeOf
  <1> QED
    BY <1>1, <1>2 DEF Addresses

\* A table that differs from a good one only in its chains and its number of
\* entries is good when every element is on the chain it hashes to.
LEMMA SameShape ==
    ASSUME NEW t, TableOK(t),
           NEW n \in Int, NEW c \in [Addresses(t) -> SUBSET Element],
           \A a \in Addresses(t) : \A e \in c[a] : hash(t, e.key) = a
    PROVE  TableOK([t EXCEPT !.chain = c, !.entry_count = n])
  <1> DEFINE u == [t EXCEPT !.chain = c, !.entry_count = n]
  <1>1. PICK d, s \in 1..AddrBits : t \in TableType(d, s)
    BY DEF TableOK, IsTable
  <1>2. c \in [0..(Bit[d] * Bit[s] - 1) -> SUBSET Element]
    BY <1>1 DEF TableType, Addresses, Capacity, directory_size, segment_size
  <1>3. u \in TableType(d, s)
    BY <1>1, <1>2 DEF TableType
  <1>4. /\ u.p = t.p /\ u.maxp = t.maxp /\ u.bucket_count = t.bucket_count
        /\ u.segment_count = t.segment_count /\ u.directory = t.directory
        /\ u.directory_size_shift = t.directory_size_shift
        /\ u.segment_size_shift = t.segment_size_shift
        /\ u.chain = c
    BY <1>1 DEF TableType
  <1> HIDE DEF u
  <1>5. segment_size(u) = segment_size(t) /\ Capacity(u) = Capacity(t) /\ Addresses(u) = Addresses(t)
    BY <1>4 DEF segment_size, directory_size, Capacity, Addresses
  <1>6. IsTable(u)
    BY <1>3 DEF IsTable
  <1>7. ShapeOf(u)
    BY <1>4, <1>5 DEF TableOK, ShapeOf
  <1>8. SegmentsOf(u)
    BY <1>4, <1>5 DEF TableOK, SegmentsOf
  <1>9. PlacedOf(u)
    BY <1>4, <1>5 DEF PlacedOf, hash
  <1> QED
    BY <1>6, <1>7, <1>8, <1>9 DEF TableOK, u

\* Linking a new element keeps the table well-formed (hash_enter).
LEMMA LinkOK ==
    ASSUME NEW t, TableOK(t), NEW k \in Keys, NEW v \in Values \cup {UNDEF}
    PROVE  TableOK(Link(t, k, v))
  <1> DEFINE e == [key |-> k, value |-> v]
             c == [t.chain EXCEPT ![hash(t, k)] = @ \cup {e}]
  <1>1. /\ hash(t, k) \in Addresses(t) /\ DOMAIN t.chain = Addresses(t)
        /\ \A a \in Addresses(t) : t.chain[a] \in SUBSET Element
    BY HashInRange, SizeFacts DEF TableOK
  <1>2. e \in Element /\ e.key = k
    BY DEF Element
  <1>3. c \in [Addresses(t) -> SUBSET Element]
    BY <1>1, <1>2
  <1>4. \A a \in Addresses(t) : \A x \in c[a] : hash(t, x.key) = a
    BY <1>1, <1>2 DEF TableOK, PlacedOf
  <1>5. t.entry_count + 1 \in Int
    BY DEF TableOK, IsTable, TableType
  <1> HIDE DEF c
  <1>6. TableOK([t EXCEPT !.chain = c, !.entry_count = t.entry_count + 1])
    BY <1>3, <1>4, <1>5, SameShape
  <1> QED
    BY <1>6 DEF Link, c

\* So does unlinking one (hash_delete).
LEMMA UnlinkOK ==
    ASSUME NEW t, TableOK(t), NEW k \in Keys, NEW e \in lookup(t, k)
    PROVE  TableOK(Unlink(t, e)) /\ e \in Element
  <1> DEFINE c == [t.chain EXCEPT ![hash(t, e.key)] = @ \ {e}]
  <1>1. /\ hash(t, k) \in Addresses(t) /\ DOMAIN t.chain = Addresses(t)
        /\ \A a \in Addresses(t) : t.chain[a] \in SUBSET Element
    BY HashInRange, SizeFacts DEF TableOK
  <1>2. e.key = k /\ e \in Element
    BY <1>1 DEF lookup
  <1>3. c \in [Addresses(t) -> SUBSET Element]
    BY <1>1, <1>2
  <1>4. \A a \in Addresses(t) : \A x \in c[a] : hash(t, x.key) = a
    BY <1>1, <1>2 DEF TableOK, PlacedOf
  <1>5. t.entry_count - 1 \in Int
    BY DEF TableOK, IsTable, TableType
  <1> HIDE DEF c
  <1>6. TableOK([t EXCEPT !.chain = c, !.entry_count = t.entry_count - 1])
    BY <1>3, <1>4, <1>5, SameShape
  <1> QED
    BY <1>2, <1>6 DEF Unlink, c

\* So does overwriting a value (hash_enter on a present key).
LEMMA SetValueOK ==
    ASSUME NEW t, TableOK(t), NEW k \in Keys, NEW e \in lookup(t, k), NEW v \in Values
    PROVE  TableOK(SetValue(t, e, v)) /\ e \in Element
  <1> DEFINE f == [e EXCEPT !.value = v]
             c == [t.chain EXCEPT ![hash(t, e.key)] = (@ \ {e}) \cup {f}]
  <1>1. /\ hash(t, k) \in Addresses(t) /\ DOMAIN t.chain = Addresses(t)
        /\ \A a \in Addresses(t) : t.chain[a] \in SUBSET Element
    BY HashInRange, SizeFacts DEF TableOK
  <1>2. e.key = k /\ e \in Element
    BY <1>1 DEF lookup
  <1>3. f \in Element /\ f.key = k
    BY <1>2 DEF Element
  <1>4. c \in [Addresses(t) -> SUBSET Element]
    BY <1>1, <1>2, <1>3
  <1>5. \A a \in Addresses(t) : \A x \in c[a] : hash(t, x.key) = a
    BY <1>1, <1>2, <1>3 DEF TableOK, PlacedOf
  <1>6. t.entry_count \in Int /\ [t EXCEPT !.chain = c, !.entry_count = t.entry_count] = [t EXCEPT !.chain = c]
    BY DEF TableOK, IsTable, TableType
  <1>7. TableOK([t EXCEPT !.chain = c, !.entry_count = t.entry_count])
    BY <1>4, <1>5, <1>6, SameShape
  <1> QED
    BY <1>2, <1>6, <1>7 DEF SetValue

-----------------------------------------------------------------------------
(* Expanding *)

\* The new bucket opens a new segment exactly when the allocated ones are
\* full, and the directory has a slot for it.
LEMMA NewSegment ==
    ASSUME NEW t, TableOK(t), HasRoom(t)
    PROVE  /\ NeedsSegment(t) => /\ t.bucket_count = t.segment_count * segment_size(t)
                                 /\ SegmentOf(t, t.maxp + t.p) = t.segment_count
                                 /\ t.segment_count \in DOMAIN t.directory
           /\ ~NeedsSegment(t) => t.bucket_count < t.segment_count * segment_size(t)
  <1> DEFINE b == t.bucket_count
             s == segment_size(t)
             n == t.segment_count
  <1>1. /\ b \in Nat /\ s \in Nat \ {0} /\ n \in Nat /\ directory_size(t) \in Nat \ {0}
        /\ Capacity(t) = directory_size(t) * s
        /\ DOMAIN t.directory = 0..(directory_size(t) - 1)
    BY SizeFacts DEF TableOK
  <1>2. t.maxp + t.p = b /\ (n - 1) * s < b /\ b <= n * s
    BY DEF TableOK, ShapeOf, SegmentsOf
  <1>3. b < directory_size(t) * s
    BY <1>1 DEF HasRoom
  <1>4. NeedsSegment(t) <=> b % s = 0
    BY <1>2 DEF NeedsSegment
  <1>5. SegmentOf(t, t.maxp + t.p) = b \div s
    BY <1>2 DEF SegmentOf
  <1> HIDE DEF b, s, n
  <1>6. PICK q \in Nat, r \in 0..(s - 1) : b = q * s + r /\ b \div s = q /\ b % s = r
    BY <1>1, DivMod
  <1>7. CASE r = 0
    <2>1. ~(q <= n - 1)
      BY <1>1, <1>2, <1>6, <1>7, TimesMonotone
    <2>2. ~(n + 1 <= q)
      <3> SUFFICES ASSUME n + 1 <= q PROVE FALSE
        OBVIOUS
      <3>1. (n + 1) * s = n * s + s
        BY <1>1
      <3>2. (n + 1) * s <= q * s
        BY <1>1, <1>6, TimesMonotone
      <3>3. b = q * s
        BY <1>1, <1>6, <1>7
      <3> DEFINE ns == n * s
                 qs == q * s
      <3>4. ns \in Int /\ qs \in Int /\ s \in Nat \ {0} /\ ns + s <= qs /\ qs <= ns
        BY <3>1, <3>2, <3>3, <1>1, <1>2, <1>6
      <3> HIDE DEF ns, qs
      <3> QED
        BY <3>4
    <2>3. q = n
      BY <2>1, <2>2, <1>1, <1>6
    <2>4. ~(directory_size(t) <= n)
      BY <2>3, <1>1, <1>3, <1>6, <1>7, TimesMonotone
    <2> QED
      BY <2>3, <2>4, <1>1, <1>4, <1>5, <1>6, <1>7 DEF b, s, n
  <1>8. CASE r # 0
    <2>1. b # n * s
      <3> SUFFICES ASSUME b = n * s PROVE FALSE
        OBVIOUS
      <3>1. b % s = 0
        BY <1>1, MultipleMod
      <3> QED
        BY <3>1, <1>6, <1>8
    <2>2. n * s \in Nat
      BY <1>1
    <2>3. b < n * s
      BY <2>1, <2>2, <1>1, <1>2
    <2>4. ~NeedsSegment(t)
      BY <1>4, <1>6, <1>8
    <2> QED
      BY <2>3, <2>4 DEF b, s, n
  <1> QED
    BY <1>7, <1>8

\* maxp can be doubled while the table has room: it stays a bit of address_t.
LEMMA DoubleLevel ==
    ASSUME NEW t, IsTable(t), ShapeOf(t), HasRoom(t)
    PROVE  \E i \in t.segment_size_shift..AddrBits : 2 * t.maxp = Bit[i]
  <1>1. PICK d, s \in 1..AddrBits : t \in TableType(d, s)
    BY DEF IsTable
  <1>2. /\ t.directory_size_shift = d /\ t.segment_size_shift = s
        /\ t.maxp \in Nat /\ t.p \in Nat
    BY <1>1 DEF TableType
  <1>3. PICK i \in s..AddrBits : t.maxp = Bit[i]
    BY <1>2 DEF ShapeOf
  <1>4. d + s <= AddrBits /\ t.bucket_count = t.maxp + t.p
    BY <1>2 DEF ShapeOf
  <1>5. Capacity(t) = Bit[d + s]
    BY <1>1, <1>2, <1>4, BitType, BitProduct DEF Capacity, directory_size, segment_size
  <1>6. Bit[i] < Bit[d + s]
    <2>1. Bit[i] \in Nat /\ Bit[d + s] \in Nat
      BY <1>1, <1>3, <1>4, BitNat
    <2> QED
      BY <2>1, <1>2, <1>3, <1>4, <1>5 DEF HasRoom
  <1>7. i < d + s
    <2> SUFFICES ASSUME d + s <= i PROVE FALSE
      BY <1>1, <1>3, BitType
    <2>1. i \in 0..AddrBits /\ d + s \in 0..AddrBits
      BY <1>1, <1>3, <1>4, BitType
    <2>2. Bit[i] \in Nat /\ Bit[d + s] \in Nat
      BY <2>1, BitType
    <2>3. d + s = i \/ d + s < i
      BY <2>1
    <2> QED
      BY <2>1, <2>2, <2>3, <1>6, BitOrder
  <1>8. i + 1 \in s..AddrBits /\ Bit[i + 1] = 2 * Bit[i]
    <2>1. i \in 0..(AddrBits - 1)
      BY <1>1, <1>3, <1>4, <1>7, BitType
    <2> QED
      BY <2>1, <1>1, <1>3, BitType, BitDouble
  <1> QED
    BY <1>2, <1>3, <1>8

\* Allocating the segment: the counters of the split stay, the chains only
\* lose elements.
LEMMA AddSegmentFields ==
    ASSUME NEW t, TableOK(t), HasRoom(t), NEW g,
           g = IF NeedsSegment(t) THEN AddSegment(t) ELSE t
    PROVE  /\ IsTable(g)
           /\ g.p = t.p /\ g.maxp = t.maxp /\ g.bucket_count = t.bucket_count
           /\ g.directory_size_shift = t.directory_size_shift
           /\ g.segment_size_shift = t.segment_size_shift
           /\ \A a \in Addresses(t) : g.chain[a] \subseteq t.chain[a]
           /\ \A d \in DOMAIN g.directory : (g.directory[d] = "live") <=> (d < g.segment_count)
           /\ (g.segment_count - 1) * segment_size(t) < t.bucket_count + 1
           /\ t.bucket_count + 1 <= g.segment_count * segment_size(t)
  <1>1. PICK d, s \in 1..AddrBits : t \in TableType(d, s)
    BY DEF TableOK, IsTable
  <1>2. /\ t.bucket_count \in Nat /\ t.segment_count \in Nat /\ segment_size(t) \in Nat \ {0}
        /\ DOMAIN t.chain = Addresses(t)
        /\ \A a \in Addresses(t) : t.chain[a] \in SUBSET Element
    BY SizeFacts DEF TableOK
  <1>3. /\ \A x \in DOMAIN t.directory : (t.directory[x] = "live") <=> (x < t.segment_count)
        /\ (t.segment_count - 1) * segment_size(t) < t.bucket_count
    BY DEF TableOK, SegmentsOf
  <1>4. CASE ~NeedsSegment(t)
    <2>1. g = t /\ t.bucket_count < t.segment_count * segment_size(t)
      BY <1>4, NewSegment
    <2>2. t.segment_count * segment_size(t) \in Nat /\ (t.segment_count - 1) * segment_size(t) \in Int
      BY <1>2
    <2>3. /\ (t.segment_count - 1) * segment_size(t) < t.bucket_count + 1
          /\ t.bucket_count + 1 <= t.segment_count * segment_size(t)
      BY <2>1, <2>2, <1>2, <1>3
    <2> QED
      BY <2>1, <2>3, <1>3 DEF TableOK
  <1>5. CASE NeedsSegment(t)
    <2> DEFINE n == t.segment_count
               c == [a \in DOMAIN t.chain |-> IF SegmentOf(t, a) = n THEN {} ELSE t.chain[a]]
               dir == [t.directory EXCEPT ![n] = "live"]
    <2>1. /\ t.bucket_count = n * segment_size(t) /\ n \in DOMAIN t.directory
          /\ SegmentOf(t, t.maxp + t.p) = n
      BY <1>5, NewSegment
    <2>2. g = [t EXCEPT !.directory = dir, !.segment_count = n + 1, !.chain = c]
      BY <1>5, <2>1 DEF AddSegment
    <2>3. /\ c \in [DOMAIN t.chain -> SUBSET Element]
          /\ \A a \in DOMAIN t.chain : c[a] \subseteq t.chain[a]
          /\ dir \in [DOMAIN t.directory -> {"null", "live", "freed"}]
          /\ n + 1 \in Nat
      <3>1. t.directory \in [DOMAIN t.directory -> {"null", "live", "freed"}]
        BY <1>1 DEF TableType
      <3>2. dir \in [DOMAIN t.directory -> {"null", "live", "freed"}]
        BY <3>1
      <3>3. c \in [DOMAIN t.chain -> SUBSET Element] /\ \A a \in DOMAIN t.chain : c[a] \subseteq t.chain[a]
        BY <1>2
      <3> QED
        BY <3>2, <3>3, <1>2
    <2> HIDE DEF c, dir
    <2>4. /\ g \in TableType(d, s)
          /\ g.p = t.p /\ g.maxp = t.maxp /\ g.bucket_count = t.bucket_count
          /\ g.directory_size_shift = t.directory_size_shift
          /\ g.segment_size_shift = t.segment_size_shift
          /\ g.chain = c /\ g.segment_count = n + 1
          /\ g.directory = dir
      BY <1>1, <2>1, <2>2, <2>3 DEF TableType
    <2>5. \A x \in DOMAIN g.directory : (g.directory[x] = "live") <=> (x < g.segment_count)
      <3>1. DOMAIN t.directory \subseteq Int
        BY <1>1, BitNat DEF TableType
      <3> QED
        BY <3>1, <1>2, <1>3, <2>1, <2>4 DEF dir
    <2>6. /\ (g.segment_count - 1) * segment_size(t) < t.bucket_count + 1
          /\ t.bucket_count + 1 <= g.segment_count * segment_size(t)
      <3>1. (n + 1) - 1 = n /\ (n + 1) * segment_size(t) = n * segment_size(t) + segment_size(t)
        BY <1>2
      <3> QED
        BY <3>1, <2>1, <2>4, <1>2
    <2>7. IsTable(g)
      BY <2>4 DEF IsTable
    <2> QED
      BY <2>3, <2>4, <2>5, <2>6, <2>7, <1>2
  <1> QED
    BY <1>4, <1>5

\* expand_table keeps a table good.
LEMMA ExpandOK ==
    ASSUME NEW t, TableOK(t)
    PROVE  TableOK(expand_table(t))
  <1>1. CASE ~HasRoom(t)
    BY <1>1 DEF expand_table
  <1>2. CASE HasRoom(t)
    <2> DEFINE g == IF NeedsSegment(t) THEN AddSegment(t) ELSE t
               h == AdvanceSplit(g)
               new == t.maxp + t.p
               moved == {e \in h.chain[t.p] : hash(h, e.key) = new}
               c == [h.chain EXCEPT ![t.p] = @ \ moved, ![new] = moved]
               u == [h EXCEPT !.chain = c]
    <2>1. expand_table(t) = u
      <3>1. expand_table(t) = Relocate(h, t.p, new)
        BY <1>2 DEF expand_table
      <3> QED
        BY <3>1 DEF Relocate
    <2>2. /\ t.maxp \in Nat \ {0} /\ t.p \in Nat /\ t.p < t.maxp
          /\ t.bucket_count = new /\ new < Capacity(t) /\ Capacity(t) \in Nat
      BY <1>2, SizeFacts DEF TableOK, ShapeOf, HasRoom
    <2>3. /\ IsTable(g)
          /\ g.p = t.p /\ g.maxp = t.maxp /\ g.bucket_count = t.bucket_count
          /\ g.directory_size_shift = t.directory_size_shift
          /\ g.segment_size_shift = t.segment_size_shift
          /\ \A a \in Addresses(t) : g.chain[a] \subseteq t.chain[a]
          /\ \A d \in DOMAIN g.directory : (g.directory[d] = "live") <=> (d < g.segment_count)
          /\ (g.segment_count - 1) * segment_size(t) < t.bucket_count + 1
          /\ t.bucket_count + 1 <= g.segment_count * segment_size(t)
      BY <1>2, AddSegmentFields
    <2> HIDE DEF g
    <2>4. PICK d, s \in 1..AddrBits : g \in TableType(d, s)
      BY <2>3 DEF IsTable
    <2>5. /\ h \in TableType(d, s)
          /\ h.p = NextP(t.maxp, t.p) /\ h.maxp = NextM(t.maxp, t.p)
          /\ h.bucket_count = t.bucket_count + 1
          /\ h.directory_size_shift = t.directory_size_shift
          /\ h.segment_size_shift = t.segment_size_shift
          /\ h.segment_count = g.segment_count /\ h.directory = g.directory
          /\ h.chain = g.chain
      <3>1. /\ t.p + 1 \in Nat /\ 2 * t.maxp \in Nat /\ t.bucket_count + 1 \in Nat
            /\ t.maxp \in Nat /\ t.p \in Nat
        BY <2>2
      <3>2. CASE t.p + 1 = t.maxp
        <4>1. h = [g EXCEPT !.p = 0, !.maxp = 2 * t.maxp, !.bucket_count = t.bucket_count + 1]
          BY <3>2, <2>3 DEF AdvanceSplit
        <4>2. NextP(t.maxp, t.p) = 0 /\ NextM(t.maxp, t.p) = 2 * t.maxp
          BY <3>2 DEF NextP, NextM
        <4> HIDE DEF h
        <4> QED
          BY <4>1, <4>2, <3>1, <2>3, <2>4 DEF TableType
      <3>3. CASE t.p + 1 # t.maxp
        <4>1. h = [g EXCEPT !.p = t.p + 1, !.bucket_count = t.bucket_count + 1]
          BY <3>3, <2>3 DEF AdvanceSplit
        <4>2. NextP(t.maxp, t.p) = t.p + 1 /\ NextM(t.maxp, t.p) = t.maxp
          BY <3>3 DEF NextP, NextM
        <4> HIDE DEF h
        <4> QED
          BY <4>1, <4>2, <3>1, <2>3, <2>4 DEF TableType
      <3> QED
        BY <3>2, <3>3
    <2>6. /\ Addresses(t) = 0..(Bit[d] * Bit[s] - 1)
          /\ h.chain \in [Addresses(t) -> SUBSET Element]
          /\ t.p \in Addresses(t) /\ new \in Addresses(t) /\ t.p # new
      <3>1. t.directory_size_shift = d /\ t.segment_size_shift = s
        BY <2>3, <2>4 DEF TableType
      <3>2. Addresses(t) = 0..(Bit[d] * Bit[s] - 1)
        BY <3>1 DEF Addresses, Capacity, directory_size, segment_size
      <3>3. h.chain \in [Addresses(t) -> SUBSET Element]
        BY <3>2, <2>5 DEF TableType
      <3>4. t.p \in Addresses(t) /\ new \in Addresses(t) /\ t.p # new
        BY <2>2 DEF Addresses
      <3> QED
        BY <3>2, <3>3, <3>4
    <2> HIDE DEF h, moved
    <2>7. c \in [Addresses(t) -> SUBSET Element]
      BY <2>6 DEF moved
    <2> HIDE DEF c
    <2>8. /\ u \in TableType(d, s)
          /\ u.p = h.p /\ u.maxp = h.maxp /\ u.bucket_count = h.bucket_count
          /\ u.directory_size_shift = t.directory_size_shift
          /\ u.segment_size_shift = t.segment_size_shift
          /\ u.segment_count = g.segment_count /\ u.directory = g.directory
          /\ u.chain = c
      BY <2>5, <2>6, <2>7 DEF TableType
    <2> HIDE DEF u
    <2>9. Capacity(u) = Capacity(t) /\ Addresses(u) = Addresses(t) /\ segment_size(u) = segment_size(t)
      BY <2>8 DEF Capacity, Addresses, directory_size, segment_size
    <2>10. IsTable(u)
      BY <2>8 DEF IsTable
    <2>11. ShapeOf(u)
      <3>1. /\ \E i \in t.segment_size_shift..AddrBits : t.maxp = Bit[i]
            /\ \E i \in t.segment_size_shift..AddrBits : 2 * t.maxp = Bit[i]
            /\ t.directory_size_shift + t.segment_size_shift <= AddrBits
        BY <1>2, DoubleLevel DEF TableOK, ShapeOf
      <3>2. \E i \in u.segment_size_shift..AddrBits : u.maxp = Bit[i]
        BY <3>1, <2>5, <2>8 DEF NextM
      <3>3. u.p < u.maxp /\ u.bucket_count = u.maxp + u.p /\ u.bucket_count <= Capacity(u)
        BY <2>2, <2>5, <2>8, <2>9 DEF NextM, NextP
      <3> QED
        BY <3>1, <3>2, <3>3, <2>8 DEF ShapeOf
    <2>12. SegmentsOf(u)
      BY <2>3, <2>5, <2>8, <2>9 DEF SegmentsOf
    <2>13. PlacedOf(u)
      <3> SUFFICES ASSUME NEW a \in Addresses(t), NEW e \in c[a] PROVE hash(u, e.key) = a
        BY <2>8, <2>9 DEF PlacedOf
      <3>1. hash(u, e.key) = hash(h, e.key)
        BY <2>8 DEF hash
      <3>2. /\ hash(h, e.key) = Addr(HashOf[e.key], NextM(t.maxp, t.p), NextP(t.maxp, t.p))
            /\ hash(t, e.key) = Addr(HashOf[e.key], t.maxp, t.p)
        BY <2>5, HashIsAddr
      <3>3. CASE a = new
        BY <3>1, <3>3, <2>6 DEF c, moved
      <3>4. CASE a # new
        <4>1. e \in h.chain[a] /\ (a = t.p => e \notin moved)
          BY <3>4, <2>6 DEF c
        <4>2. e \in t.chain[a]
          BY <4>1, <2>3, <2>5
        <4>3. hash(t, e.key) = a
          BY <4>2 DEF TableOK, PlacedOf
        <4>4. e.key \in Keys /\ HashOf[e.key] \in Nat
          <5>1. e \in Element
            BY <4>1, <2>6
          <5> QED
            BY <5>1, HashAssumption DEF Element
        <4>5. /\ a = t.p => hash(h, e.key) \in {t.p, new}
              /\ a # t.p => hash(h, e.key) = a
          BY <4>3, <4>4, <3>2, <2>2, SplitMoves
        <4> QED
          BY <4>1, <4>5, <3>1 DEF moved
      <3> QED
        BY <3>3, <3>4
    <2> QED
      BY <2>1, <2>10, <2>11, <2>12, <2>13 DEF TableOK, u
  <1> QED
    BY <1>1, <1>2

\* A failed allocation leaves a good table: the slot it clears was not live.
LEMMA ExpandFailedOK ==
    ASSUME NEW t, TableOK(t), HasRoom(t), NeedsSegment(t)
    PROVE  TableOK(ExpandFailed(t))
  <1> DEFINE n == t.segment_count
             dir == [t.directory EXCEPT ![n] = "null"]
             u == [t EXCEPT !.directory = dir]
  <1>1. n \in DOMAIN t.directory /\ SegmentOf(t, t.maxp + t.p) = n
    BY NewSegment
  <1>2. ExpandFailed(t) = u
    BY <1>1 DEF ExpandFailed
  <1>3. PICK d, s \in 1..AddrBits : t \in TableType(d, s)
    BY DEF TableOK, IsTable
  <1>4. t.directory \in [0..(Bit[d] - 1) -> {"null", "live", "freed"}] /\ n \in Nat
    BY <1>3 DEF TableType
  <1>5. dir \in [0..(Bit[d] - 1) -> {"null", "live", "freed"}]
    BY <1>4
  <1>6. \A x \in DOMAIN dir : (dir[x] = "live") <=> (x < n)
    BY <1>1, <1>4 DEF TableOK, SegmentsOf
  <1> HIDE DEF dir
  <1>7. /\ u \in TableType(d, s)
        /\ u.p = t.p /\ u.maxp = t.maxp /\ u.bucket_count = t.bucket_count
        /\ u.segment_count = n /\ u.directory = dir /\ u.chain = t.chain
        /\ u.directory_size_shift = t.directory_size_shift
        /\ u.segment_size_shift = t.segment_size_shift
    BY <1>3, <1>5 DEF TableType
  <1> HIDE DEF u
  <1>8. segment_size(u) = segment_size(t) /\ Capacity(u) = Capacity(t) /\ Addresses(u) = Addresses(t)
    BY <1>7 DEF segment_size, directory_size, Capacity, Addresses
  <1>9. IsTable(u) /\ ShapeOf(u)
    BY <1>7, <1>8 DEF TableOK, IsTable, ShapeOf
  <1>10. SegmentsOf(u)
    BY <1>6, <1>7, <1>8 DEF TableOK, SegmentsOf
  <1>11. PlacedOf(u)
    BY <1>7, <1>8 DEF TableOK, PlacedOf, hash
  <1> QED
    BY <1>2, <1>9, <1>10, <1>11 DEF TableOK

-----------------------------------------------------------------------------
(* Contracting *)

\* Stepping the split back: the old position is one split after the new one.
LEMMA RetreatFields ==
    ASSUME NEW t, TableOK(t), t.bucket_count > segment_size(t), NEW u, u = RetreatSplit(t)
    PROVE  /\ IsTable(u)
           /\ u.maxp \in Nat \ {0} /\ u.p \in Nat /\ u.p < u.maxp
           /\ \E i \in t.segment_size_shift..AddrBits : u.maxp = Bit[i]
           /\ t.maxp = NextM(u.maxp, u.p) /\ t.p = NextP(u.maxp, u.p)
           /\ t.bucket_count - 1 = u.maxp + u.p
           /\ u.bucket_count = t.bucket_count - 1
           /\ u.segment_count = t.segment_count /\ u.directory = t.directory /\ u.chain = t.chain
           /\ u.directory_size_shift = t.directory_size_shift
           /\ u.segment_size_shift = t.segment_size_shift
  <1>1. PICK d, s \in 1..AddrBits : t \in TableType(d, s)
    BY DEF TableOK, IsTable
  <1>2. /\ t.maxp \in Nat \ {0} /\ t.p \in Nat /\ t.p < t.maxp
        /\ t.bucket_count = t.maxp + t.p /\ t.bucket_count \in Nat
    BY SizeFacts DEF TableOK, ShapeOf
  <1>3. t.segment_size_shift = s /\ segment_size(t) = Bit[s] /\ Bit[s] \in Nat \ {0}
    BY <1>1, BitNat DEF TableType, segment_size
  <1>4. PICK i \in s..AddrBits : t.maxp = Bit[i]
    BY <1>3 DEF TableOK, ShapeOf
  <1>5. CASE t.p > 0
    <2>1. u = [t EXCEPT !.p = t.p - 1, !.bucket_count = t.bucket_count - 1]
      BY <1>5 DEF RetreatSplit
    <2>2. t.p - 1 \in Nat /\ t.bucket_count - 1 \in Nat
      BY <1>2, <1>5
    <2>3. /\ u \in TableType(d, s)
          /\ u.p = t.p - 1 /\ u.maxp = t.maxp /\ u.bucket_count = t.bucket_count - 1
          /\ u.segment_count = t.segment_count /\ u.directory = t.directory /\ u.chain = t.chain
          /\ u.directory_size_shift = t.directory_size_shift
          /\ u.segment_size_shift = t.segment_size_shift
      BY <1>1, <2>1, <2>2 DEF TableType
    <2>4. t.maxp = NextM(u.maxp, u.p) /\ t.p = NextP(u.maxp, u.p)
      BY <2>3, <1>2 DEF NextM, NextP
    <2>5. /\ u.maxp \in Nat \ {0} /\ u.p \in Nat /\ u.p < u.maxp
          /\ t.bucket_count - 1 = u.maxp + u.p
      BY <2>3, <1>2, <1>5
    <2>6. IsTable(u) /\ \E j \in t.segment_size_shift..AddrBits : u.maxp = Bit[j]
      BY <2>3, <1>3, <1>4 DEF IsTable
    <2> QED
      BY <2>3, <2>4, <2>5, <2>6
  <1>6. CASE t.p = 0
    <2>1. i # s
      BY <1>2, <1>3, <1>4, <1>6
    <2>2. i - 1 \in s..AddrBits /\ i - 1 \in 0..(AddrBits - 1)
      BY <2>1, <1>1, <1>4, BitNat
    <2>3. Bit[i - 1] \in Nat \ {0} /\ Bit[(i - 1) + 1] = 2 * Bit[i - 1]
      BY <2>2, BitNat, BitDouble
    <2>4. PICK m \in Nat \ {0} : m = Bit[i - 1] /\ t.maxp = 2 * m
      <3>1. (i - 1) + 1 = i
        BY <1>4, <1>1, BitNat
      <3> QED
        BY <3>1, <2>3, <1>4
    <2>5. t.maxp \div 2 = m /\ m - 1 \in Nat /\ t.bucket_count - 1 \in Nat
      BY <2>4, <1>2, <1>6
    <2>6. u = [t EXCEPT !.maxp = m, !.p = m - 1, !.bucket_count = t.bucket_count - 1]
      <3>1. ~(t.p > 0)
        BY <1>6
      <3>2. u = [t EXCEPT !.maxp = t.maxp \div 2, !.p = t.maxp \div 2 - 1,
                          !.bucket_count = t.bucket_count - 1]
        BY <3>1 DEF RetreatSplit
      <3> QED
        BY <3>2, <2>5
    <2>7. /\ u \in TableType(d, s)
          /\ u.p = m - 1 /\ u.maxp = m /\ u.bucket_count = t.bucket_count - 1
          /\ u.segment_count = t.segment_count /\ u.directory = t.directory /\ u.chain = t.chain
          /\ u.directory_size_shift = t.directory_size_shift
          /\ u.segment_size_shift = t.segment_size_shift
      BY <1>1, <2>4, <2>5, <2>6 DEF TableType
    <2>8. t.maxp = NextM(u.maxp, u.p) /\ t.p = NextP(u.maxp, u.p)
      BY <2>4, <2>7, <1>6 DEF NextM, NextP
    <2>9. /\ u.maxp \in Nat \ {0} /\ u.p \in Nat /\ u.p < u.maxp
          /\ t.bucket_count - 1 = u.maxp + u.p
      BY <2>4, <2>5, <2>7, <1>2, <1>6
    <2>10. IsTable(u) /\ \E j \in t.segment_size_shift..AddrBits : u.maxp = Bit[j]
      BY <2>2, <2>4, <2>7, <1>3 DEF IsTable
    <2> QED
      BY <2>7, <2>8, <2>9, <2>10
  <1> QED
    BY <1>2, <1>5, <1>6

\* The last bucket opens the last segment, or it lies inside it.
LEMMA LastSegment ==
    ASSUME NEW s \in Nat \ {0}, NEW n \in Nat, NEW b \in Nat \ {0},
           (n - 1) * s < b, b <= n * s
    PROVE  /\ (b - 1) % s = 0 => /\ (b - 1) \div s = n - 1
                                 /\ (n - 2) * s < b - 1 /\ b - 1 <= (n - 1) * s
           /\ (b - 1) % s # 0 => (n - 1) * s < b - 1 /\ b - 1 <= n * s
  <1> DEFINE a == b - 1
  <1>1. a \in Nat /\ (n - 1) * s <= a /\ a < n * s
    <2>1. (n - 1) * s \in Int /\ n * s \in Int
      OBVIOUS
    <2> QED
      BY <2>1
  <1> HIDE DEF a
  <1>2. PICK q \in Nat, r \in 0..(s - 1) : a = q * s + r /\ a \div s = q /\ a % s = r
    BY <1>1, DivMod
  <1>3. ~(q + 1 <= n - 1)
    <2>1. (q + 1) * s = q * s + s
      OBVIOUS
    <2> QED
      BY <2>1, <1>1, <1>2, TimesMonotone
  <1>4. ~(n <= q)
    BY <1>1, <1>2, TimesMonotone
  <1>5. q = n - 1
    BY <1>3, <1>4
  <1>6. (n - 2) * s = (n - 1) * s - s /\ n * s = (n - 1) * s + s /\ (n - 1) * s \in Int
    OBVIOUS
  <1>7. a = (n - 1) * s + r
    BY <1>2, <1>5
  <1> QED
    BY <1>1, <1>2, <1>5, <1>6, <1>7 DEF a

\* contract_table keeps a table good, whichever element is first on the last
\* chain: they all go to the bucket whose split made the last bucket.
LEMMA ContractOK ==
    ASSUME NEW t, TableOK(t), NEW u \in contract_table(t)
    PROVE  TableOK(u)
  <1> DEFINE last == t.bucket_count - 1
             less == RetreatSplit(t)
  <1>1. CASE ~(t.bucket_count > segment_size(t) /\ t.segment_count > 1)
    BY <1>1 DEF contract_table
  <1>2. CASE t.bucket_count > segment_size(t) /\ t.segment_count > 1
    <2>1. /\ IsTable(less)
          /\ less.maxp \in Nat \ {0} /\ less.p \in Nat /\ less.p < less.maxp
          /\ \E i \in t.segment_size_shift..AddrBits : less.maxp = Bit[i]
          /\ t.maxp = NextM(less.maxp, less.p) /\ t.p = NextP(less.maxp, less.p)
          /\ last = less.maxp + less.p
          /\ less.bucket_count = last
          /\ less.segment_count = t.segment_count /\ less.directory = t.directory
          /\ less.chain = t.chain
          /\ less.directory_size_shift = t.directory_size_shift
          /\ less.segment_size_shift = t.segment_size_shift
      BY <1>2, RetreatFields
    <2>2. /\ t.bucket_count \in Nat \ {0} /\ t.segment_count \in Nat /\ segment_size(t) \in Nat \ {0}
          /\ Capacity(t) \in Nat /\ t.bucket_count <= Capacity(t) /\ last \in Nat
      <3>1. t.bucket_count \in Nat /\ segment_size(t) \in Nat \ {0}
        BY SizeFacts DEF TableOK
      <3>2. t.bucket_count # 0
        BY <3>1, <1>2
      <3> QED
        BY <3>1, <3>2, SizeFacts DEF TableOK, ShapeOf
    <2>3. less.p \in Addresses(t) /\ last \in Addresses(t) /\ less.p # last
      BY <2>1, <2>2 DEF Addresses
    <2>4. ASSUME NEW a \in Addresses(t), NEW e \in t.chain[a]
          PROVE  /\ e \in Element
                 /\ a = last => hash(less, e.key) = less.p
                 /\ a # last => hash(less, e.key) = a
      <3>1. e \in Element
        BY SizeFacts DEF TableOK
      <3>2. HashOf[e.key] \in Nat
        BY <3>1, HashAssumption DEF Element
      <3>3. hash(t, e.key) = a
        BY DEF TableOK, PlacedOf
      <3>4. /\ hash(t, e.key) = Addr(HashOf[e.key], NextM(less.maxp, less.p), NextP(less.maxp, less.p))
            /\ hash(less, e.key) = Addr(HashOf[e.key], less.maxp, less.p)
        BY <2>1, HashIsAddr
      <3> HIDE DEF less
      <3> QED
        BY <3>1, <3>2, <3>3, <3>4, <2>1, MergeMoves
    <2> HIDE DEF less
    \* The chains of the result, in both branches.
    <2>5. PICK c \in [Addresses(t) -> SUBSET Element] :
             /\ u = DropSegment([less EXCEPT !.chain = c], last)
             /\ \A a \in Addresses(t) : \A e \in c[a] : hash(less, e.key) = a
      <3>1. t.chain \in [Addresses(t) -> SUBSET Element]
        <4>1. PICK d, s \in 1..AddrBits : t \in TableType(d, s)
          BY DEF TableOK, IsTable
        <4> QED
          BY <4>1 DEF TableType, Addresses, Capacity, directory_size, segment_size
      <3>2. CASE t.chain[last] = {}
        <4>1. u = DropSegment(less, last)
          BY <1>2, <3>2 DEF contract_table, less
        <4>2. less = [less EXCEPT !.chain = t.chain]
          BY <2>1 DEF IsTable, TableType
        <4>3. \A a \in Addresses(t) : \A e \in t.chain[a] : hash(less, e.key) = a
          BY <2>4, <3>2
        <4> WITNESS t.chain \in [Addresses(t) -> SUBSET Element]
        <4> QED
          BY <4>1, <4>2, <4>3
      <3>3. CASE t.chain[last] # {}
        <4>1. PICK e \in t.chain[last] : u = DropSegment(Splice(less, last, hash(less, e.key)), last)
          BY <1>2, <3>3 DEF contract_table, less
        <4>2. hash(less, e.key) = less.p
          BY <2>3, <2>4
        <4> DEFINE c == [t.chain EXCEPT ![less.p] = t.chain[last] \cup @, ![last] = {}]
        <4>3. Splice(less, last, less.p) = [less EXCEPT !.chain = c]
          BY <2>1 DEF Splice
        <4>4. c \in [Addresses(t) -> SUBSET Element]
          BY <3>1, <2>3
        <4>5. \A a \in Addresses(t) : \A x \in c[a] : hash(less, x.key) = a
          BY <2>3, <2>4, <3>1
        <4> HIDE DEF c
        <4> WITNESS c \in [Addresses(t) -> SUBSET Element]
        <4> QED
          BY <4>1, <4>2, <4>3, <4>5
      <3> QED
        BY <3>2, <3>3
    <2>6. PICK d, s \in 1..AddrBits : less \in TableType(d, s)
      BY <2>1 DEF IsTable
    <2> DEFINE v == [less EXCEPT !.chain = c]
    <2>7. /\ v \in TableType(d, s)
          /\ v.p = less.p /\ v.maxp = less.maxp /\ v.bucket_count = last
          /\ v.segment_count = t.segment_count /\ v.directory = t.directory /\ v.chain = c
          /\ v.directory_size_shift = t.directory_size_shift
          /\ v.segment_size_shift = t.segment_size_shift
      <3>1. Addresses(t) = 0..(Bit[d] * Bit[s] - 1)
        BY <2>1, <2>6 DEF Addresses, Capacity, directory_size, segment_size, TableType
      <3> QED
        BY <3>1, <2>1, <2>5, <2>6 DEF TableType
    <2> HIDE DEF v
    <2>8. segment_size(v) = segment_size(t)
      BY <2>7 DEF segment_size
    <2>9. /\ IsTable(u)
          /\ u.p = less.p /\ u.maxp = less.maxp /\ u.bucket_count = last /\ u.chain = c
          /\ u.directory_size_shift = t.directory_size_shift
          /\ u.segment_size_shift = t.segment_size_shift
          /\ \A x \in DOMAIN u.directory : (u.directory[x] = "live") <=> (x < u.segment_count)
          /\ (u.segment_count - 1) * segment_size(t) < last
          /\ last <= u.segment_count * segment_size(t)
      <3>1. /\ (t.segment_count - 1) * segment_size(t) < t.bucket_count
            /\ t.bucket_count <= t.segment_count * segment_size(t)
            /\ \A x \in DOMAIN t.directory : (t.directory[x] = "live") <=> (x < t.segment_count)
        BY DEF TableOK, SegmentsOf
      <3>2. /\ last % segment_size(t) = 0 =>
                  /\ last \div segment_size(t) = t.segment_count - 1
                  /\ (t.segment_count - 2) * segment_size(t) < last
                  /\ last <= (t.segment_count - 1) * segment_size(t)
            /\ last % segment_size(t) # 0 =>
                  /\ (t.segment_count - 1) * segment_size(t) < last
                  /\ last <= t.segment_count * segment_size(t)
        BY <3>1, <2>2, LastSegment
      <3>3. CASE last % segment_size(t) # 0
        <4>1. u = v
          BY <3>3, <2>5, <2>8 DEF DropSegment, v
        <4>2. IsTable(v)
          BY <2>7 DEF IsTable
        <4> QED
          BY <4>1, <4>2, <3>1, <3>2, <3>3, <2>7
      <3>4. CASE last % segment_size(t) = 0
        <4> DEFINE n == t.segment_count - 1
                   dir == [t.directory EXCEPT ![n] = "freed"]
        <4>1. SegmentOf(v, last) = n
          BY <3>2, <3>4, <2>8 DEF SegmentOf
        <4>2. u = [v EXCEPT !.segment_count = n, !.directory = dir]
          BY <4>1, <3>4, <2>5, <2>7, <2>8 DEF DropSegment, v
        <4>3. n \in Nat /\ t.segment_count \in Nat
          BY <1>2, <2>2
        <4>4. v.directory \in [0..(Bit[d] - 1) -> {"null", "live", "freed"}] /\ Bit[d] \in Nat
          BY <2>6, <2>7, BitNat DEF TableType
        <4>5. dir \in [0..(Bit[d] - 1) -> {"null", "live", "freed"}]
          BY <4>4, <2>7
        <4>6. \A x \in DOMAIN dir : (dir[x] = "live") <=> (x < n)
          BY <4>3, <4>4, <3>1, <2>7
        <4> HIDE DEF dir
        <4>7. /\ u \in TableType(d, s)
              /\ u.p = less.p /\ u.maxp = less.maxp /\ u.bucket_count = last /\ u.chain = c
              /\ u.directory_size_shift = t.directory_size_shift
              /\ u.segment_size_shift = t.segment_size_shift
              /\ u.segment_count = n /\ u.directory = dir
          BY <4>2, <4>3, <4>5, <2>7 DEF TableType
        <4>8. IsTable(u)
          BY <4>7 DEF IsTable
        <4>9. n - 1 = t.segment_count - 2
          BY <4>3
        <4> QED
          BY <4>6, <4>7, <4>8, <4>9, <3>2, <3>4
      <3> QED
        BY <3>3, <3>4
    <2>10. segment_size(u) = segment_size(t) /\ Capacity(u) = Capacity(t) /\ Addresses(u) = Addresses(t)
      BY <2>9 DEF segment_size, directory_size, Capacity, Addresses
    <2>11. ShapeOf(u)
      <3>1. u.directory_size_shift + u.segment_size_shift <= AddrBits
        BY <2>9 DEF TableOK, ShapeOf
      <3>2. \E i \in u.segment_size_shift..AddrBits : u.maxp = Bit[i]
        BY <2>1, <2>9
      <3>3. u.p < u.maxp /\ u.bucket_count = u.maxp + u.p
        BY <2>1, <2>9
      <3>4. u.bucket_count <= Capacity(u)
        BY <2>2, <2>9, <2>10
      <3> QED
        BY <3>1, <3>2, <3>3, <3>4 DEF ShapeOf
    <2>12. SegmentsOf(u)
      BY <2>9, <2>10 DEF SegmentsOf
    <2>13. PlacedOf(u)
      BY <2>5, <2>9, <2>10 DEF PlacedOf, hash
    <2> QED
      BY <2>9, <2>11, <2>12, <2>13 DEF TableOK
  <1> QED
    BY <1>1, <1>2

-----------------------------------------------------------------------------
(* Creating *)

\* The table hash_create_ex sets up is well-formed.
LEMMA NewTableOK ==
    ASSUME NEW args \in CreateArgs, NEW d \in 1..AddrBits, NEW s \in 1..AddrBits, d + s <= AddrBits
    PROVE  TableOK(NewTable(args, d, s))
  <1> DEFINE t == NewTable(args, d, s)
             dir == [x \in 0..(Bit[d] - 1) |-> IF x = 0 THEN "live" ELSE "null"]
             chains == [a \in 0..(Bit[d] * Bit[s] - 1) |-> {}]
  <1>1. Bit[d] \in Nat \ {0} /\ Bit[s] \in Nat \ {0}
    BY BitNat
  <1>2. args.min_load \in Nat /\ args.max_load \in Nat
    BY CreateAssumption
  <1>3. /\ dir \in [0..(Bit[d] - 1) -> {"null", "live", "freed"}]
        /\ chains \in [0..(Bit[d] * Bit[s] - 1) -> SUBSET Element]
    OBVIOUS
  <1>5. /\ t \in TableType(d, s)
        /\ t.p = 0 /\ t.maxp = Bit[s] /\ t.bucket_count = Bit[s] /\ t.segment_count = 1
        /\ t.directory_size_shift = d /\ t.segment_size_shift = s
        /\ t.directory = dir /\ t.chain = chains
    BY <1>1, <1>2, <1>3, CreateAssumption DEF NewTable, TableType
  <1> HIDE DEF t
  <1>6. segment_size(t) = Bit[s] /\ Capacity(t) = Bit[d] * Bit[s]
    BY <1>5 DEF segment_size, directory_size, Capacity
  <1>7. IsTable(t)
    BY <1>5 DEF IsTable
  <1>8. ShapeOf(t)
    <2>1. Bit[s] <= Bit[d] * Bit[s]
      <3>1. 1 * Bit[s] <= Bit[d] * Bit[s]
        BY <1>1, TimesMonotone
      <3> QED
        BY <3>1, <1>1
    <2>2. s \in s..AddrBits
      BY BitNat
    <2> QED
      BY <2>1, <2>2, <1>1, <1>5, <1>6 DEF ShapeOf
  <1>9. SegmentsOf(t)
    BY <1>1, <1>5, <1>6 DEF SegmentsOf
  <1>10. PlacedOf(t)
    BY <1>5, <1>6 DEF PlacedOf, Addresses
  <1> QED
    BY <1>7, <1>8, <1>9, <1>10 DEF TableOK, t

\* hash_create_ex asks for at least one bit for the directory and one for a
\* segment.
LEMMA CreateBits ==
    ASSUME NEW args \in CreateArgs, NEW requested \in 0..AddrBits
    PROVE  /\ DirectoryBits(args, requested) \in Nat \ {0}
           /\ SegmentBits(args, requested) \in Nat \ {0}
  <1>1. args.directory_bits \in Nat /\ args.segment_bits \in Nat
    BY CreateAssumption
  <1>2. ASSUME NEW n \in Int, NEW m \in Nat \ {0} PROVE AtLeast(n, m) \in Nat \ {0}
    BY DEF AtLeast
  <1>3. requested \div 2 \in Int /\ requested \in Int
    BY BitType
  <1>4. AtLeast(requested \div 2, 1) \in Nat \ {0}
    BY <1>2, <1>3
  <1>5. AtLeast(requested - AtLeast(requested \div 2, 1), 1) \in Nat \ {0}
    BY <1>2, <1>3, <1>4
  <1>6. /\ AtLeast(AtLeast(requested \div 2, 1), DefaultDirectoryBits) \in Nat \ {0}
        /\ AtLeast(AtLeast(requested - AtLeast(requested \div 2, 1), 1), DefaultSegmentBits) \in Nat \ {0}
    BY <1>2, <1>4, <1>5, CreateAssumption
  <1> QED
    BY <1>1, <1>4, <1>5, <1>6 DEF DirectoryBits, SegmentBits

-----------------------------------------------------------------------------
(* The invariant *)

CallbackType == [entry : Element, type : {"TABLE_DESTROY", "ENTRY_DESTROY"}]

IInv ==
    /\ table # NULL => TableOK(table)
    /\ iter # NULL => table # NULL /\ iter \in IterType
    /\ callbacks \subseteq CallbackType

\* Every element of a chain is an element.
LEMMA ChainElements ==
    ASSUME NEW t, TableOK(t)
    PROVE  /\ \A a \in Addresses(t) : t.chain[a] \subseteq Element
           /\ Entries(t) \subseteq Element
           /\ 0 \in Addresses(t)
  <1>1. \A a \in Addresses(t) : t.chain[a] \in SUBSET Element
    BY SizeFacts DEF TableOK
  <1>2. Capacity(t) \in Nat \ {0}
    BY SizeFacts DEF TableOK
  <1> QED
    BY <1>1, <1>2 DEF Entries, Reachable, Addresses

\* The invariant holds before any call.
LEMMA InvInit == Init => IInv
  BY DEF Init, IInv

\* hash_create_ex preserves the invariant.
LEMMA CreateStep ==
    ASSUME IInv, NEW args \in CreateArgs, hash_create_ex(args)
    PROVE  IInv'
  <1>1. callbacks' = {} /\ iter' = iter /\ table = NULL
    BY DEF hash_create_ex, NoCallbacks
  <1>2. table' # NULL => TableOK(table')
    <2>1. PICK requested \in 0..AddrBits :
             \/ table' = table
             \/ /\ DirectoryBits(args, requested) + SegmentBits(args, requested) <= AddrBits
                /\ table' = NewTable(args, DirectoryBits(args, requested), SegmentBits(args, requested))
      BY DEF hash_create_ex
    <2>2. PICK d \in Nat \ {0}, s \in Nat \ {0} :
             d = DirectoryBits(args, requested) /\ s = SegmentBits(args, requested)
      BY CreateBits
    <2>3. CASE d + s <= AddrBits /\ table' = NewTable(args, d, s)
      <3>1. d \in 1..AddrBits /\ s \in 1..AddrBits
        BY <2>3, BitType
      <3> QED
        BY <3>1, <2>3, NewTableOK
    <2> QED
      BY <2>1, <2>2, <2>3, <1>1
  <1> QED
    BY <1>1, <1>2 DEF IInv

\* hash_destroy preserves the invariant.
LEMMA DestroyStep == ASSUME IInv, hash_destroy PROVE IInv'
  <1>1. Entries(table) \subseteq Element
    BY ChainElements DEF IInv, hash_destroy
  <1> QED
    BY <1>1 DEF IInv, hash_destroy, CallbackType

\* Shared by hash_enter and hash_get_default.
LEMMA InsertStep ==
    ASSUME IInv, table # NULL, NEW op, NEW out, NEW k \in Keys, NEW v \in Values,
           InsertNew(op, k, v, out)
    PROVE  TableOK(table') /\ callbacks' = {}
  <1> DEFINE linked == Link(table, k, v)
             blank == Link(table, k, UNDEF)
  <1>1. TableOK(table) /\ TableOK(linked) /\ TableOK(blank)
    BY LinkOK DEF IInv
  <1>2. TableOK(expand_table(linked))
    BY <1>1, ExpandOK
  <1>3. HasRoom(blank) /\ NeedsSegment(blank) => TableOK(ExpandFailed(blank))
    BY <1>1, ExpandFailedOK
  <1> QED
    BY <1>1, <1>2, <1>3 DEF InsertNew, NoCallbacks

\* hash_enter preserves the invariant.
LEMMA EnterStep ==
    ASSUME IInv, NEW k \in Keys \cup {BAD}, NEW v \in Values \cup {BAD}, hash_enter(k, v)
    PROVE  IInv'
  <1>1. table # NULL /\ TableOK(table) /\ iter = NULL /\ iter' = NULL
    BY DEF hash_enter, IInv
  <1>2. CASE table' = table /\ callbacks' = {}
    BY <1>1, <1>2 DEF IInv
  <1>3. ASSUME k \in Keys, v \in Values, NEW e \in lookup(table, k), Update(e, v) PROVE IInv'
    BY <1>1, <1>3, SetValueOK DEF IInv, Update, CallbackType
  <1>4. CASE k \in Keys /\ v \in Values /\ InsertNew("enter", k, v, NULL)
    BY <1>1, <1>4, InsertStep DEF IInv
  <1> QED
    BY <1>2, <1>3, <1>4 DEF hash_enter, Reject, NoCallbacks

\* hash_get_default preserves the invariant.
LEMMA GetDefaultStep ==
    ASSUME IInv, NEW k \in Keys \cup {BAD}, NEW v \in Values \cup {BAD}, hash_get_default(k, v)
    PROVE  IInv'
  <1>1. table # NULL /\ TableOK(table) /\ iter = NULL /\ iter' = NULL
    BY DEF hash_get_default, IInv
  <1>2. CASE table' = table /\ callbacks' = {}
    BY <1>1, <1>2 DEF IInv
  <1>3. CASE k \in Keys /\ v \in Values /\ InsertNew("get_default", k, v, v)
    BY <1>1, <1>3, InsertStep DEF IInv
  <1> QED
    BY <1>2, <1>3 DEF hash_get_default, Reject, NoCallbacks

\* hash_delete preserves the invariant.
LEMMA DeleteStep ==
    ASSUME IInv, NEW k \in Keys \cup {BAD}, hash_delete(k)
    PROVE  IInv'
  <1>1. table # NULL /\ TableOK(table) /\ iter = NULL /\ iter' = NULL
    BY DEF hash_delete, IInv
  <1>2. CASE table' = table /\ callbacks' = {}
    BY <1>1, <1>2 DEF IInv
  <1>3. ASSUME k \in Keys, NEW e \in lookup(table, k),
               callbacks' = {[entry |-> e, type |-> "ENTRY_DESTROY"]},
               table' \in IF TooSparse(Unlink(table, e)) THEN contract_table(Unlink(table, e))
                                                          ELSE {Unlink(table, e)}
        PROVE  IInv'
    <2>1. TableOK(Unlink(table, e)) /\ e \in Element
      BY <1>1, <1>3, UnlinkOK
    <2>2. TableOK(table')
      BY <2>1, <1>3, ContractOK
    <2> QED
      BY <2>1, <2>2, <1>1, <1>3 DEF IInv, CallbackType
  <1> QED
    BY <1>2, <1>3 DEF hash_delete, Reject, NoCallbacks

\* hash_iter_next leaves an iterator.
LEMMA IterNextType ==
    ASSUME IInv, hash_iter_next
    PROVE  iter' \in IterType
  <1>1. iter # NULL /\ iter \in IterType /\ table # NULL /\ TableOK(table)
    BY DEF hash_iter_next, IInv
  <1>2. CASE \E e \in iter.rest : iter' = [iter EXCEPT !.rest = @ \ {e}, !.seen = @ \cup {e}]
    BY <1>1, <1>2 DEF IterType
  <1>3. ASSUME NEW a \in NonEmptyAfter(table, iter.at), NEW e \in table.chain[a],
               iter' = [at |-> a, rest |-> table.chain[a] \ {e}, seen |-> iter.seen \cup {e}]
        PROVE  iter' \in IterType
    <2>1. a \in Addresses(table)
      BY <1>3 DEF NonEmptyAfter, Reachable
    <2>2. a \in Nat /\ table.chain[a] \subseteq Element
      BY <1>1, <2>1, ChainElements, SizeFacts DEF Addresses, TableOK
    <2> QED
      BY <2>2, <1>1, <1>3 DEF IterType
  <1>4. CASE iter' = [iter EXCEPT !.at = table.segment_count * segment_size(table)]
    <2>1. table.segment_count \in Nat /\ segment_size(table) \in Nat
      BY <1>1, SizeFacts DEF TableOK
    <2>2. table.segment_count * segment_size(table) \in Nat
      BY <2>1
    <2> QED
      BY <2>2, <1>1, <1>4 DEF IterType
  <1> QED
    BY <1>2, <1>3, <1>4 DEF hash_iter_next

\* The calls that iterate preserve the invariant.
LEMMA IterStep ==
    ASSUME IInv, new_hash_iter_context \/ hash_iter_next \/ FreeIter
    PROVE  IInv'
  <1>1. table' = table /\ callbacks' = {} /\ table # NULL
    BY DEF new_hash_iter_context, hash_iter_next, FreeIter, NoCallbacks, IInv
  <1>2. CASE new_hash_iter_context
    <2>1. TableOK(table) /\ iter = NULL
      BY <1>1, <1>2 DEF new_hash_iter_context, IInv
    <2>2. table.chain[0] \in SUBSET Element
      BY <2>1, ChainElements
    <2> QED
      BY <1>1, <1>2, <2>1, <2>2 DEF new_hash_iter_context, IInv, IterType
  <1>3. CASE hash_iter_next
    BY <1>1, <1>3, IterNextType DEF IInv
  <1>4. CASE FreeIter
    BY <1>1, <1>4 DEF FreeIter, IInv
  <1> QED
    BY <1>2, <1>3, <1>4

\* Every step preserves the invariant.
LEMMA InvNext == IInv /\ [Next]_vars => IInv'
  <1> SUFFICES ASSUME IInv, [Next]_vars PROVE IInv'
    OBVIOUS
  <1>1. CASE \E args \in CreateArgs : hash_create_ex(args)
    BY <1>1, CreateStep
  <1>2. CASE hash_destroy
    BY <1>2, DestroyStep
  <1>3. CASE \E k \in Keys \cup {BAD}, v \in Values \cup {BAD} : hash_enter(k, v)
    BY <1>3, EnterStep
  <1>4. CASE \E k \in Keys \cup {BAD}, v \in Values \cup {BAD} : hash_get_default(k, v)
    BY <1>4, GetDefaultStep
  <1>5. CASE \E k \in Keys \cup {BAD} : hash_delete(k)
    BY <1>5, DeleteStep
  <1>6. CASE (\E k \in Keys \cup {BAD} : hash_lookup(k)) \/ hash_count \/ hash_entries
    BY <1>6 DEF IInv, hash_lookup, hash_count, hash_entries, NoCallbacks
  <1>7. CASE new_hash_iter_context \/ hash_iter_next \/ FreeIter
    BY <1>7, IterStep
  <1>8. CASE UNCHANGED vars
    BY <1>8 DEF IInv, vars
  <1> QED
    BY <1>1, <1>2, <1>3, <1>4, <1>5, <1>6, <1>7, <1>8 DEF Next

\* The invariant holds in every reachable state.
LEMMA Invariance == Spec => []IInv
  BY InvInit, InvNext, PTL DEF Spec

-----------------------------------------------------------------------------
(* The theorems *)

\* The table, the iterator and the callbacks of dhash.c keep their types: the
\* directory and every segment stay arrays of the sizes hash_create_ex chose.
THEOREM TypeCorrect == Spec => []TypeOK
  <1>1. IInv => TypeOK
    BY DEF IInv, TypeOK, TableOK, IsTable, IterType, CallbackType
  <1> QED
    BY <1>1, Invariance, PTL

\* expand_table and contract_table keep p, maxp and bucket_count in step.
THEOREM ShapeCorrect == Spec => []Shape
  <1>1. IInv => Shape
    BY DEF IInv, Shape, TableOK
  <1> QED
    BY <1>1, Invariance, PTL

\* segment_count segments are allocated, and no others, after every call.
THEOREM SegmentsCorrect == Spec => []SegmentsLive
  <1>1. IInv => SegmentsLive
    BY DEF IInv, SegmentsLive, TableOK
  <1> QED
    BY <1>1, Invariance, PTL

\* Every element is on the chain that hash() leads lookup() to, whatever
\* splits and merges the table has been through.
THEOREM PlacedCorrect == Spec => []EntryInItsBucket
  <1>1. IInv => EntryInItsBucket
    BY DEF IInv, EntryInItsBucket, TableOK
  <1> QED
    BY <1>1, Invariance, PTL

\* lookup()'s "valid segment ensured by hash()".
THEOREM AddressCorrect == Spec => []AddressValid
  <1>1. IInv => AddressValid
    <2> SUFFICES ASSUME TableOK(table), NEW k \in Keys
                 PROVE  /\ hash(table, k) < table.bucket_count
                        /\ table.directory[SegmentOf(table, hash(table, k))] = "live"
      BY DEF IInv, AddressValid
    <2> DEFINE a == hash(table, k)
               n == table.segment_count
               s == segment_size(table)
    <2>1. /\ a \in 0..(table.bucket_count - 1) /\ table.bucket_count \in Nat /\ n \in Nat
          /\ s \in Nat \ {0} /\ Capacity(table) = directory_size(table) * s
          /\ directory_size(table) \in Nat \ {0} /\ table.bucket_count <= Capacity(table)
          /\ DOMAIN table.directory = 0..(directory_size(table) - 1)
      BY HashInRange, SizeFacts DEF TableOK, ShapeOf
    <2>2. table.bucket_count <= n * s
      BY DEF TableOK, SegmentsOf
    <2> HIDE DEF a, n, s
    <2>3. PICK q \in Nat, r \in 0..(s - 1) : a = q * s + r /\ a \div s = q
      <3>1. a \in Nat
        BY <2>1
      <3> QED
        BY <2>1, <3>1, DivMod
    <2>4. n * s \in Int /\ q * s \in Int /\ directory_size(table) * s \in Int
      BY <2>1
    <2>5. ~(n <= q)
      BY <2>1, <2>2, <2>3, <2>4, TimesMonotone
    <2>6. ~(directory_size(table) <= q)
      <3>0. a < table.bucket_count /\ table.bucket_count <= directory_size(table) * s /\ a \in Int
        BY <2>1
      <3>1. q * s <= a /\ a < directory_size(table) * s
        <4>1. q * s <= a
          BY <2>1, <2>3, <2>4
        <4>2. a < directory_size(table) * s
          BY <3>0, <2>1, <2>4
        <4> QED
          BY <4>1, <4>2
      <3> SUFFICES ASSUME directory_size(table) <= q PROVE FALSE
        OBVIOUS
      <3>2. directory_size(table) * s <= q * s
        BY <2>1, TimesMonotone
      <3> QED
        BY <2>1, <2>4, <3>1, <3>2
    <2>7. q \in DOMAIN table.directory /\ q < n
      BY <2>1, <2>5, <2>6
    <2>8. table.directory[q] = "live"
      BY <2>7 DEF TableOK, SegmentsOf, n
    <2>9. SegmentOf(table, a) = q
      BY <2>3 DEF SegmentOf, s
    <2> QED
      BY <2>1, <2>8, <2>9 DEF a
  <1> QED
    BY <1>1, Invariance, PTL

-----------------------------------------------------------------------------
(* The entries of a table *)

\* The loops over segment_count segments reach exactly the elements that
\* lookup() finds on the chain of their key, and no chain holds another.
LEMMA EntriesAre ==
    ASSUME NEW t, TableOK(t)
    PROVE  /\ Entries(t) \subseteq Element
           /\ \A e : e \in Entries(t) <=> \E a \in Addresses(t) : e \in t.chain[a]
           /\ \A e \in Element : e \in Entries(t) <=> e \in t.chain[hash(t, e.key)]
           /\ \A e \in Element : hash(t, e.key) \in Reachable(t)
           /\ \A a \in Addresses(t) : a >= t.bucket_count => t.chain[a] = {}
  <1>1. Entries(t) \subseteq Element /\ \A a \in Addresses(t) : t.chain[a] \subseteq Element
    BY ChainElements
  <1>2. ASSUME NEW e \in Element
        PROVE  hash(t, e.key) \in Reachable(t) /\ hash(t, e.key) < t.bucket_count
    <2>1. e.key \in Keys
      BY DEF Element
    <2>2. hash(t, e.key) \in 0..(t.bucket_count - 1) /\ hash(t, e.key) \in Addresses(t)
      BY <2>1, HashInRange DEF TableOK
    <2>3. t.bucket_count \in Nat /\ t.segment_count * segment_size(t) \in Nat
      BY SizeFacts DEF TableOK
    <2>4. t.bucket_count <= t.segment_count * segment_size(t)
      BY DEF TableOK, SegmentsOf
    <2> QED
      BY <2>2, <2>3, <2>4 DEF Reachable
  <1>3. ASSUME NEW a \in Addresses(t), NEW e \in t.chain[a]
        PROVE  e \in Element /\ hash(t, e.key) = a
    BY <1>1 DEF TableOK, PlacedOf
  <1>4. Reachable(t) \subseteq Addresses(t)
    BY DEF Reachable
  <1>5. \A e : e \in Entries(t) <=> \E a \in Addresses(t) : e \in t.chain[a]
    BY <1>2, <1>3, <1>4 DEF Entries
  <1>6. \A a \in Addresses(t) : a >= t.bucket_count => t.chain[a] = {}
    <2> SUFFICES ASSUME NEW a \in Addresses(t), a >= t.bucket_count, NEW e \in t.chain[a] PROVE FALSE
      OBVIOUS
    <2>1. a < t.bucket_count
      BY <1>2, <1>3
    <2>2. a \in Int /\ t.bucket_count \in Int
      BY SizeFacts DEF TableOK, Addresses
    <2> QED
      BY <2>1, <2>2
  <1> QED
    BY <1>1, <1>2, <1>3, <1>4, <1>5, <1>6

\* lookup() finds the entries with the key.
LEMMA LookupFinds ==
    ASSUME NEW t, TableOK(t), NEW k \in Keys
    PROVE  lookup(t, k) = {e \in Entries(t) : e.key = k}
  <1>1. hash(t, k) \in Addresses(t)
    BY HashInRange DEF TableOK
  <1>2. \A e \in t.chain[hash(t, k)] : e \in Element
    BY <1>1, ChainElements
  <1> QED
    BY <1>1, <1>2, EntriesAre DEF lookup

\* The fields that decide where a key goes and whether the table is over-full.
SameSizes(t, u) ==
    /\ u.p = t.p /\ u.maxp = t.maxp
    /\ u.directory_size_shift = t.directory_size_shift
    /\ u.segment_size_shift = t.segment_size_shift
    /\ u.bucket_count = t.bucket_count /\ u.segment_count = t.segment_count
    /\ u.min_load_factor = t.min_load_factor /\ u.max_load_factor = t.max_load_factor

\* Linking adds the one entry and counts it.
LEMMA LinkAdds ==
    ASSUME NEW t, TableOK(t), NEW k \in Keys, NEW v \in Values \cup {UNDEF}
    PROVE  /\ Entries(Link(t, k, v)) = Entries(t) \cup {[key |-> k, value |-> v]}
           /\ Link(t, k, v).entry_count = t.entry_count + 1
           /\ SameSizes(t, Link(t, k, v))
  <1> DEFINE e == [key |-> k, value |-> v]
             u == Link(t, k, v)
  <1>1. /\ TableOK(u) /\ e \in Element /\ hash(t, k) \in Addresses(t)
        /\ DOMAIN t.chain = Addresses(t)
    BY LinkOK, HashInRange, SizeFacts DEF Element, TableOK
  <1>2. /\ SameSizes(t, u) /\ u.entry_count = t.entry_count + 1
        /\ u.chain = [t.chain EXCEPT ![hash(t, k)] = @ \cup {e}]
    BY DEF Link, TableOK, IsTable, TableType, SameSizes
  <1>3. Addresses(u) = Addresses(t)
    BY <1>2 DEF Addresses, Capacity, directory_size, segment_size, SameSizes
  <1> HIDE DEF u, e
  <1>4. \A x : x \in Entries(u) <=> x \in Entries(t) \/ x = e
    BY <1>1, <1>2, <1>3, EntriesAre
  <1> QED
    BY <1>2, <1>4 DEF u, e

\* Unlinking takes the one entry out and uncounts it.
LEMMA UnlinkRemoves ==
    ASSUME NEW t, TableOK(t), NEW k \in Keys, NEW e \in lookup(t, k)
    PROVE  /\ Entries(Unlink(t, e)) = Entries(t) \ {e}
           /\ Unlink(t, e).entry_count = t.entry_count - 1
           /\ SameSizes(t, Unlink(t, e))
  <1> DEFINE u == Unlink(t, e)
  <1>1. /\ TableOK(u) /\ e \in Element /\ DOMAIN t.chain = Addresses(t)
        /\ e.key = k /\ hash(t, k) \in Addresses(t)
    BY UnlinkOK, HashInRange, SizeFacts DEF TableOK, lookup
  <1>2. /\ SameSizes(t, u) /\ u.entry_count = t.entry_count - 1
        /\ u.chain = [t.chain EXCEPT ![hash(t, e.key)] = @ \ {e}]
    BY DEF Unlink, TableOK, IsTable, TableType, SameSizes
  <1>3. Addresses(u) = Addresses(t) /\ \A x : hash(u, x) = hash(t, x)
    BY <1>2 DEF Addresses, Capacity, directory_size, segment_size, SameSizes, hash
  <1> HIDE DEF u
  <1>4. \A x \in Element : x \in Entries(u) <=> x \in Entries(t) /\ x # e
    BY <1>1, <1>2, <1>3, HashInRange, EntriesAre DEF TableOK, Element
  <1>5. Entries(u) \subseteq Element /\ Entries(t) \subseteq Element
    BY <1>1, EntriesAre
  <1> QED
    BY <1>2, <1>4, <1>5 DEF u

\* Overwriting exchanges the one entry and leaves the count.
LEMMA SetValueExchanges ==
    ASSUME NEW t, TableOK(t), NEW k \in Keys, NEW e \in lookup(t, k), NEW v \in Values
    PROVE  /\ Entries(SetValue(t, e, v)) = (Entries(t) \ {e}) \cup {[key |-> k, value |-> v]}
           /\ SetValue(t, e, v).entry_count = t.entry_count
           /\ SameSizes(t, SetValue(t, e, v))
  <1> DEFINE u == SetValue(t, e, v)
             f == [key |-> k, value |-> v]
  <1>1. /\ TableOK(u) /\ e \in Element /\ DOMAIN t.chain = Addresses(t)
        /\ e.key = k /\ hash(t, k) \in Addresses(t)
    BY SetValueOK, HashInRange, SizeFacts DEF TableOK, lookup
  <1>2. [e EXCEPT !.value = v] = f /\ f \in Element /\ f.key = k
    BY <1>1 DEF Element
  <1>3. /\ SameSizes(t, u) /\ u.entry_count = t.entry_count
        /\ u.chain = [t.chain EXCEPT ![hash(t, e.key)] = (@ \ {e}) \cup {f}]
    BY <1>2 DEF SetValue, TableOK, IsTable, TableType, SameSizes
  <1>4. Addresses(u) = Addresses(t) /\ \A x : hash(u, x) = hash(t, x)
    BY <1>3 DEF Addresses, Capacity, directory_size, segment_size, SameSizes, hash
  <1> HIDE DEF u, f
  <1>5. \A x \in Element : x \in Entries(u) <=> (x \in Entries(t) /\ x # e) \/ x = f
    BY <1>1, <1>2, <1>3, <1>4, HashInRange, EntriesAre DEF TableOK, Element
  <1>6. Entries(u) \subseteq Element /\ Entries(t) \subseteq Element
    BY <1>1, EntriesAre
  <1> QED
    BY <1>2, <1>3, <1>5, <1>6 DEF u, f

-----------------------------------------------------------------------------
(* Splitting and merging lose, invent and count nothing *)

\* The entries are there, and with them the load factors and the count.
SameContent(t, u) ==
    /\ Entries(u) = Entries(t) /\ u.entry_count = t.entry_count
    /\ u.min_load_factor = t.min_load_factor /\ u.max_load_factor = t.max_load_factor

\* The segment that expand_table clears holds nothing: its addresses are past
\* the last bucket.
LEMMA AddSegmentClears ==
    ASSUME NEW t, TableOK(t), HasRoom(t), NeedsSegment(t), NEW a \in Addresses(t)
    PROVE  AddSegment(t).chain[a] = t.chain[a]
  <1> DEFINE n == t.segment_count
             s == segment_size(t)
  <1>1. t.bucket_count = n * s /\ SegmentOf(t, t.maxp + t.p) = n
    BY NewSegment
  <1>2. s \in Nat \ {0} /\ n \in Nat /\ DOMAIN t.chain = Addresses(t) /\ a \in Nat
    BY SizeFacts DEF TableOK, Addresses
  <1>3. AddSegment(t).chain[a] = IF SegmentOf(t, a) = n THEN {} ELSE t.chain[a]
    BY <1>1, <1>2 DEF AddSegment, TableOK, IsTable, TableType
  <1>4. SegmentOf(t, a) = n => a >= t.bucket_count
    <2>1. SegmentOf(t, a) = a \div s
      BY DEF SegmentOf
    <2> HIDE DEF n, s
    <2>2. PICK q \in Nat, r \in 0..(s - 1) : a = q * s + r /\ a \div s = q
      BY <1>2, DivMod
    <2>3. q * s \in Nat
      BY <1>2
    <2> QED
      BY <1>1, <1>2, <2>1, <2>2, <2>3
  <1> QED
    BY <1>3, <1>4, EntriesAre

\* expand_table adds one bucket, if the directory has room, and keeps every
\* entry.
LEMMA ExpandKeeps ==
    ASSUME NEW t, TableOK(t)
    PROVE  /\ SameContent(t, expand_table(t))
           /\ ~HasRoom(t) => expand_table(t) = t
           /\ HasRoom(t) => expand_table(t).bucket_count = t.bucket_count + 1
  <1>1. CASE ~HasRoom(t)
    BY <1>1 DEF expand_table, SameContent
  <1>2. CASE HasRoom(t)
    <2> DEFINE g == IF NeedsSegment(t) THEN AddSegment(t) ELSE t
               h == AdvanceSplit(g)
               new == t.maxp + t.p
               moved == {e \in h.chain[t.p] : hash(h, e.key) = new}
               c == [h.chain EXCEPT ![t.p] = @ \ moved, ![new] = moved]
               u == [h EXCEPT !.chain = c]
    <2>1. expand_table(t) = u
      <3>1. expand_table(t) = Relocate(h, t.p, new)
        BY <1>2 DEF expand_table
      <3> QED
        BY <3>1 DEF Relocate
    <2>2. /\ t.maxp \in Nat \ {0} /\ t.p \in Nat /\ t.p < t.maxp
          /\ t.bucket_count = new /\ new < Capacity(t) /\ Capacity(t) \in Nat
      BY <1>2, SizeFacts DEF TableOK, ShapeOf, HasRoom
    <2>3. /\ IsTable(g)
          /\ g.bucket_count = t.bucket_count /\ g.entry_count = t.entry_count
          /\ g.directory_size_shift = t.directory_size_shift
          /\ g.segment_size_shift = t.segment_size_shift
          /\ g.min_load_factor = t.min_load_factor /\ g.max_load_factor = t.max_load_factor
          /\ \A a \in Addresses(t) : g.chain[a] = t.chain[a]
      <3>1. CASE NeedsSegment(t)
        <4>1. /\ AddSegment(t).entry_count = t.entry_count
              /\ AddSegment(t).min_load_factor = t.min_load_factor
              /\ AddSegment(t).max_load_factor = t.max_load_factor
          BY DEF AddSegment, TableOK, IsTable, TableType
        <4> QED
          BY <1>2, <3>1, <4>1, AddSegmentFields, AddSegmentClears
      <3>2. CASE ~NeedsSegment(t)
        BY <3>2 DEF TableOK
      <3> QED
        BY <3>1, <3>2
    <2> HIDE DEF g
    <2>4. PICK d, s \in 1..AddrBits : g \in TableType(d, s)
      BY <2>3 DEF IsTable
    <2>5. /\ h.bucket_count = g.bucket_count + 1 /\ h.entry_count = g.entry_count
          /\ h.min_load_factor = g.min_load_factor /\ h.max_load_factor = g.max_load_factor
          /\ h.directory_size_shift = g.directory_size_shift
          /\ h.segment_size_shift = g.segment_size_shift
          /\ h.chain = g.chain
          /\ u.bucket_count = h.bucket_count /\ u.entry_count = h.entry_count
          /\ u.min_load_factor = h.min_load_factor /\ u.max_load_factor = h.max_load_factor
          /\ u.directory_size_shift = h.directory_size_shift
          /\ u.segment_size_shift = h.segment_size_shift
          /\ u.chain = c
      BY <2>4 DEF AdvanceSplit, TableType
    <2>6. /\ DOMAIN g.chain = Addresses(t)
          /\ t.p \in Addresses(t) /\ new \in Addresses(t) /\ t.p # new
      <3>1. DOMAIN g.chain = Addresses(t)
        BY <2>3, <2>4 DEF TableType, Addresses, Capacity, directory_size, segment_size
      <3> QED
        BY <2>2, <3>1 DEF Addresses
    <2>7. t.chain[new] = {}
      BY <2>2, <2>6, EntriesAre
    <2>8. moved \subseteq h.chain[t.p]
      OBVIOUS
    <2>9. TableOK(u) /\ Addresses(u) = Addresses(t)
      BY <2>1, <2>3, <2>5, ExpandOK DEF Addresses, Capacity, directory_size, segment_size
    <2> HIDE DEF h, moved, u
    <2>10. \A e : (\E a \in Addresses(t) : e \in c[a]) <=> (\E a \in Addresses(t) : e \in t.chain[a])
      <3> TAKE e
      <3>1. ASSUME NEW a \in Addresses(t), e \in c[a] PROVE \E b \in Addresses(t) : e \in t.chain[b]
        BY <3>1, <2>3, <2>5, <2>6, <2>8
      <3>2. ASSUME NEW a \in Addresses(t), e \in t.chain[a] PROVE \E b \in Addresses(t) : e \in c[b]
        <4>1. CASE a = t.p /\ e \in moved
          <5>1. e \in c[new]
            BY <4>1, <2>5, <2>6
          <5> QED
            BY <5>1, <2>6
        <4>2. CASE ~(a = t.p /\ e \in moved)
          <5>1. a # new
            BY <3>2, <2>7
          <5>2. e \in c[a]
            BY <5>1, <4>2, <3>2, <2>3, <2>5, <2>6
          <5> QED
            BY <5>2
        <4> QED
          BY <4>1, <4>2
      <3> QED
        BY <3>1, <3>2
    <2>11. \A e : e \in Entries(u) <=> e \in Entries(t)
      BY <2>5, <2>9, <2>10, EntriesAre
    <2> QED
      BY <1>2, <2>1, <2>3, <2>5, <2>11 DEF SameContent
  <1> QED
    BY <1>1, <1>2

\* An expand_table that got no segment keeps every entry.
LEMMA ExpandFailedKeeps ==
    ASSUME NEW t, TableOK(t), HasRoom(t), NeedsSegment(t)
    PROVE  SameContent(t, ExpandFailed(t))
  <1> DEFINE u == ExpandFailed(t)
  <1>1. TableOK(u)
    BY ExpandFailedOK
  <1>2. /\ u.chain = t.chain /\ u.entry_count = t.entry_count
        /\ u.min_load_factor = t.min_load_factor /\ u.max_load_factor = t.max_load_factor
        /\ u.directory_size_shift = t.directory_size_shift
        /\ u.segment_size_shift = t.segment_size_shift
    BY DEF ExpandFailed, TableOK, IsTable, TableType
  <1>3. Addresses(u) = Addresses(t)
    BY <1>2 DEF Addresses, Capacity, directory_size, segment_size
  <1> HIDE DEF u
  <1>4. \A e : e \in Entries(u) <=> e \in Entries(t)
    BY <1>1, <1>2, <1>3, EntriesAre
  <1> QED
    BY <1>2, <1>4 DEF SameContent, u

\* contract_table takes one bucket away, unless one segment is left, and
\* keeps every entry.
LEMMA ContractKeeps ==
    ASSUME NEW t, TableOK(t), NEW u \in contract_table(t)
    PROVE  /\ SameContent(t, u)
           /\ u = t \/ (u.bucket_count = t.bucket_count - 1 /\ t.bucket_count > segment_size(t))
  <1> DEFINE last == t.bucket_count - 1
             less == RetreatSplit(t)
  <1>1. CASE ~(t.bucket_count > segment_size(t) /\ t.segment_count > 1)
    BY <1>1 DEF contract_table, SameContent
  <1>2. CASE t.bucket_count > segment_size(t) /\ t.segment_count > 1
    <2>1. /\ IsTable(less)
          /\ less.maxp \in Nat \ {0} /\ less.p \in Nat /\ less.p < less.maxp
          /\ last = less.maxp + less.p /\ less.bucket_count = last
          /\ less.chain = t.chain
          /\ less.directory_size_shift = t.directory_size_shift
          /\ less.segment_size_shift = t.segment_size_shift
      BY <1>2, RetreatFields
    <2>2. /\ less.entry_count = t.entry_count
          /\ less.min_load_factor = t.min_load_factor /\ less.max_load_factor = t.max_load_factor
      BY DEF RetreatSplit, TableOK, IsTable, TableType
    <2>3. PICK d, s \in 1..AddrBits : less \in TableType(d, s)
      BY <2>1 DEF IsTable
    <2>4. TableOK(u)
      BY ContractOK
    <2> HIDE DEF less
    <2>5. last \in Addresses(t) /\ DOMAIN t.chain = Addresses(t)
      <3>1. t.bucket_count \in Nat /\ segment_size(t) \in Nat /\ Capacity(t) \in Nat
        BY SizeFacts DEF TableOK
      <3>2. t.bucket_count <= Capacity(t)
        BY DEF TableOK, ShapeOf
      <3>3. last \in Addresses(t)
        BY <1>2, <3>1, <3>2 DEF Addresses
      <3> QED
        BY <3>3, SizeFacts DEF TableOK
    <2>6. PICK v : /\ u = DropSegment(v, last)
                   /\ \/ t.chain[last] = {} /\ v = less
                      \/ \E e \in t.chain[last] : v = Splice(less, last, hash(less, e.key))
      <3>1. CASE t.chain[last] = {}
        BY <1>2, <3>1 DEF contract_table, less
      <3>2. CASE t.chain[last] # {}
        BY <1>2, <3>2 DEF contract_table, less
      <3> QED
        BY <3>1, <3>2
    <2>7. /\ u.bucket_count = last /\ u.entry_count = t.entry_count
          /\ u.min_load_factor = t.min_load_factor /\ u.max_load_factor = t.max_load_factor
          /\ u.directory_size_shift = t.directory_size_shift
          /\ u.segment_size_shift = t.segment_size_shift
          /\ u.chain = v.chain
      <3>1. /\ v.bucket_count = last /\ v.entry_count = t.entry_count
            /\ v.min_load_factor = t.min_load_factor /\ v.max_load_factor = t.max_load_factor
            /\ v.directory_size_shift = t.directory_size_shift
            /\ v.segment_size_shift = t.segment_size_shift
            /\ DOMAIN v = DOMAIN less
        BY <2>1, <2>2, <2>3, <2>6 DEF Splice, TableType
      <3>2. DOMAIN less = {"p", "maxp", "entry_count", "bucket_count", "segment_count",
                "min_load_factor", "max_load_factor", "directory_size_shift",
                "segment_size_shift", "directory", "chain"}
        BY <2>3 DEF TableType
      <3> QED
        BY <2>6, <3>1, <3>2 DEF DropSegment
    <2>8. Addresses(u) = Addresses(t)
      BY <2>7 DEF Addresses, Capacity, directory_size, segment_size
    <2>9. \A e : (\E a \in Addresses(t) : e \in v.chain[a]) <=> (\E a \in Addresses(t) : e \in t.chain[a])
      <3>1. CASE v = less
        BY <3>1, <2>1
      <3>2. ASSUME NEW f \in t.chain[last], v = Splice(less, last, hash(less, f.key))
            PROVE  \A e : (\E a \in Addresses(t) : e \in v.chain[a]) <=> (\E a \in Addresses(t) : e \in t.chain[a])
        <4> DEFINE to == hash(less, f.key)
                   c == [t.chain EXCEPT ![to] = t.chain[last] \cup @, ![last] = {}]
        <4>1. v.chain = c
          BY <3>2, <2>1, <2>3 DEF Splice, TableType
        <4>2. to \in Addresses(t) /\ to # last
          <5>1. HashOf[f.key] \in Nat
            BY <2>5, ChainElements, HashAssumption DEF Element
          <5>2. to \in 0..(less.maxp + less.p - 1)
            BY <5>1, <2>1, HashIsAddr, AddrInRange
          <5> HIDE DEF last, to
          <5>3. to \in 0..(last - 1) /\ last \in Nat
            BY <5>2, <2>1
          <5>4. Capacity(t) \in Nat
            BY SizeFacts DEF TableOK
          <5>5. last < Capacity(t)
            BY <2>5, <5>3, <5>4 DEF Addresses
          <5> QED
            BY <5>3, <5>5, <5>4 DEF Addresses
        <4> HIDE DEF to
        <4>3. /\ \A a \in Addresses(t) : a # to /\ a # last => c[a] = t.chain[a]
              /\ c[to] = t.chain[last] \cup t.chain[to] /\ c[last] = {}
          BY <4>2, <2>5
        <4> HIDE DEF c
        <4> QED
          BY <4>1, <4>2, <4>3, <2>5
      <3> QED
        BY <2>6, <3>1, <3>2
    <2>10. \A e : e \in Entries(u) <=> e \in Entries(t)
      BY <2>4, <2>7, <2>8, <2>9, EntriesAre
    <2> QED
      BY <1>2, <2>7, <2>10 DEF SameContent
  <1> QED
    BY <1>1, <1>2

-----------------------------------------------------------------------------
(* The strengthened invariant *)

\* The entries are finitely many, one for a key at most, and entry_count of
\* them.
MapOf(t) ==
    /\ IsFiniteSet(Entries(t))
    /\ \A e, f \in Entries(t) : e.key = f.key => e = f
    /\ t.entry_count = Cardinality(Entries(t))

\* An iterator has still to return the rest of its chain and the chains after
\* it, and nothing else.
IterOf(t, i) ==
    /\ i.seen \subseteq Entries(t) /\ i.rest \subseteq Entries(t)
    /\ \A e \in i.rest : hash(t, e.key) <= i.at
    /\ \A e \in Entries(t) : e \notin i.seen <=> (e \in i.rest \/ hash(t, e.key) > i.at)

MInv ==
    /\ IInv
    /\ table # NULL => MapOf(table)
    /\ iter # NULL => IterOf(table, iter)

\* No well-formed table is the null pointer, and neither is its set of entries.
LEMMA TableNotNull ==
    ASSUME NEW t, TableOK(t)
    PROVE  t # NULL /\ Entries(t) # NULL
  <1>1. t # NULL
    BY NullAssumption DEF TableOK, IsTable
  <1>2. Entries(t) \in SUBSET Element
    BY EntriesAre
  <1> QED
    BY <1>1, <1>2, NullAssumption

\* One more entry for a key that had none, counted.
LEMMA MapAdds ==
    ASSUME NEW t, MapOf(t), NEW u, NEW k, NEW v,
           \A f \in Entries(t) : f.key # k,
           Entries(u) = Entries(t) \cup {[key |-> k, value |-> v]},
           u.entry_count = t.entry_count + 1
    PROVE  MapOf(u)
  <1> DEFINE e == [key |-> k, value |-> v]
  <1>1. e \notin Entries(t) /\ e.key = k
    OBVIOUS
  <1>2. IsFiniteSet(Entries(u)) /\ Cardinality(Entries(u)) = Cardinality(Entries(t)) + 1
    BY <1>1, FS_AddElement DEF MapOf
  <1>3. \A f, g \in Entries(u) : f.key = g.key => f = g
    BY <1>1 DEF MapOf
  <1> QED
    BY <1>2, <1>3 DEF MapOf

\* One entry less, uncounted.
LEMMA MapRemoves ==
    ASSUME NEW t, MapOf(t), NEW u, NEW e \in Entries(t),
           Entries(u) = Entries(t) \ {e}, u.entry_count = t.entry_count - 1
    PROVE  MapOf(u) /\ u.entry_count \in Nat
  <1>1. IsFiniteSet(Entries(u)) /\ Cardinality(Entries(u)) = Cardinality(Entries(t)) - 1
    BY FS_RemoveElement DEF MapOf
  <1>2. Cardinality(Entries(u)) \in Nat
    BY <1>1, FS_CardinalityType
  <1> QED
    BY <1>1, <1>2 DEF MapOf

\* Another entry for the same key.
LEMMA MapExchanges ==
    ASSUME NEW t, MapOf(t), NEW u, NEW e \in Entries(t), NEW v,
           Entries(u) = (Entries(t) \ {e}) \cup {[key |-> e.key, value |-> v]},
           u.entry_count = t.entry_count
    PROVE  MapOf(u)
  <1> DEFINE f == [key |-> e.key, value |-> v]
             rest == Entries(t) \ {e}
  <1>1. /\ IsFiniteSet(rest) /\ Cardinality(rest) = Cardinality(Entries(t)) - 1
        /\ Cardinality(Entries(t)) \in Nat
    BY FS_RemoveElement, FS_CardinalityType DEF MapOf
  <1>2. f \notin rest /\ f.key = e.key
    BY DEF MapOf
  <1>3. IsFiniteSet(rest \cup {f}) /\ Cardinality(rest \cup {f}) = Cardinality(rest) + 1
    BY <1>1, <1>2, FS_AddElement
  <1>4. \A x, y \in Entries(u) : x.key = y.key => x = y
    BY <1>2 DEF MapOf
  <1> QED
    BY <1>1, <1>3, <1>4 DEF MapOf

-----------------------------------------------------------------------------
(* The load *)

\* The integer quotient of dhash.c compared without dividing.
LEMMA QuotientExceeds ==
    ASSUME NEW n \in Nat, NEW b \in Nat \ {0}, NEW m \in Nat
    PROVE  /\ n \div b > m <=> n >= (m + 1) * b
           /\ n \div b < m <=> n < m * b
  <1>1. PICK q \in Nat, r \in 0..(b - 1) : n = q * b + r /\ n \div b = q
    BY DivMod
  <1>2. q * b \in Nat /\ m * b \in Nat /\ (m + 1) * b = m * b + b /\ (q + 1) * b = q * b + b
    OBVIOUS
  <1>3. q > m => n >= (m + 1) * b
    BY <1>1, <1>2, TimesMonotone
  <1>4. q <= m => n < (m + 1) * b
    BY <1>1, <1>2, TimesMonotone
  <1>5. q < m => n < m * b
    BY <1>1, <1>2, TimesMonotone
  <1>6. q >= m => n >= m * b
    BY <1>1, <1>2, TimesMonotone
  <1> QED
    BY <1>1, <1>2, <1>3, <1>4, <1>5, <1>6

\* A split after the insertion that overfilled the table is enough.
LEMMA SplitRelieves ==
    ASSUME NEW n \in Nat, NEW b \in Nat \ {0}, NEW m \in Nat, ~(n \div b > m)
    PROVE  ~((n + 1) \div (b + 1) > m)
  <1>1. n < (m + 1) * b /\ (m + 1) * (b + 1) = (m + 1) * b + (m + 1) /\ (m + 1) * b \in Nat
    BY QuotientExceeds
  <1>2. n + 1 < (m + 1) * (b + 1)
    BY <1>1
  <1>3. (n + 1) \div (b + 1) > m <=> n + 1 >= (m + 1) * (b + 1)
    <2>1. n + 1 \in Nat /\ b + 1 \in Nat \ {0}
      OBVIOUS
    <2> QED
      BY <2>1, QuotientExceeds
  <1>4. (m + 1) * (b + 1) \in Nat
    OBVIOUS
  <1> QED
    BY <1>2, <1>3, <1>4

\* Merging a bucket of a table sparser than min does not overfill it when the
\* load factors are apart.
LEMMA MergeFits ==
    ASSUME NEW n \in Nat, NEW b \in Nat, b >= 2, NEW lo \in Nat, NEW hi \in Nat,
           2 * lo <= hi + 1, n \div b < lo
    PROVE  ~(n \div (b - 1) > hi)
  <1>1. n < lo * b
    BY QuotientExceeds
  <1>2. (2 * lo) * (b - 1) <= (hi + 1) * (b - 1)
    BY TimesMonotone
  <1>3. (2 * lo) * (b - 1) = lo * b + lo * (b - 2)
    OBVIOUS
  <1>4. lo * (b - 2) \in Nat /\ lo * b \in Nat /\ (hi + 1) * (b - 1) \in Nat
    <2>1. b - 2 \in Nat /\ b - 1 \in Nat
      OBVIOUS
    <2> QED
      BY <2>1
  <1>5. n < (hi + 1) * (b - 1)
    BY <1>1, <1>2, <1>3, <1>4
  <1>6. n \div (b - 1) > hi <=> n >= (hi + 1) * (b - 1)
    <2>1. b - 1 \in Nat \ {0}
      OBVIOUS
    <2> QED
      BY <2>1, QuotientExceeds
  <1> QED
    BY <1>4, <1>5, <1>6

-----------------------------------------------------------------------------
(* What the modifying calls do *)

\* LoadBounded, of one call.
LoadKept(t, u) ==
    /\ HasRoom(u) /\ 2 * u.min_load_factor <= u.max_load_factor + 1 /\ OverFull(u)
    => OverFull(t)

\* The numbers that the load is computed from.
LEMMA LoadTypes ==
    ASSUME NEW t, TableOK(t), MapOf(t)
    PROVE  /\ t.entry_count \in Nat /\ t.bucket_count \in Nat \ {0}
           /\ t.min_load_factor \in Nat /\ t.max_load_factor \in Nat
           /\ segment_size(t) \in Nat \ {0}
  <1>1. t.entry_count \in Nat
    BY FS_CardinalityType DEF MapOf
  <1>2. /\ t.maxp \in Nat \ {0} /\ t.p \in Nat /\ t.bucket_count = t.maxp + t.p
        /\ segment_size(t) \in Nat \ {0}
    BY SizeFacts DEF TableOK, ShapeOf
  <1>3. t.min_load_factor \in Nat /\ t.max_load_factor \in Nat
    BY DEF TableOK, IsTable, TableType
  <1> QED
    BY <1>1, <1>2, <1>3

\* hash_enter and hash_get_default of an absent key: nothing happens for lack
\* of memory, or the entry is added, or it is added without its value.
LEMMA InsertEffect ==
    ASSUME MInv, table # NULL, NEW k \in Keys, NEW v \in Values, lookup(table, k) = {},
           NEW op, NEW out, InsertNew(op, k, v, out)
    PROVE  /\ callbacks' = {} /\ TableOK(table') /\ MapOf(table')
           /\ \/ CanFail /\ table' = table /\ ret' = <<op, "NO_MEMORY", NULL>>
              \/ /\ Entries(table') = Entries(table) \cup {[key |-> k, value |-> v]}
                 /\ ret' = <<op, "SUCCESS", out>>
                 /\ LoadKept(table, table')
              \/ /\ CanFail /\ ret' = <<op, "NO_MEMORY", NULL>>
                 /\ Entries(table') = Entries(table) \cup {[key |-> k, value |-> UNDEF]}
  <1> DEFINE linked == Link(table, k, v)
             blank == Link(table, k, UNDEF)
  <1>1. TableOK(table) /\ MapOf(table)
    BY DEF MInv, IInv
  <1>2. \A f \in Entries(table) : f.key # k
    BY <1>1, LookupFinds
  <1>3. /\ TableOK(linked) /\ SameSizes(table, linked)
        /\ Entries(linked) = Entries(table) \cup {[key |-> k, value |-> v]}
        /\ linked.entry_count = table.entry_count + 1
    BY <1>1, LinkOK, LinkAdds
  <1>4. /\ TableOK(blank)
        /\ Entries(blank) = Entries(table) \cup {[key |-> k, value |-> UNDEF]}
        /\ blank.entry_count = table.entry_count + 1
    BY <1>1, LinkOK, LinkAdds
  <1>5. callbacks' = {}
    BY DEF InsertNew, NoCallbacks
  <1>6. MapOf(linked) /\ MapOf(blank)
    BY <1>1, <1>2, <1>3, <1>4, MapAdds
  <1> HIDE DEF linked, blank
  <1>7. CASE MayFail /\ table' = table /\ ret' = <<op, "NO_MEMORY", NULL>>
    BY <1>1, <1>5, <1>7 DEF MayFail
  <1>8. CASE /\ table' = IF OverFull(linked) THEN expand_table(linked) ELSE linked
             /\ ret' = <<op, "SUCCESS", out>>
    <2>1. CASE ~OverFull(linked)
      <3>1. table' = linked
        BY <1>8, <2>1
      <3>2. LoadKept(table, table')
        BY <2>1, <3>1 DEF LoadKept
      <3> QED
        BY <1>3, <1>5, <1>6, <1>8, <3>1, <3>2
    <2>2. CASE OverFull(linked)
      <3>1. table' = expand_table(linked)
        BY <1>8, <2>2
      <3>2. /\ TableOK(table') /\ SameContent(linked, table')
            /\ ~HasRoom(linked) => table' = linked
            /\ HasRoom(linked) => table'.bucket_count = linked.bucket_count + 1
        BY <1>3, <3>1, ExpandOK, ExpandKeeps
      <3>3. MapOf(table')
        BY <1>6, <3>2 DEF MapOf, SameContent
      <3>4. LoadKept(table, table')
        <4>1. CASE ~HasRoom(linked)
          BY <3>2, <4>1 DEF LoadKept
        <4>2. CASE HasRoom(linked)
          <5>1. /\ table'.bucket_count = table.bucket_count + 1
                /\ table'.entry_count = table.entry_count + 1
                /\ table'.max_load_factor = table.max_load_factor
            BY <1>3, <3>2, <4>2 DEF SameSizes, SameContent
          <5>2. /\ table.entry_count \in Nat /\ table.bucket_count \in Nat \ {0}
                /\ table.max_load_factor \in Nat
            BY <1>1, LoadTypes
          <5>3. ~OverFull(table) => ~OverFull(table')
            BY <5>1, <5>2, SplitRelieves DEF OverFull
          <5> QED
            BY <5>3 DEF LoadKept
        <4> QED
          BY <4>1, <4>2
      <3> QED
        BY <1>3, <1>5, <1>8, <3>2, <3>3, <3>4 DEF SameContent
    <2> QED
      BY <2>1, <2>2
  <1>9. CASE /\ MayFail /\ OverFull(blank) /\ HasRoom(blank) /\ NeedsSegment(blank)
             /\ table' = ExpandFailed(blank) /\ ret' = <<op, "NO_MEMORY", NULL>>
    <2>1. TableOK(table') /\ SameContent(blank, table')
      BY <1>4, <1>9, ExpandFailedOK, ExpandFailedKeeps
    <2>2. MapOf(table')
      BY <1>6, <2>1 DEF MapOf, SameContent
    <2> QED
      BY <1>4, <1>5, <1>9, <2>1, <2>2 DEF MayFail, SameContent
  <1> QED
    BY <1>7, <1>8, <1>9 DEF InsertNew, Result, linked, blank

\* hash_enter of a present key: its entry is exchanged and handed back.
LEMMA UpdateEffect ==
    ASSUME MInv, table # NULL, NEW k \in Keys, NEW v \in Values, NEW e \in lookup(table, k),
           Update(e, v)
    PROVE  /\ callbacks' = {[entry |-> e, type |-> "ENTRY_DESTROY"]}
           /\ TableOK(table') /\ MapOf(table') /\ LoadKept(table, table')
           /\ e \in Entries(table) /\ e.key = k
           /\ Entries(table') = (Entries(table) \ {e}) \cup {[key |-> k, value |-> v]}
           /\ ret' = <<"enter", "SUCCESS", NULL>>
  <1>1. TableOK(table) /\ MapOf(table)
    BY DEF MInv, IInv
  <1>2. e \in Entries(table) /\ e.key = k
    BY <1>1, LookupFinds
  <1>3. /\ table' = SetValue(table, e, v) /\ ret' = <<"enter", "SUCCESS", NULL>>
        /\ callbacks' = {[entry |-> e, type |-> "ENTRY_DESTROY"]}
    BY DEF Update, Result
  <1>4. /\ TableOK(table') /\ SameSizes(table, table') /\ table'.entry_count = table.entry_count
        /\ Entries(table') = (Entries(table) \ {e}) \cup {[key |-> k, value |-> v]}
    BY <1>1, <1>3, SetValueOK, SetValueExchanges
  <1>5. MapOf(table')
    BY <1>1, <1>2, <1>4, MapExchanges
  <1>6. LoadKept(table, table')
    BY <1>4 DEF LoadKept, OverFull, SameSizes
  <1> QED
    BY <1>2, <1>3, <1>4, <1>5, <1>6

\* hash_delete of a present key: its entry is gone and handed back.
LEMMA DeleteEffect ==
    ASSUME MInv, table # NULL, NEW k \in Keys, NEW e \in lookup(table, k),
           table' \in IF TooSparse(Unlink(table, e)) THEN contract_table(Unlink(table, e))
                                                      ELSE {Unlink(table, e)}
    PROVE  /\ TableOK(table') /\ MapOf(table') /\ LoadKept(table, table')
           /\ e \in Entries(table) /\ e.key = k
           /\ Entries(table') = Entries(table) \ {e}
  <1> DEFINE rest == Unlink(table, e)
  <1>1. TableOK(table) /\ MapOf(table)
    BY DEF MInv, IInv
  <1>2. e \in Entries(table) /\ e.key = k
    BY <1>1, LookupFinds
  <1>3. /\ TableOK(rest) /\ SameSizes(table, rest) /\ rest.entry_count = table.entry_count - 1
        /\ Entries(rest) = Entries(table) \ {e}
    BY <1>1, UnlinkOK, UnlinkRemoves
  <1>4. MapOf(rest)
    BY <1>1, <1>2, <1>3, MapRemoves
  <1>5. /\ rest.entry_count \in Nat /\ rest.bucket_count \in Nat \ {0}
        /\ rest.min_load_factor \in Nat /\ rest.max_load_factor \in Nat
        /\ segment_size(rest) \in Nat \ {0}
        /\ table.entry_count \in Nat
    BY <1>1, <1>3, <1>4, LoadTypes
  <1> HIDE DEF rest
  <1>6. CASE table' = rest
    <2>1. OverFull(rest) => OverFull(table)
      <3> DEFINE b == rest.bucket_count
                 m == rest.max_load_factor
      <3>1. (m + 1) * b \in Nat /\ b \in Nat \ {0} /\ m \in Nat
        BY <1>5
      <3>2. table.bucket_count = b /\ table.max_load_factor = m
        BY <1>3 DEF SameSizes
      <3> HIDE DEF b, m
      <3>3. rest.entry_count >= (m + 1) * b => table.entry_count >= (m + 1) * b
        BY <1>3, <1>5, <3>1
      <3> QED
        BY <1>5, <3>1, <3>2, <3>3, QuotientExceeds DEF OverFull, b, m
    <2> QED
      BY <1>2, <1>3, <1>4, <1>6, <2>1 DEF LoadKept
  <1>7. CASE TooSparse(rest) /\ table' \in contract_table(rest) /\ table' # rest
    <2>1. /\ TableOK(table') /\ SameContent(rest, table')
          /\ table'.bucket_count = rest.bucket_count - 1 /\ rest.bucket_count > segment_size(rest)
      BY <1>3, <1>7, ContractOK, ContractKeeps
    <2>2. MapOf(table')
      BY <1>4, <2>1 DEF MapOf, SameContent
    <2>3. rest.bucket_count >= 2
      BY <1>5, <2>1
    <2>4. LoadKept(table, table')
      <3> SUFFICES ASSUME 2 * rest.min_load_factor <= rest.max_load_factor + 1
                   PROVE  ~(rest.entry_count \div (rest.bucket_count - 1) > rest.max_load_factor)
        BY <2>1 DEF LoadKept, OverFull, SameContent
      <3>1. rest.entry_count \div rest.bucket_count < rest.min_load_factor
        BY <1>7 DEF TooSparse
      <3> QED
        BY <3>1, <1>5, <2>3, MergeFits
    <2> QED
      BY <1>2, <1>3, <2>1, <2>2, <2>4 DEF SameContent
  <1> QED
    BY <1>6, <1>7 DEF rest

-----------------------------------------------------------------------------
(* What the iterator does *)

\* A new iterator has everything to return.
LEMMA NewIterEffect ==
    ASSUME MInv, table # NULL
    PROVE  IterOf(table, [at |-> 0, rest |-> table.chain[0], seen |-> {}])
  <1>1. TableOK(table)
    BY DEF MInv, IInv
  <1>2. 0 \in Addresses(table) /\ table.chain[0] \subseteq Element
    BY <1>1, ChainElements
  <1>3. \A e \in table.chain[0] : e \in Entries(table) /\ hash(table, e.key) = 0
    BY <1>1, <1>2, EntriesAre DEF TableOK, PlacedOf
  <1>4. \A e \in Entries(table) : /\ e \in table.chain[hash(table, e.key)]
                                  /\ hash(table, e.key) \in Nat
    <2>1. Addresses(table) \subseteq Nat /\ Reachable(table) \subseteq Addresses(table)
      BY <1>1, SizeFacts DEF TableOK, Addresses, Reachable
    <2> QED
      BY <1>1, <2>1, EntriesAre
  <1> QED
    BY <1>3, <1>4 DEF IterOf

\* hash_iter_next returns an entry it has not returned, or the end when it
\* has returned them all.
LEMMA NextEffect ==
    ASSUME MInv, hash_iter_next
    PROVE  /\ table' = table /\ callbacks' = {} /\ iter' \in IterType /\ IterOf(table, iter')
           /\ \/ \E e \in Entries(table) \ iter.seen :
                    /\ iter'.seen = iter.seen \cup {e}
                    /\ ret' = <<"next", "SUCCESS", e>>
              \/ /\ iter'.seen = iter.seen /\ Entries(table) \ iter.seen = {}
                 /\ ret' = <<"next", "END", NULL>>
  <1>1. /\ iter # NULL /\ table # NULL /\ TableOK(table) /\ iter \in IterType
        /\ IterOf(table, iter) /\ table' = table /\ callbacks' = {}
    BY DEF hash_iter_next, MInv, IInv, NoCallbacks
  <1>2. iter' \in IterType
    BY IterNextType DEF MInv
  <1>3. /\ Addresses(table) \subseteq Nat /\ Reachable(table) \subseteq Addresses(table)
        /\ Entries(table) \subseteq Element
        /\ \A e \in Entries(table) : /\ e \in table.chain[hash(table, e.key)]
                                     /\ hash(table, e.key) \in Reachable(table)
        /\ \A a \in Addresses(table) : \A e \in table.chain[a] :
              e \in Entries(table) /\ hash(table, e.key) = a
    <2>1. Addresses(table) \subseteq Nat /\ Reachable(table) \subseteq Addresses(table)
      BY <1>1, SizeFacts DEF TableOK, Addresses, Reachable
    <2> QED
      BY <1>1, <2>1, EntriesAre DEF TableOK, PlacedOf
  <1>4. ASSUME NEW e \in iter.rest,
               iter' = [iter EXCEPT !.rest = @ \ {e}, !.seen = @ \cup {e}],
               ret' = <<"next", "SUCCESS", e>>
        PROVE  /\ e \in Entries(table) \ iter.seen /\ iter'.seen = iter.seen \cup {e}
               /\ IterOf(table, iter')
    <2>1. /\ iter'.rest = iter.rest \ {e} /\ iter'.seen = iter.seen \cup {e} /\ iter'.at = iter.at
          /\ iter.at \in Nat
      BY <1>1, <1>4 DEF IterType
    <2>2. e \in Entries(table) \ iter.seen /\ hash(table, e.key) <= iter.at
      BY <1>1 DEF IterOf
    <2>3. hash(table, e.key) \in Nat
      BY <1>3, <2>2
    <2>4. ~(hash(table, e.key) > iter.at)
      BY <2>1, <2>2, <2>3
    <2> QED
      BY <1>1, <2>1, <2>2, <2>4 DEF IterOf
  <1>5. ASSUME iter.rest = {}, NEW a \in NonEmptyAfter(table, iter.at),
               \A b \in NonEmptyAfter(table, iter.at) : a <= b,
               NEW e \in table.chain[a],
               iter' = [at |-> a, rest |-> table.chain[a] \ {e}, seen |-> iter.seen \cup {e}]
        PROVE  /\ e \in Entries(table) \ iter.seen /\ iter'.seen = iter.seen \cup {e}
               /\ IterOf(table, iter')
    <2>1. a \in Reachable(table) /\ a \in Addresses(table) /\ a \in Nat /\ a > iter.at /\ iter.at \in Nat
      BY <1>1, <1>3 DEF NonEmptyAfter, IterType
    <2>2. e \in Entries(table) /\ hash(table, e.key) = a /\ e \notin iter.seen
      BY <1>1, <1>3, <1>5, <2>1 DEF IterOf
    <2>3. \A x \in Entries(table) : hash(table, x.key) > iter.at <=> hash(table, x.key) >= a
      <3> TAKE x \in Entries(table)
      <3>1. hash(table, x.key) \in Reachable(table) /\ hash(table, x.key) \in Nat
            /\ table.chain[hash(table, x.key)] # {}
        BY <1>3
      <3>2. hash(table, x.key) > iter.at => a <= hash(table, x.key)
        BY <1>5, <3>1 DEF NonEmptyAfter
      <3> QED
        BY <2>1, <3>1, <3>2
    <2>4. \A x \in Entries(table) : /\ x \in table.chain[a] <=> hash(table, x.key) = a
                                    /\ hash(table, x.key) \in Nat
      BY <1>3, <2>1
    <2>5. \A x \in Entries(table) : x \notin iter.seen <=> hash(table, x.key) >= a
      BY <1>1, <1>5, <2>3 DEF IterOf
    <2>6. /\ iter'.rest = table.chain[a] \ {e} /\ iter'.seen = iter.seen \cup {e} /\ iter'.at = a
      BY <1>5
    <2>7. iter'.seen \subseteq Entries(table) /\ iter'.rest \subseteq Entries(table)
      BY <1>1, <1>3, <2>1, <2>2, <2>6 DEF IterOf
    <2>8. \A x \in iter'.rest : hash(table, x.key) <= iter'.at
      BY <1>3, <2>1, <2>6
    <2>9. \A x \in Entries(table) :
             x \notin iter'.seen <=> (x \in iter'.rest \/ hash(table, x.key) > iter'.at)
      <3> TAKE x \in Entries(table)
      <3>1. /\ hash(table, x.key) \in Nat
            /\ hash(table, x.key) >= a <=> hash(table, x.key) = a \/ hash(table, x.key) > a
            /\ x = e => ~(hash(table, x.key) > a)
        BY <2>1, <2>2, <2>4
      <3> QED
        BY <3>1, <2>4, <2>5, <2>6
    <2> QED
      BY <2>2, <2>6, <2>7, <2>8, <2>9 DEF IterOf
  <1>6. ASSUME iter.rest = {}, NonEmptyAfter(table, iter.at) = {},
               iter' = [iter EXCEPT !.at = table.segment_count * segment_size(table)]
        PROVE  /\ Entries(table) \ iter.seen = {} /\ iter'.seen = iter.seen
               /\ IterOf(table, iter')
    <2>1. iter'.rest = {} /\ iter'.seen = iter.seen
          /\ iter'.at = table.segment_count * segment_size(table)
      BY <1>1, <1>6 DEF IterType
    <2>2. \A x \in Entries(table) : ~(hash(table, x.key) > iter.at)
      BY <1>3, <1>6 DEF NonEmptyAfter
    <2>3. \A x \in Entries(table) : x \in iter.seen
      BY <1>1, <1>6, <2>2 DEF IterOf
    <2>4. \A x \in Entries(table) : ~(hash(table, x.key) > iter'.at)
      <3> TAKE x \in Entries(table)
      <3>1. hash(table, x.key) < iter'.at /\ hash(table, x.key) \in Nat
        BY <1>3, <2>1 DEF Reachable
      <3>2. table.segment_count * segment_size(table) \in Nat
        BY <1>1, SizeFacts DEF TableOK
      <3> QED
        BY <3>1, <3>2, <2>1
    <2> QED
      BY <1>1, <2>1, <2>3, <2>4 DEF IterOf
  <1>7. CASE \E e \in iter.rest :
               /\ iter' = [iter EXCEPT !.rest = @ \ {e}, !.seen = @ \cup {e}]
               /\ ret' = <<"next", "SUCCESS", e>>
    BY <1>1, <1>2, <1>4, <1>7
  <1>8. CASE /\ iter.rest = {}
             /\ \E a \in NonEmptyAfter(table, iter.at) :
                  /\ \A b \in NonEmptyAfter(table, iter.at) : a <= b
                  /\ \E e \in table.chain[a] :
                       /\ iter' = [at |-> a, rest |-> table.chain[a] \ {e},
                                   seen |-> iter.seen \cup {e}]
                       /\ ret' = <<"next", "SUCCESS", e>>
    BY <1>1, <1>2, <1>5, <1>8
  <1>9. CASE /\ iter.rest = {} /\ NonEmptyAfter(table, iter.at) = {}
             /\ iter' = [iter EXCEPT !.at = table.segment_count * segment_size(table)]
             /\ ret' = <<"next", "END", NULL>>
    BY <1>1, <1>2, <1>6, <1>9
  <1> QED
    BY <1>7, <1>8, <1>9 DEF hash_iter_next, Result

-----------------------------------------------------------------------------
(* Every step is a step of the map *)

\* The refinement mapping: the entries, and those not yet returned.
TheMap == IF table = NULL THEN NULL ELSE Entries(table)
Pending == IF iter = NULL THEN NULL ELSE Entries(table) \ iter.seen

\* The mapped variables are null exactly when the pointers are.
LEMMA MappedNull ==
    ASSUME MInv
    PROVE  /\ TheMap = NULL <=> table = NULL
           /\ table # NULL => TheMap = Entries(table) /\ TableOK(table) /\ MapOf(table)
           /\ Pending = NULL <=> iter = NULL
           /\ iter # NULL => Pending = Entries(table) \ iter.seen /\ table # NULL
  <1>1. /\ table # NULL => TableOK(table) /\ MapOf(table)
        /\ iter # NULL => table # NULL
    BY DEF MInv, IInv
  <1>2. table # NULL => Entries(table) # NULL /\ Entries(table) \subseteq Element
    BY <1>1, TableNotNull, EntriesAre
  <1>3. table # NULL => Entries(table) \ iter.seen # NULL
    <2> SUFFICES ASSUME table # NULL PROVE Entries(table) \ iter.seen # NULL
      OBVIOUS
    <2>1. Entries(table) \ iter.seen \in SUBSET Element
      BY <1>2
    <2> QED
      BY <2>1, NullAssumption
  <1> QED
    BY <1>1, <1>2, <1>3 DEF TheMap, Pending

\* One entry has a given key, if any.
LEMMA OneOf ==
    ASSUME NEW t, MapOf(t), NEW e \in Entries(t)
    PROVE  {f \in Entries(t) : f.key = e.key} = {e}
  BY DEF MapOf

\* Each call does to the mapped variables what the map's call does.
\* hash_create_ex: a failure, or an empty map.
LEMMA CreateMaps ==
    ASSUME MInv, IInv', NEW args \in CreateArgs, hash_create_ex(args)
    PROVE  MInv' /\ Map!MapNext
  <1>1. table = NULL /\ callbacks' = {} /\ iter' = iter /\ iter = NULL
    BY DEF hash_create_ex, NoCallbacks, MInv, IInv
  <1>2. PICK requested \in 0..AddrBits :
           \/ ret' = <<"create", "EINVAL", NULL>> /\ table' = table
           \/ CanFail /\ ret' = <<"create", "NO_MEMORY", NULL>> /\ table' = table
           \/ /\ table' = NewTable(args, DirectoryBits(args, requested), SegmentBits(args, requested))
              /\ DirectoryBits(args, requested) + SegmentBits(args, requested) <= AddrBits
              /\ ret' = <<"create", "SUCCESS", NULL>>
    BY DEF hash_create_ex, Result
  <1>3. CASE table' = table /\ \/ ret' = <<"create", "EINVAL", NULL>>
                               \/ CanFail /\ ret' = <<"create", "NO_MEMORY", NULL>>
    <2>1. MInv'
      BY <1>1, <1>3 DEF MInv
    <2>2. Map!Fails("create")
      BY <1>1, <1>3 DEF Map!Fails, Map!Returns, Map!Unmodified
    <2> QED
      BY <2>1, <2>2 DEF Map!MapNext
  <1>4. CASE /\ table' = NewTable(args, DirectoryBits(args, requested), SegmentBits(args, requested))
             /\ DirectoryBits(args, requested) + SegmentBits(args, requested) <= AddrBits
             /\ ret' = <<"create", "SUCCESS", NULL>>
    <2>1. TableOK(table')
      <3>1. PICK d \in Nat \ {0}, s \in Nat \ {0} :
               d = DirectoryBits(args, requested) /\ s = SegmentBits(args, requested)
        BY CreateBits
      <3>2. d + s <= AddrBits /\ table' = NewTable(args, d, s)
        BY <3>1, <1>4
      <3>3. d \in 1..AddrBits /\ s \in 1..AddrBits
        BY <3>2, BitType
      <3> QED
        BY <3>2, <3>3, NewTableOK
    <2>2. Entries(table') = {} /\ table'.entry_count = 0
      <3>1. /\ table'.entry_count = 0
            /\ \A a \in DOMAIN table'.chain : table'.chain[a] = {}
        BY <1>4 DEF NewTable
      <3>2. DOMAIN table'.chain = Addresses(table')
        BY <2>1, SizeFacts DEF TableOK
      <3> QED
        BY <3>1, <3>2 DEF Entries, Reachable
    <2>3. MapOf(table')
      BY <2>2, FS_EmptySet DEF MapOf
    <2>4. MInv'
      BY <1>1, <2>3 DEF MInv
    <2>5. table' # NULL
      BY <2>1, TableNotNull
    <2>6. Map!Create
      BY <1>1, <1>4, <2>2, <2>5 DEF Map!Create, Map!Returns
    <2> QED
      BY <2>4, <2>6 DEF Map!MapNext
  <1> QED
    BY <1>2, <1>3, <1>4

\* hash_destroy: every entry is handed to the callback and the map is gone.
LEMMA DestroyMaps ==
    ASSUME MInv, IInv', hash_destroy
    PROVE  MInv' /\ Map!MapNext
  <1>1. /\ table # NULL /\ iter = NULL /\ iter' = NULL /\ table' = NULL
        /\ callbacks' = {[entry |-> e, type |-> "TABLE_DESTROY"] : e \in Entries(table)}
        /\ ret' = <<"destroy", "SUCCESS", NULL>>
    BY DEF hash_destroy, Result
  <1>2. MInv'
    BY <1>1 DEF MInv
  <1>3. Entries(table) # NULL
    BY <1>1, TableNotNull DEF MInv, IInv
  <1>4. Map!Destroy
    BY <1>1, <1>3 DEF Map!Destroy, Map!ReturnsDropping, Map!MayModify
  <1> QED
    BY <1>2, <1>4 DEF Map!MapNext

\* A call that changes neither the table nor the iterator keeps the invariant
\* and the mapped variables.
LEMMA UnchangedMaps ==
    ASSUME MInv, IInv', table' = table, iter' = iter
    PROVE  MInv' /\ Map!Unmodified
  BY DEF MInv, Map!Unmodified

\* An insertion, by either of the calls that insert.
LEMMA InsertMaps ==
    ASSUME MInv, IInv', table # NULL, iter = NULL, iter' = NULL,
           NEW k \in Keys, NEW v \in Values, lookup(table, k) = {},
           NEW op \in {"enter", "get_default"}, NEW out, InsertNew(op, k, v, out)
    PROVE  MInv' /\ (Map!Fails(op) \/ Map!Insert(op, k, v, out) \/ Map!InsertBlank(op, k))
  <1>1. /\ callbacks' = {} /\ TableOK(table') /\ MapOf(table')
        /\ \/ CanFail /\ table' = table /\ ret' = <<op, "NO_MEMORY", NULL>>
           \/ /\ Entries(table') = Entries(table) \cup {[key |-> k, value |-> v]}
              /\ ret' = <<op, "SUCCESS", out>>
           \/ /\ CanFail /\ ret' = <<op, "NO_MEMORY", NULL>>
              /\ Entries(table') = Entries(table) \cup {[key |-> k, value |-> UNDEF]}
    BY InsertEffect
  <1>2. MInv'
    BY <1>1 DEF MInv
  <1>3. table' # NULL /\ Entries(table) # NULL /\ {e \in Entries(table) : e.key = k} = {}
    BY <1>1, TableNotNull, LookupFinds DEF MInv, IInv
  <1>4. CASE CanFail /\ table' = table /\ ret' = <<op, "NO_MEMORY", NULL>>
    <2>1. Map!Fails(op)
      BY <1>1, <1>3, <1>4 DEF Map!Fails, Map!Returns, Map!Unmodified
    <2> QED
      BY <1>2, <2>1
  <1>5. CASE /\ Entries(table') = Entries(table) \cup {[key |-> k, value |-> v]}
             /\ ret' = <<op, "SUCCESS", out>>
    <2>1. Map!Insert(op, k, v, out)
      BY <1>1, <1>3, <1>5 DEF Map!Insert, Map!Returns, Map!MayModify, Map!Of, Map!Entry
    <2> QED
      BY <1>2, <2>1
  <1>6. CASE /\ CanFail /\ ret' = <<op, "NO_MEMORY", NULL>>
             /\ Entries(table') = Entries(table) \cup {[key |-> k, value |-> UNDEF]}
    <2>1. Map!InsertBlank(op, k)
      BY <1>1, <1>3, <1>6 DEF Map!InsertBlank, Map!Returns, Map!MayModify, Map!Of, Map!Entry
    <2> QED
      BY <1>2, <2>1
  <1> QED
    BY <1>1, <1>4, <1>5, <1>6

\* A call that is refused for its arguments fails in the map, too.
LEMMA RejectMaps ==
    ASSUME MInv, IInv', table # NULL, iter' = iter,
           NEW op \in {"enter", "get_default", "delete"},
           NEW code \in {"BAD_KEY_TYPE", "BAD_VALUE_TYPE"}, Reject(op, code)
    PROVE  MInv' /\ Map!Fails(op)
  <1>1. table' = table /\ callbacks' = {} /\ ret' = <<op, code, NULL>>
    BY DEF Reject, Result, NoCallbacks
  <1>2. MInv' /\ Map!Unmodified
    BY <1>1, UnchangedMaps
  <1>3. Entries(table) # NULL
    BY TableNotNull DEF MInv, IInv
  <1>4. Map!Fails(op)
    BY <1>1, <1>2, <1>3 DEF Map!Fails, Map!Returns
  <1> QED
    BY <1>2, <1>4

\* hash_enter: a refusal, an overwriting or an insertion.
LEMMA EnterMaps ==
    ASSUME MInv, IInv', NEW k \in Keys \cup {BAD}, NEW v \in Values \cup {BAD}, hash_enter(k, v)
    PROVE  MInv' /\ Map!MapNext
  <1>1. table # NULL /\ iter = NULL /\ iter' = NULL /\ Entries(table) # NULL
    BY TableNotNull DEF hash_enter, MInv, IInv
  <1>2. CASE Reject("enter", "BAD_KEY_TYPE") \/ Reject("enter", "BAD_VALUE_TYPE")
    BY <1>1, <1>2, RejectMaps DEF Map!MapNext
  <1>3. ASSUME k \in Keys, v \in Values, NEW e \in lookup(table, k), Update(e, v)
        PROVE  MInv' /\ Map!MapNext
    <2>1. /\ callbacks' = {[entry |-> e, type |-> "ENTRY_DESTROY"]}
          /\ TableOK(table') /\ MapOf(table')
          /\ e \in Entries(table) /\ e.key = k
          /\ Entries(table') = (Entries(table) \ {e}) \cup {[key |-> k, value |-> v]}
          /\ ret' = <<"enter", "SUCCESS", NULL>>
      BY <1>1, <1>3, UpdateEffect
    <2>2. {f \in Entries(table) : f.key = k} = {e}
      BY <1>1, <2>1, OneOf DEF MInv
    <2>3. table' # NULL /\ MInv'
      BY <1>1, <2>1, TableNotNull DEF MInv
    <2>4. Map!Overwrite(k, v)
      BY <1>1, <2>1, <2>2, <2>3 DEF Map!Overwrite, Map!ReturnsDropping, Map!MayModify, Map!Of, Map!Entry
    <2> QED
      BY <1>3, <2>3, <2>4 DEF Map!MapNext
  <1>4. CASE /\ k \in Keys /\ v \in Values /\ lookup(table, k) = {}
             /\ InsertNew("enter", k, v, NULL)
    BY <1>1, <1>4, InsertMaps DEF Map!MapNext
  <1> QED
    BY <1>2, <1>3, <1>4 DEF hash_enter

\* hash_lookup: the value of the key's one entry, or none.
LEMMA LookupMaps ==
    ASSUME MInv, IInv', NEW k \in Keys \cup {BAD}, hash_lookup(k)
    PROVE  MInv' /\ Map!MapNext
  <1>1. /\ table # NULL /\ table' = table /\ iter' = iter /\ callbacks' = {}
        /\ Entries(table) # NULL /\ TableOK(table)
    BY TableNotNull DEF hash_lookup, NoCallbacks, MInv, IInv
  <1>2. MInv' /\ Map!Unmodified
    BY <1>1, UnchangedMaps
  <1>3. CASE ret' = <<"lookup", "BAD_KEY_TYPE", NULL>>
    <2>1. Map!Fails("lookup")
      BY <1>1, <1>2, <1>3 DEF Map!Fails, Map!Returns
    <2> QED
      BY <1>2, <2>1 DEF Map!MapNext
  <1>4. CASE k \in Keys /\ \/ lookup(table, k) = {} /\ ret' = <<"lookup", "KEY_NOT_FOUND", NULL>>
                           \/ \E e \in lookup(table, k) : ret' = <<"lookup", "SUCCESS", e.value>>
    <2>1. lookup(table, k) = {e \in Entries(table) : e.key = k}
      BY <1>1, <1>4, LookupFinds
    <2>2. Map!Lookup(k)
      BY <1>1, <1>2, <1>4, <2>1 DEF Map!Lookup, Map!Of, Map!Returns
    <2> QED
      BY <1>2, <1>4, <2>2 DEF Map!MapNext
  <1> QED
    BY <1>3, <1>4 DEF hash_lookup, Result

\* hash_get_default: the value found, or the default inserted.
LEMMA GetDefaultMaps ==
    ASSUME MInv, IInv', NEW k \in Keys \cup {BAD}, NEW v \in Values \cup {BAD}, hash_get_default(k, v)
    PROVE  MInv' /\ Map!MapNext
  <1>1. table # NULL /\ iter = NULL /\ iter' = NULL /\ Entries(table) # NULL /\ TableOK(table)
    BY TableNotNull DEF hash_get_default, MInv, IInv
  <1>2. CASE Reject("get_default", "BAD_KEY_TYPE") \/ Reject("get_default", "BAD_VALUE_TYPE")
    BY <1>1, <1>2, RejectMaps DEF Map!MapNext
  <1>3. ASSUME k \in Keys, NEW e \in lookup(table, k),
               ret' = <<"get_default", "SUCCESS", e.value>>, callbacks' = {}, table' = table
        PROVE  MInv' /\ Map!MapNext
    <2>1. MInv'
      BY <1>1, <1>3, UnchangedMaps
    <2>2. lookup(table, k) = {f \in Entries(table) : f.key = k}
      BY <1>1, <1>3, LookupFinds
    <2>3. Map!GetPresent(k)
      BY <1>1, <1>3, <2>2 DEF Map!GetPresent, Map!Of, Map!Returns, Map!MayModify
    <2> QED
      BY <1>3, <2>1, <2>3 DEF Map!MapNext
  <1>4. CASE /\ k \in Keys /\ v \in Values /\ lookup(table, k) = {}
             /\ InsertNew("get_default", k, v, v)
    BY <1>1, <1>4, InsertMaps DEF Map!MapNext
  <1> QED
    BY <1>2, <1>3, <1>4 DEF hash_get_default, Result, NoCallbacks

\* hash_delete: the key's one entry is gone, or there was none.
LEMMA DeleteMaps ==
    ASSUME MInv, IInv', NEW k \in Keys \cup {BAD}, hash_delete(k)
    PROVE  MInv' /\ Map!MapNext
  <1>1. table # NULL /\ iter = NULL /\ iter' = NULL /\ Entries(table) # NULL /\ TableOK(table)
    BY TableNotNull DEF hash_delete, MInv, IInv
  <1>2. CASE Reject("delete", "BAD_KEY_TYPE")
    BY <1>1, <1>2, RejectMaps DEF Map!MapNext
  <1>3. CASE k \in Keys /\ lookup(table, k) = {} /\ Reject("delete", "KEY_NOT_FOUND")
    <2>1. table' = table /\ callbacks' = {} /\ ret' = <<"delete", "KEY_NOT_FOUND", NULL>>
      BY <1>3 DEF Reject, Result, NoCallbacks
    <2>2. MInv'
      BY <1>1, <2>1, UnchangedMaps
    <2>3. {f \in Entries(table) : f.key = k} = {}
      BY <1>1, <1>3, LookupFinds
    <2>4. Map!DeleteAbsent(k)
      BY <1>1, <2>1, <2>3 DEF Map!DeleteAbsent, Map!Of, Map!Returns, Map!MayModify
    <2> QED
      BY <1>3, <2>2, <2>4 DEF Map!MapNext
  <1>4. ASSUME k \in Keys, NEW e \in lookup(table, k),
               callbacks' = {[entry |-> e, type |-> "ENTRY_DESTROY"]},
               table' \in IF TooSparse(Unlink(table, e)) THEN contract_table(Unlink(table, e))
                                                          ELSE {Unlink(table, e)},
               ret' = <<"delete", "SUCCESS", NULL>>
        PROVE  MInv' /\ Map!MapNext
    <2>1. /\ TableOK(table') /\ MapOf(table')
          /\ e \in Entries(table) /\ e.key = k
          /\ Entries(table') = Entries(table) \ {e}
      BY <1>1, <1>4, DeleteEffect
    <2>2. {f \in Entries(table) : f.key = k} = {e}
      BY <1>1, <2>1, OneOf DEF MInv
    <2>3. table' # NULL /\ MInv'
      BY <1>1, <2>1, TableNotNull DEF MInv
    <2>4. Map!Delete(k)
      BY <1>1, <1>4, <2>1, <2>2, <2>3 DEF Map!Delete, Map!ReturnsDropping, Map!MayModify, Map!Of
    <2> QED
      BY <1>4, <2>3, <2>4 DEF Map!MapNext
  <1> QED
    BY <1>2, <1>3, <1>4 DEF hash_delete, Result

\* hash_count and hash_entries report what the map holds: entry_count is the
\* number of entries the loops reach.
LEMMA ReportMaps ==
    ASSUME MInv, IInv', hash_count \/ hash_entries
    PROVE  MInv' /\ Map!MapNext
  <1>1. /\ table # NULL /\ table' = table /\ iter' = iter /\ callbacks' = {}
        /\ Entries(table) # NULL /\ MapOf(table)
    BY TableNotNull DEF hash_count, hash_entries, NoCallbacks, MInv, IInv
  <1>2. MInv' /\ Map!Unmodified
    BY <1>1, UnchangedMaps
  <1>3. CASE hash_count
    <2>1. ret' = <<"count", "SUCCESS", Cardinality(Entries(table))>>
      BY <1>1, <1>3 DEF hash_count, Result, MapOf
    <2>2. Map!Cardinality(Entries(table)) = Cardinality(Entries(table))
      BY Zenon DEF Map!Cardinality, Cardinality, Map!IsFiniteSet, IsFiniteSet
    <2>3. Map!Count
      BY <1>1, <1>2, <2>1, <2>2 DEF Map!Count, Map!Returns
    <2> QED
      BY <1>2, <2>3 DEF Map!MapNext
  <1>4. CASE hash_entries
    <2>1. table.entry_count = 0 => Entries(table) = {}
      BY <1>1, FS_EmptySet DEF MapOf
    <2>2. CASE ret' = <<"entries", "SUCCESS", Entries(table)>>
      <3>1. Map!AllOf
        BY <1>1, <1>2, <2>2 DEF Map!AllOf, Map!Returns
      <3> QED
        BY <1>2, <3>1 DEF Map!MapNext
    <2>3. CASE CanFail /\ ret' = <<"entries", "NO_MEMORY", NULL>>
      <3>1. Map!Fails("entries")
        BY <1>1, <1>2, <2>3 DEF Map!Fails, Map!Returns
      <3> QED
        BY <1>2, <3>1 DEF Map!MapNext
    <2> QED
      BY <1>4, <2>1, <2>2, <2>3 DEF hash_entries, Result, MayFail
  <1> QED
    BY <1>3, <1>4

\* new_hash_iter_context: everything is to be returned.
LEMMA NewIterMaps ==
    ASSUME MInv, IInv', new_hash_iter_context
    PROVE  MInv' /\ Map!MapNext
  <1>1. /\ table # NULL /\ iter = NULL /\ table' = table /\ callbacks' = {}
        /\ Entries(table) # NULL /\ TableOK(table)
    BY TableNotNull DEF new_hash_iter_context, NoCallbacks, MInv, IInv
  <1>2. CASE /\ iter' = [at |-> 0, rest |-> table.chain[0], seen |-> {}]
             /\ ret' = <<"new_iter", "SUCCESS", NULL>>
    <2>1. iter' \in IterType
      BY <1>1, <1>2, ChainElements DEF IterType
    <2>2. iter' # NULL /\ iter'.seen = {}
      BY <1>2, <2>1, NullAssumption
    <2>3. MInv'
      BY <1>1, <1>2, NewIterEffect DEF MInv
    <2>4. Map!Iterate
      BY <1>1, <1>2, <2>2 DEF Map!Iterate, Map!Returns
    <2> QED
      BY <2>3, <2>4 DEF Map!MapNext
  <1>3. CASE CanFail /\ iter' = iter /\ ret' = <<"new_iter", "NO_MEMORY", NULL>>
    <2>1. MInv' /\ Map!Unmodified
      BY <1>1, <1>3, UnchangedMaps
    <2>2. Map!Fails("new_iter")
      BY <1>1, <1>3, <2>1 DEF Map!Fails, Map!Returns
    <2> QED
      BY <2>1, <2>2 DEF Map!MapNext
  <1> QED
    BY <1>2, <1>3 DEF new_hash_iter_context, Result, MayFail

\* hash_iter_next: one entry that was still to be returned, or the end.
LEMMA IterNextMaps ==
    ASSUME MInv, IInv', hash_iter_next
    PROVE  MInv' /\ Map!MapNext
  <1>1. iter # NULL
    BY DEF hash_iter_next
  <1>2. /\ table' = table /\ callbacks' = {} /\ iter' \in IterType /\ IterOf(table, iter')
        /\ \/ \E e \in Entries(table) \ iter.seen :
                 /\ iter'.seen = iter.seen \cup {e}
                 /\ ret' = <<"next", "SUCCESS", e>>
           \/ /\ iter'.seen = iter.seen /\ Entries(table) \ iter.seen = {}
              /\ ret' = <<"next", "END", NULL>>
    BY NextEffect
  <1>3. iter' # NULL /\ Entries(table) \ iter.seen # NULL
    BY <1>1, <1>2, MappedNull, NullAssumption
  <1>4. MInv'
    BY <1>2 DEF MInv
  <1>5. Map!IterNext
    <2>1. CASE \E e \in Entries(table) \ iter.seen :
                 /\ iter'.seen = iter.seen \cup {e}
                 /\ ret' = <<"next", "SUCCESS", e>>
      <3>1. PICK e \in Entries(table) \ iter.seen :
               iter'.seen = iter.seen \cup {e} /\ ret' = <<"next", "SUCCESS", e>>
        BY <2>1
      <3>2. Entries(table) \ iter'.seen = (Entries(table) \ iter.seen) \ {e}
        BY <3>1
      <3> QED
        BY <1>1, <1>2, <1>3, <3>1, <3>2 DEF Map!IterNext, Map!Returns
    <2>2. CASE /\ iter'.seen = iter.seen /\ Entries(table) \ iter.seen = {}
               /\ ret' = <<"next", "END", NULL>>
      BY <1>1, <1>2, <1>3, <2>2 DEF Map!IterNext, Map!Returns
    <2> QED
      BY <1>2, <2>1, <2>2
  <1> QED
    BY <1>4, <1>5 DEF Map!MapNext

\* Freeing the iterator ends the iteration.
LEMMA FreeIterMaps ==
    ASSUME MInv, IInv', FreeIter
    PROVE  MInv' /\ Map!MapNext
  <1>1. /\ iter # NULL /\ iter' = NULL /\ table' = table /\ callbacks' = {}
        /\ ret' = <<"free_iter", "SUCCESS", NULL>>
    BY DEF FreeIter, Result, NoCallbacks
  <1>2. Entries(table) \ iter.seen # NULL
    BY <1>1, MappedNull DEF Pending
  <1>3. MInv'
    BY <1>1 DEF MInv
  <1>4. Map!StopIterating
    BY <1>1, <1>2 DEF Map!StopIterating, Map!Returns
  <1> QED
    BY <1>3, <1>4 DEF Map!MapNext

\* Every step keeps the strengthened invariant and is a step of the map.
LEMMA StepMaps ==
    ASSUME MInv, [Next]_vars
    PROVE  MInv' /\ [Map!MapNext]_(Map!mapVars)
  <1>1. IInv'
    BY InvNext DEF MInv
  <1>2. CASE \E args \in CreateArgs : hash_create_ex(args)
    BY <1>1, <1>2, CreateMaps
  <1>3. CASE hash_destroy
    BY <1>1, <1>3, DestroyMaps
  <1>4. CASE \E k \in Keys \cup {BAD}, v \in Values \cup {BAD} : hash_enter(k, v)
    BY <1>1, <1>4, EnterMaps
  <1>5. CASE \E k \in Keys \cup {BAD}, v \in Values \cup {BAD} : hash_get_default(k, v)
    BY <1>1, <1>5, GetDefaultMaps
  <1>6. CASE \E k \in Keys \cup {BAD} : hash_lookup(k)
    BY <1>1, <1>6, LookupMaps
  <1>7. CASE \E k \in Keys \cup {BAD} : hash_delete(k)
    BY <1>1, <1>7, DeleteMaps
  <1>8. CASE hash_count \/ hash_entries
    BY <1>1, <1>8, ReportMaps
  <1>9. CASE new_hash_iter_context
    BY <1>1, <1>9, NewIterMaps
  <1>10. CASE hash_iter_next
    BY <1>1, <1>10, IterNextMaps
  <1>11. CASE FreeIter
    BY <1>1, <1>11, FreeIterMaps
  <1>12. CASE UNCHANGED vars
    <2>1. MInv'
      BY <1>1, <1>12, UnchangedMaps DEF vars
    <2>2. UNCHANGED Map!mapVars
      BY <1>12 DEF vars, Map!mapVars
    <2> QED
      BY <2>1, <2>2
  <1> QED
    BY <1>2, <1>3, <1>4, <1>5, <1>6, <1>7, <1>8, <1>9, <1>10, <1>11, <1>12 DEF Next

\* The strengthened invariant holds before any call.
LEMMA MInvInit == Init => MInv
  BY InvInit DEF Init, MInv

-----------------------------------------------------------------------------
(* The theorems *)

\* One entry for a key at most, and hash_count() the number of them: the
\* invariant that the refinement rests on.
THEOREM MapInvariant == Spec => []MInv
  <1>1. MInv /\ [Next]_vars => MInv'
    BY StepMaps
  <1> QED
    BY <1>1, MInvInit, PTL DEF Spec

\* dhash.c is the map that dhash.h promises: whatever splits and merges
\* happen, every call returns what the map's call returns, hands the callback
\* the entries it drops, and an iteration returns every entry once.
THEOREM MapCorrect == Spec => ImplementsMap
  <1>1. Init => Map!MapInit
    BY DEF Init, Map!MapInit
  <1>2. MInv /\ [Next]_vars => [Map!MapNext]_(Map!mapVars)
    BY StepMaps
  <1> QED
    BY <1>1, <1>2, MapInvariant, PTL DEF Spec, ImplementsMap, Map!MapSpec

\* A call that is not refused memory leaves the table over-full only when it
\* was so before, while the directory has room: one split in hash_enter is
\* enough, and a merge in hash_delete never undoes it.
THEOREM LoadCorrect == Spec => LoadBounded
  <1> DEFINE Bounded == /\ table # NULL /\ table' # NULL /\ ret'[2] # "NO_MEMORY"
                        /\ HasRoom(table') /\ 2 * table'.min_load_factor <= table'.max_load_factor + 1
                        /\ OverFull(table')
                        => OverFull(table)
  <1>1. MInv /\ [Next]_vars => [Bounded]_vars
    <2> SUFFICES ASSUME MInv, Next, table # NULL, table' # NULL, table' # table,
                        ret'[2] # "NO_MEMORY"
                 PROVE  LoadKept(table, table')
      BY DEF LoadKept
    <2>1. ASSUME NEW op, NEW out, NEW k \in Keys, NEW v \in Values, lookup(table, k) = {},
                 InsertNew(op, k, v, out)
          PROVE  LoadKept(table, table')
      BY <2>1, InsertEffect
    <2>2. CASE \E k \in Keys \cup {BAD}, v \in Values \cup {BAD} : hash_enter(k, v)
      BY <2>1, <2>2, UpdateEffect DEF hash_enter, Reject
    <2>3. CASE \E k \in Keys \cup {BAD}, v \in Values \cup {BAD} : hash_get_default(k, v)
      BY <2>1, <2>3 DEF hash_get_default, Reject
    <2>4. CASE \E k \in Keys \cup {BAD} : hash_delete(k)
      BY <2>4, DeleteEffect DEF hash_delete, Reject
    <2>5. CASE \/ hash_count \/ hash_entries \/ new_hash_iter_context \/ hash_iter_next \/ FreeIter
               \/ \E k \in Keys \cup {BAD} : hash_lookup(k)
      BY <2>5 DEF hash_count, hash_entries, new_hash_iter_context, hash_iter_next, FreeIter, hash_lookup
    <2>6. ~hash_destroy /\ \A args \in CreateArgs : ~hash_create_ex(args)
      BY DEF hash_destroy, hash_create_ex
    <2> QED
      BY <2>2, <2>3, <2>4, <2>5, <2>6 DEF Next
  <1> QED
    BY <1>1, MapInvariant, PTL DEF Spec, LoadBounded

=============================================================================
