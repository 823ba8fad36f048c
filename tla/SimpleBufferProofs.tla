------------------------- MODULE SimpleBufferProofs -------------------------
(***************************************************************************)
(* Theorems about SimpleBuffer for every width of its counters, every      *)
(* bound and every data: the adds never leave the allocated memory, and a  *)
(* save writes all of the buffer.                                          *)
(***************************************************************************)
EXTENDS SimpleBuffer, TLAPS

\* A pending add: the arguments simplebuffer_grow got from it.
CallOK ==
    call # Idle =>
        /\ call = [data |-> call.data, len |-> call.len, block |-> call.block]
        /\ call.data \in Seq(Byte)
        /\ length + Len(call.data) <= MaxLen
        /\ call.len = Len(call.data) + 1
        /\ call.block \in Nat /\ MaxLen + 1 + call.block < M

BufferOK ==
    /\ mem \in [0..(M - 1) -> Byte \cup {NUL, JUNK}]
    /\ size \in 0..(M - 1) /\ alloc = size
    /\ added \in Seq(Byte) /\ length = Len(added) /\ length <= MaxLen

IInv ==
    /\ BufferOK /\ CallOK
    /\ WithinAlloc
    /\ HoldsAdded
    /\ left # Idle => left \in 0..length

\* The sum simplebuffer_grow compares does not wrap.
LEMMA NoWrap ==
    ASSUME IInv, call # Idle
    PROVE  /\ length \in Nat /\ Len(call.data) \in Nat
           /\ (length + call.len) % M = length + Len(call.data) + 1
           /\ (length + Len(call.data)) % M = length + Len(call.data)
           /\ length + Len(call.data) + 1 <= MaxLen + 1 /\ MaxLen + 1 < M
  <1>1. Len(call.data) \in Nat /\ length \in Nat /\ M \in Nat /\ MaxLen \in Nat
    BY BufferAssumption DEF IInv, CallOK, BufferOK
  <1>2. call.len = Len(call.data) + 1 /\ length + Len(call.data) <= MaxLen /\ MaxLen + 1 < M
    BY <1>1, BufferAssumption DEF IInv, CallOK
  <1>3. \A x \in Nat : x < M => (x % M) = x
    BY <1>1
  <1> DEFINE n == Len(call.data)
  <1>4. length + call.len = length + n + 1
    BY <1>1, <1>2
  <1> HIDE DEF n
  <1>5. length + n \in Nat /\ length + n + 1 \in Nat /\ length + n < M /\ length + n + 1 < M
    BY <1>1, <1>2 DEF n
  <1>6. (length + call.len) % M = length + n + 1 /\ (length + n) % M = length + n
    BY <1>3, <1>4, <1>5
  <1>7. length + n + 1 <= MaxLen + 1 /\ n \in Nat
    BY <1>1, <1>2 DEF n
  <1> QED
    BY <1>1, <1>2, <1>6, <1>7 DEF n

\* The invariant holds for a new buffer.
LEMMA InvInit == Init => IInv
  <1> SUFFICES ASSUME Init PROVE IInv
    OBVIOUS
  <1>1. M \in Nat /\ MaxLen \in Nat /\ M > 0
    BY BufferAssumption
  <1>2. BufferOK /\ CallOK
    BY <1>1 DEF Init, BufferOK, CallOK
  <1>3. WithinAlloc /\ HoldsAdded
    BY <1>1 DEF Init, WithinAlloc, HoldsAdded
  <1> QED
    BY <1>2, <1>3 DEF Init, IInv

\* simplebuffer_add_raw asks for the data and the zero.
LEMMA AddStep ==
    ASSUME IInv, NEW data \in Data, NEW block \in Blocks,
           Len(added) + Len(data) <= MaxLen, Add(data, block)
    PROVE  IInv'
  <1>1. data \in Seq(Byte) /\ Len(data) \in Nat
    BY DEF Data
  <1>2. block \in Nat /\ M \in Nat /\ MaxLen \in Nat /\ 2 * MaxLen + 2 < M /\ MaxLen + 1 + block < M
    BY BufferAssumption
  <1>3. UNCHANGED <<mem, alloc, size, length, added, left>>
    BY DEF Add, BeginAdd, buffer
  <1>4. call' = [data |-> data, len |-> Len(data) + 1, block |-> Larger(block, Len(data) + 1)]
    BY DEF Add, BeginAdd
  <1>5. length \in Nat /\ length = Len(added)
    BY DEF IInv, BufferOK
  <1>6. /\ Larger(block, Len(data) + 1) \in Nat
        /\ MaxLen + 1 + Larger(block, Len(data) + 1) < M
    <2>1. PICK n \in Nat : n = Len(data) /\ n <= MaxLen
      BY <1>1, <1>2, <1>5
    <2>2. Larger(block, n + 1) \in {block, n + 1} /\ MaxLen + 1 + (n + 1) < M
      BY <2>1, <1>2 DEF Larger
    <2> QED
      BY <2>1, <2>2, <1>2
  <1>7. CallOK'
    BY <1>1, <1>3, <1>4, <1>5, <1>6 DEF CallOK
  <1>8. (BufferOK /\ WithinAlloc /\ HoldsAdded)'
    BY <1>3 DEF IInv, BufferOK, WithinAlloc, HoldsAdded
  <1> QED
    BY <1>3, <1>7, <1>8 DEF IInv

\* One turn of the loop of simplebuffer_grow: the size does not wrap, so the
\* memory only grows.
LEMMA GrowStep == ASSUME IInv, simplebuffer_grow PROVE IInv'
  <1>1. /\ call # Idle /\ (length + call.len) % M >= size
        /\ alloc' = (size + call.block) % M /\ size' = (size + call.block) % M
        /\ mem' = [i \in 0..(M - 1) |-> IF i < alloc' THEN mem[i] ELSE JUNK]
        /\ UNCHANGED <<length, added, call, left>>
    BY DEF simplebuffer_grow, MustGrow
  <1>2. /\ size \in Nat /\ call.block \in Nat /\ M \in Nat /\ MaxLen \in Nat
        /\ MaxLen + 1 + call.block < M
    BY <1>1, BufferAssumption DEF IInv, BufferOK, CallOK
  <1>3. size <= MaxLen + 1
    BY <1>1, <1>2, NoWrap
  <1>4. (size + call.block) % M = size + call.block
    <2>1. \A x \in Nat : x < M => (x % M) = x
      BY <1>2
    <2>2. size + call.block \in Nat /\ size + call.block < M
      BY <1>2, <1>3
    <2> QED
      BY <2>1, <2>2
  <1>5. size' \in 0..(M - 1) /\ alloc' = size' /\ size' >= size
    BY <1>1, <1>2, <1>3, <1>4
  <1>6. \A i \in 0..(M - 1) : mem'[i] = mem[i]
    <2> SUFFICES ASSUME NEW i \in 0..(M - 1) PROVE mem'[i] = mem[i]
      OBVIOUS
    <2>1. CASE i < alloc'
      BY <2>1, <1>1
    <2>2. CASE ~(i < alloc')
      <3>1. i >= alloc
        BY <2>2, <1>2, <1>5 DEF IInv, BufferOK
      <3> QED
        BY <3>1, <2>2, <1>1 DEF IInv, WithinAlloc
    <2> QED
      BY <2>1, <2>2
  <1>7. mem' = mem
    BY <1>1, <1>6 DEF IInv, BufferOK
  <1>8. BufferOK' /\ CallOK'
    BY <1>1, <1>5, <1>7 DEF IInv, BufferOK, CallOK
  <1>9. WithinAlloc'
    BY <1>1, <1>5 DEF WithinAlloc
  <1>10. HoldsAdded'
    BY <1>1, <1>7 DEF IInv, HoldsAdded
  <1> QED
    BY <1>1, <1>8, <1>9, <1>10 DEF IInv

\* The memcpy and the zero stay below the size that ended the loop.
LEMMA FinishStep == ASSUME IInv, FinishAdd PROVE IInv'
  <1>1. /\ call # Idle /\ ~((length + call.len) % M >= size)
        /\ mem' = [i \in 0..(M - 1) |-> Stored(i)]
        /\ length' = (length + Len(call.data)) % M
        /\ added' = added \o call.data /\ call' = Idle
        /\ UNCHANGED <<alloc, size, left>>
    BY DEF FinishAdd, MustGrow
  <1>2. PICK n \in Nat : /\ n = Len(call.data) /\ length + n <= MaxLen /\ MaxLen + 1 < M
                         /\ length + n + 1 < size
    <2>1. /\ length \in Nat /\ Len(call.data) \in Nat
          /\ (length + call.len) % M = length + Len(call.data) + 1
          /\ (length + Len(call.data)) % M = length + Len(call.data)
          /\ MaxLen + 1 < M
      BY <1>1, NoWrap
    <2>2. length + Len(call.data) <= MaxLen /\ size \in Nat
      BY <1>1 DEF IInv, CallOK, BufferOK
    <2>3. length + Len(call.data) + 1 < size
      BY <2>1, <2>2, <1>1
    <2> QED
      BY <2>1, <2>2, <2>3
  <1>3. /\ length \in Nat /\ M \in Nat /\ MaxLen \in Nat /\ size \in 0..(M - 1)
        /\ added \in Seq(Byte) /\ length = Len(added) /\ alloc = size
        /\ mem \in [0..(M - 1) -> Byte \cup {NUL, JUNK}]
        /\ call.data \in Seq(Byte)
    BY <1>1, BufferAssumption DEF IInv, BufferOK, CallOK
  <1>4. length' = length + n /\ length' \in Nat /\ length' <= MaxLen /\ (length + n) % M = length + n
    <2>1. (length + n) % M = length + n
      BY <1>1, <1>2, NoWrap
    <2>2. length' = length + n
      BY <2>1, <1>1, <1>2
    <2>3. length + n \in Nat
      BY <1>3
    <2> QED
      BY <2>1, <2>2, <2>3, <1>2
  <1>5. ASSUME NEW i \in 0..(M - 1)
        PROVE  /\ i < length => mem'[i] = mem[i]
               /\ (i >= length /\ i < length + n) => mem'[i] = call.data[i - length + 1]
               /\ i = length + n => mem'[i] = NUL
               /\ i > length + n => mem'[i] = mem[i]
    <2>1. mem'[i] = IF i >= length /\ i < length + n THEN call.data[i - length + 1]
                    ELSE IF i = length + n THEN NUL ELSE mem[i]
      BY <1>1, <1>2, <1>4 DEF Stored
    <2>2. i \in Int /\ n \in Nat /\ length \in Nat
      BY <1>3
    <2> QED
      BY <2>1, <2>2
  <1>6. added' \in Seq(Byte) /\ Len(added') = length + n
    BY <1>1, <1>2, <1>3
  <1>7. mem' \in [0..(M - 1) -> Byte \cup {NUL, JUNK}]
    <2> SUFFICES ASSUME NEW i \in 0..(M - 1) PROVE mem'[i] \in Byte \cup {NUL, JUNK}
      BY <1>1
    <2>1. CASE i >= length /\ i < length + n
      <3>1. i - length + 1 \in 1..n
        BY <2>1, <1>2, <1>3
      <3>2. call.data[i - length + 1] \in Byte
        BY <3>1, <1>2, <1>3
      <3> QED
        BY <3>2, <2>1, <1>5
    <2>2. CASE ~(i >= length /\ i < length + n)
      <3>1. i < length \/ i = length + n \/ i > length + n
        <4>1. i \in Int /\ n \in Nat /\ length \in Nat
          BY <1>3
        <4> QED
          BY <4>1, <2>2
      <3> QED
        BY <3>1, <1>3, <1>5
    <2> QED
      BY <2>1, <2>2
  <1>8. BufferOK' /\ CallOK'
    BY <1>1, <1>3, <1>4, <1>6, <1>7 DEF BufferOK, CallOK
  <1>9. WithinAlloc'
    <2> SUFFICES ASSUME NEW i \in 0..(M - 1), i >= alloc PROVE mem'[i] = JUNK
      BY <1>1, <1>3 DEF WithinAlloc
    <2>1. i > length + n
      BY <1>2, <1>3
    <2> QED
      BY <2>1, <1>5 DEF IInv, WithinAlloc
  <1>10. HoldsAdded'
    <2>1. ASSUME NEW i \in 1..(length + n) PROVE mem'[i - 1] = added'[i]
      <3>1. i - 1 \in 0..(M - 1)
        BY <1>2, <1>3
      <3>2. CASE i <= length
        <4>1. added'[i] = added[i]
          BY <3>2, <1>1, <1>3
        <4>2. mem[i - 1] = added[i]
          BY <3>2, <1>3 DEF IInv, HoldsAdded
        <4>3. mem'[i - 1] = mem[i - 1]
          BY <3>1, <3>2, <1>3, <1>5
        <4> QED
          BY <4>1, <4>2, <4>3
      <3>3. CASE i > length
        <4>1. added'[i] = call.data[i - length]
          BY <3>3, <1>1, <1>2, <1>3
        <4>2. i - 1 >= length /\ i - 1 < length + n /\ (i - 1) - length + 1 = i - length
          BY <3>3, <1>3, <1>2
        <4>3. mem'[i - 1] = call.data[(i - 1) - length + 1]
          BY <3>1, <4>2, <1>5
        <4> QED
          BY <4>1, <4>2, <4>3
      <3> QED
        BY <3>2, <3>3, <1>3
    <2>2. mem'[length + n] = NUL
      <3>1. length + n \in 0..(M - 1)
        BY <1>2, <1>3
      <3> QED
        BY <3>1, <1>5
    <2> QED
      BY <2>1, <2>2, <1>4, <1>6 DEF HoldsAdded
  <1>11. left' # Idle => left' \in 0..length'
    <2>1. length <= length' /\ length' \in Nat
      BY <1>3, <1>4
    <2>2. (left # Idle => left \in 0..length) /\ left' = left
      BY <1>1 DEF IInv
    <2>3. \A x \in 0..length : x \in 0..length'
      BY <2>1, <1>3
    <2> QED
      BY <2>2, <2>3
  <1> QED
    BY <1>8, <1>9, <1>10, <1>11 DEF IInv

\* Every step preserves the invariant.
LEMMA InvNext == IInv /\ [Next]_vars => IInv'
  <1> SUFFICES ASSUME IInv, [Next]_vars PROVE IInv'
    OBVIOUS
  <1>1. CASE \E data \in Data, block \in Blocks : Len(added) + Len(data) <= MaxLen /\ Add(data, block)
    BY <1>1, AddStep
  <1>2. CASE simplebuffer_grow
    BY <1>2, GrowStep
  <1>3. CASE FinishAdd
    BY <1>3, FinishStep
  <1>4. CASE Renew
    <2>1. M \in Nat /\ MaxLen \in Nat /\ M > 0
      BY BufferAssumption
    <2>2. (BufferOK /\ CallOK)'
      BY <1>4, <2>1 DEF Renew, BufferOK, CallOK
    <2>3. (WithinAlloc /\ HoldsAdded)'
      BY <1>4, <2>1 DEF Renew, WithinAlloc, HoldsAdded
    <2> QED
      BY <1>4, <2>2, <2>3 DEF Renew, IInv
  <1>5. CASE GrowFails \/ BeginSave \/ WriteFails \/ UNCHANGED vars
    <2>1. /\ UNCHANGED <<mem, alloc, size, length, added>>
          /\ call' = call \/ call' = Idle
          /\ left' = left \/ left' = Idle \/ left' = length
      BY <1>5 DEF GrowFails, BeginSave, WriteFails, vars, buffer
    <2>2. length \in 0..length
      BY DEF IInv, BufferOK
    <2>3. left' # Idle => left' \in 0..length'
      BY <2>1, <2>2 DEF IInv
    <2>4. (BufferOK /\ WithinAlloc /\ HoldsAdded)'
      BY <2>1 DEF IInv, BufferOK, WithinAlloc, HoldsAdded
    <2>5. CallOK'
      BY <2>1 DEF IInv, CallOK
    <2> QED
      BY <2>3, <2>4, <2>5 DEF IInv
  <1>6. CASE \E res \in 0..MaxLen : simplebuffer_write(res)
    <2>1. PICK res \in 0..MaxLen : simplebuffer_write(res)
      BY <1>6
    <2>2. /\ UNCHANGED buffer /\ call' = call /\ left # Idle
          /\ left' = IF left - res > 0 THEN left - res ELSE Idle
      BY <2>1 DEF simplebuffer_write
    <2>3. left \in 0..length /\ length \in Nat /\ res \in Nat
      BY <2>2, BufferAssumption DEF IInv, BufferOK
    <2>4. left' # Idle => left' \in 0..length
      BY <2>2, <2>3
    <2> QED
      BY <2>2, <2>4 DEF IInv, BufferOK, CallOK, WithinAlloc, HoldsAdded, buffer
  <1> QED
    BY <1>1, <1>2, <1>3, <1>4, <1>5, <1>6 DEF Next

\* The invariant holds in every reachable state.
LEMMA Invariance == Spec => []IInv
  BY InvInit, InvNext, PTL DEF Spec

\* What simplebuffer_add_raw writes, its zero included, lies within the
\* memory realloc() gave, as long as no buffer nears the range of uint32_t.
THEOREM NoOverrun == Spec => []WithinAlloc
  <1>1. IInv => WithinAlloc
    BY DEF IInv
  <1> QED
    BY <1>1, Invariance, PTL

\* The buffer holds the bytes of all the adds that succeeded, in order, and
\* is terminated, whatever reallocations failed in between.
THEOREM BufferContents == Spec => []HoldsAdded
  <1>1. IInv => HoldsAdded
    BY DEF IInv
  <1> QED
    BY <1>1, Invariance, PTL

-----------------------------------------------------------------------------
(* Saving *)

\* Nothing is added during a save, and the file has received what is no
\* longer left to write.
SaveOK ==
    /\ call = Idle \/ left = Idle
    /\ left # Idle => file = [i \in 1..(length - left) |-> added[i]]

\* The first write() that continues at position p.
LEMMA PrefixExtends ==
    ASSUME NEW s, NEW p \in Nat, NEW n \in Nat
    PROVE  [i \in 1..p |-> s[i]] \o [i \in 1..n |-> s[p + i]] = [i \in 1..(p + n) |-> s[i]]
  <1> DEFINE a == [i \in 1..p |-> s[i]]
             b == [i \in 1..n |-> s[p + i]]
             S == {s[i] : i \in 1..(p + n)}
  <1>1. a \in Seq(S) /\ Len(a) = p
    <2>1. \A i \in 1..p : i \in 1..(p + n)
      OBVIOUS
    <2>2. a \in [1..p -> S]
      BY <2>1
    <2> QED
      BY <2>2
  <1>2. b \in Seq(S) /\ Len(b) = n
    <2>1. \A i \in 1..n : p + i \in 1..(p + n)
      OBVIOUS
    <2>2. b \in [1..n -> S]
      BY <2>1
    <2> QED
      BY <2>2
  <1>3. a \o b \in Seq(S) /\ Len(a \o b) = p + n
    BY <1>1, <1>2
  <1>4. ASSUME NEW i \in 1..(p + n) PROVE (a \o b)[i] = s[i]
    <2>1. CASE i <= p
      <3>1. (a \o b)[i] = a[i] /\ i \in 1..p
        BY <1>1, <1>2, <2>1
      <3> QED
        BY <3>1
    <2>2. CASE i > p
      <3>1. (a \o b)[i] = b[i - p] /\ i - p \in 1..n /\ p + (i - p) = i
        BY <1>1, <1>2, <2>2
      <3> QED
        BY <3>1
    <2> QED
      BY <2>1, <2>2
  <1>5. DOMAIN (a \o b) = 1..(p + n) /\ a \o b = [i \in DOMAIN (a \o b) |-> (a \o b)[i]]
    BY <1>3
  <1> QED
    BY <1>4, <1>5

\* A write() appends the next bytes of what was added.
LEMMA WriteAppends ==
    ASSUME IInv, SaveOK, NEW res \in 0..MaxLen, simplebuffer_write(res)
    PROVE  /\ left \in 0..length /\ res <= left /\ (left > 0 => res > 0)
           /\ file' = [i \in 1..(length - left + res) |-> added[i]]
           /\ length \in Nat /\ length = Len(added) /\ length < M
  <1>1. left # Idle /\ res <= left /\ (left > 0 => res > 0) /\ file' = file \o Written(res)
    BY DEF simplebuffer_write
  <1>2. /\ left \in 0..length /\ length \in Nat /\ length = Len(added) /\ length < M
        /\ M \in Nat /\ res \in Nat
    BY <1>1, BufferAssumption DEF IInv, BufferOK, HoldsAdded
  <1> DEFINE p == length - left
  <1>3. p \in Nat /\ p + res <= length /\ p % M = p
    <2>1. p \in Nat /\ p + res <= length /\ p < M
      BY <1>1, <1>2
    <2> HIDE DEF p
    <2> QED
      BY <2>1, <1>2
  <1>4. Written(res) = [i \in 1..res |-> added[p + i]]
    <2>1. \A i \in 1..res : mem[p + i - 1] = added[p + i]
      <3> HIDE DEF p
      <3> TAKE i \in 1..res
      <3>1. PICK j \in 1..Len(added) : j = p + i
        BY <1>2, <1>3
      <3>2. mem[j - 1] = added[j]
        BY DEF IInv, HoldsAdded
      <3> QED
        BY <1>2, <1>3, <3>1, <3>2
    <2>2. Written(res) = [i \in 1..res |-> mem[p + i - 1]]
      BY <1>3 DEF Written
    <2> QED
      BY <2>1, <2>2
  <1>5. file = [i \in 1..p |-> added[i]]
    BY <1>1 DEF SaveOK
  <1> HIDE DEF p
  <1>6. file' = [i \in 1..(p + res) |-> added[i]]
    <2>1. [i \in 1..p |-> added[i]] \o [i \in 1..res |-> added[p + i]] = [i \in 1..(p + res) |-> added[i]]
      BY <1>2, <1>3, PrefixExtends
    <2> QED
      BY <1>1, <1>4, <1>5, <2>1
  <1> QED
    BY <1>1, <1>2, <1>6 DEF p

\* Every step preserves what is known of a save.
LEMMA SaveNext == IInv /\ SaveOK /\ [Next]_vars => SaveOK'
  <1> SUFFICES ASSUME IInv, SaveOK, [Next]_vars PROVE SaveOK'
    OBVIOUS
  <1>1. CASE \/ \E data \in Data, block \in Blocks : Add(data, block)
             \/ simplebuffer_grow \/ GrowFails \/ FinishAdd \/ Renew \/ WriteFails
    BY <1>1 DEF SaveOK, Add, BeginAdd, simplebuffer_grow, GrowFails, FinishAdd, Renew, WriteFails
  <1>2. CASE BeginSave
    <2>1. /\ call' = Idle /\ left' = length /\ file' = <<>> /\ length' = length /\ added' = added
      BY <1>2 DEF BeginSave, buffer
    <2>2. length \in Nat
      BY DEF IInv, BufferOK
    <2>3. [i \in 1..(length' - left') |-> added'[i]] = <<>>
      BY <2>1, <2>2
    <2> QED
      BY <2>1, <2>3 DEF SaveOK
  <1>3. ASSUME NEW res \in 0..MaxLen, simplebuffer_write(res) PROVE SaveOK'
    <2>1. /\ left' = IF left - res > 0 THEN left - res ELSE Idle
          /\ length' = length /\ added' = added /\ call' = call /\ left # Idle
      BY <1>3 DEF simplebuffer_write, buffer
    <2>2. /\ left \in 0..length /\ length \in Nat
          /\ file' = [i \in 1..(length - left + res) |-> added[i]]
      BY <1>3, WriteAppends
    <2>3. left' # Idle => length' - left' = length - left + res
      BY <2>1, <2>2
    <2> QED
      BY <2>1, <2>2, <2>3 DEF SaveOK
  <1>4. CASE UNCHANGED vars
    BY <1>4 DEF SaveOK, vars
  <1> QED
    BY <1>1, <1>2, <1>3, <1>4 DEF Next

\* A save that ends without an error has written all that was added, however
\* write() split it: the loop of ini_fileobj.c over simplebuffer_write.
THEOREM SaveWritesAll == Spec => SaveComplete
  <1> DEFINE Complete == left # Idle /\ left' = Idle /\ ret' = "EOK" => file' = added
  <1>1. IInv /\ SaveOK /\ [Next]_vars => [Complete]_vars
    <2> SUFFICES ASSUME IInv, SaveOK, Next, left # Idle, left' = Idle, ret' = "EOK"
                 PROVE  file' = added
      OBVIOUS
    <2>1. PICK res \in 0..MaxLen : simplebuffer_write(res)
      BY DEF Next, SaveOK, Add, simplebuffer_grow, GrowFails, FinishAdd, Renew, BeginSave, WriteFails
    <2>2. /\ left \in 0..length /\ res <= left
          /\ file' = [i \in 1..(length - left + res) |-> added[i]]
          /\ length \in Nat /\ length = Len(added)
      BY <2>1, WriteAppends
    <2>3. ~(left - res > 0)
      <3>1. left' = IF left - res > 0 THEN left - res ELSE Idle
        BY <2>1 DEF simplebuffer_write
      <3>2. left - res > 0 => left - res \in Nat
        BY <2>2, BufferAssumption
      <3> QED
        BY <3>1, <3>2, IdleAssumption
    <2>4. length - left + res = Len(added)
      <3>1. res \in Nat /\ left \in Nat
        BY <2>2, BufferAssumption
      <3>2. left = res
        BY <2>2, <2>3, <3>1
      <3> QED
        BY <2>2, <3>1, <3>2
    <2>5. added = [i \in 1..Len(added) |-> added[i]]
      BY DEF IInv, BufferOK
    <2> QED
      BY <2>2, <2>4, <2>5
  <1>2. Init => SaveOK
    BY DEF Init, SaveOK
  <1> QED
    BY <1>1, <1>2, SaveNext, Invariance, PTL DEF Spec, SaveComplete

=============================================================================
