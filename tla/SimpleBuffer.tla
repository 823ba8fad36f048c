---------------------------- MODULE SimpleBuffer ----------------------------
(***************************************************************************)
(* The growing byte buffer of basicobjects/simplebuffer.c and the loop     *)
(* with which ini_fileobj.c saves one to a file.                           *)
(*                                                                         *)
(* The counters are uint32_t: their arithmetic is modulo M = 2^32.  Each   *)
(* turn of the loop in simplebuffer_grow is a step, since realloc() may    *)
(* fail in any of them, and so is each write().                            *)
(***************************************************************************)
EXTENDS Integers, Sequences

CONSTANTS
    M,          \* one more than the greatest uint32_t
    Byte,       \* the bytes callers add
    NUL,        \* the terminating zero
    JUNK,       \* memory that was never written, or is not allocated
    Idle,       \* no call is under way
    MaxLen,     \* bound: bytes a buffer receives in its life
    Blocks      \* block arguments callers pass

\* simplebuffer.c has no check for overflow.  No buffer comes near 4 GB:
\* this is how far the counters may go before the arithmetic wraps.
ASSUME BufferAssumption ==
    /\ M \in Nat /\ MaxLen \in Nat /\ Blocks \subseteq Nat
    /\ 2 * MaxLen + 2 < M
    /\ \A b \in Blocks : MaxLen + 1 + b < M

\* "No call is under way" is no number of bytes left to write.
ASSUME IdleAssumption == Idle \notin Nat

VARIABLES
    mem,      \* mem[i]: the byte at data->buffer + i
    alloc,    \* how many bytes realloc() last gave for data->buffer
    size, length,   \* the fields of struct simplebuffer
    call,     \* the add under way: its data and the arguments of simplebuffer_grow
    left,     \* what the saving loop still has to write, or Idle
    file,     \* what the file has received from it
    added,    \* the bytes added so far (not in the program)
    ret

vars == <<mem, alloc, size, length, call, left, file, added, ret>>
buffer == <<mem, alloc, size, length, added>>

Data == UNION {[1..n -> Byte] : n \in 0..MaxLen}
Larger(a, b) == IF a > b THEN a ELSE b

-----------------------------------------------------------------------------
(* Adding *)

\* Mutant: the block is not raised to the length of the data.
BeginAdd_block(data, block) ==
    /\ call' = [data |-> data, len |-> Len(data) + 1, block |-> block]
    /\ UNCHANGED <<buffer, left, file, ret>>

\* simplebuffer_add_raw and simplebuffer_add_str up to the call of
\* simplebuffer_grow(data, len + 1, max(block, len + 1)).
BeginAdd(data, block) ==
    /\ call' = [data |-> data, len |-> Len(data) + 1, block |-> Larger(block, Len(data) + 1)]
    /\ UNCHANGED <<buffer, left, file, ret>>

Add(data, block) == call = Idle /\ left = Idle /\ BeginAdd(data, block)

\* Mutant: what the buffer already holds is forgotten.
MustGrow_nolength == call.len >= size

MustGrow == (length + call.len) % M >= size

\* One turn of the loop of simplebuffer_grow.
simplebuffer_grow ==
    /\ call # Idle /\ MustGrow
    /\ alloc' = (size + call.block) % M
    /\ size' = (size + call.block) % M
    /\ mem' = [i \in 0..(M - 1) |-> IF i < alloc' THEN mem[i] ELSE JUNK]
    /\ UNCHANGED <<length, added, call, left, file, ret>>

\* realloc() fails: the add reports ENOMEM, and the turns made are kept.
GrowFails ==
    /\ call # Idle /\ MustGrow
    /\ call' = Idle /\ ret' = "ENOMEM"
    /\ UNCHANGED <<buffer, left, file>>

\* Mutant: the terminating zero is left out.
Stored_noterm(i) ==
    IF i >= length /\ i < length + Len(call.data) THEN call.data[i - length + 1] ELSE mem[i]

\* The byte at i after the memcpy and the terminating zero.
Stored(i) ==
    IF i >= length /\ i < length + Len(call.data) THEN call.data[i - length + 1]
    ELSE IF i = (length + Len(call.data)) % M THEN NUL ELSE mem[i]

\* The rest of simplebuffer_add_raw: the bytes, the zero, the length.
FinishAdd ==
    /\ call # Idle /\ ~MustGrow
    /\ mem' = [i \in 0..(M - 1) |-> Stored(i)]
    /\ length' = (length + Len(call.data)) % M
    /\ added' = added \o call.data
    /\ call' = Idle /\ ret' = "EOK"
    /\ UNCHANGED <<alloc, size, left, file>>

\* simplebuffer_free and simplebuffer_alloc: a new, empty buffer.
Renew ==
    /\ call = Idle /\ left = Idle
    /\ mem' = [i \in 0..(M - 1) |-> JUNK]
    /\ alloc' = 0 /\ size' = 0 /\ length' = 0 /\ added' = <<>>
    /\ file' = <<>> /\ ret' = "EOK"
    /\ UNCHANGED <<call, left>>

-----------------------------------------------------------------------------
(* Saving: the do-while loop of ini_fileobj.c over simplebuffer_write *)

BeginSave ==
    /\ call = Idle /\ left = Idle
    /\ left' = length /\ file' = <<>>
    /\ UNCHANGED <<buffer, call, ret>>

\* The bytes write() takes from buffer + (length - left).
Written(res) == [i \in 1..res |-> mem[((length - left) % M) + i - 1]]

\* Mutant: a short write counts as a complete one.
simplebuffer_write_short(res) ==
    /\ left # Idle /\ res <= left /\ (left > 0 => res > 0)
    /\ file' = file \o Written(res)
    /\ left' = Idle /\ ret' = "EOK"
    /\ UNCHANGED <<buffer, call>>

\* write() accepts some of the bytes, or fails.  POSIX lets it return zero
\* only when it was asked for zero bytes.
simplebuffer_write(res) ==
    /\ left # Idle /\ res <= left /\ (left > 0 => res > 0)
    /\ file' = file \o Written(res)
    /\ left' = IF left - res > 0 THEN left - res ELSE Idle
    /\ ret' = "EOK"
    /\ UNCHANGED <<buffer, call>>

WriteFails ==
    /\ left # Idle
    /\ left' = Idle /\ ret' = "EIO"
    /\ UNCHANGED <<buffer, call, file>>

-----------------------------------------------------------------------------
Init ==
    /\ mem = [i \in 0..(M - 1) |-> JUNK]
    /\ alloc = 0 /\ size = 0 /\ length = 0
    /\ call = Idle /\ left = Idle
    /\ file = <<>> /\ added = <<>> /\ ret = "EOK"

Next ==
    \/ \E data \in Data, block \in Blocks : Len(added) + Len(data) <= MaxLen /\ Add(data, block)
    \/ simplebuffer_grow \/ GrowFails \/ FinishAdd \/ Renew
    \/ BeginSave
    \/ \E res \in 0..MaxLen : simplebuffer_write(res)
    \/ WriteFails

\* A sequential program goes on with the call it is in.
Progress == simplebuffer_grow \/ FinishAdd \/ \E res \in 0..MaxLen : simplebuffer_write(res)

Spec == Init /\ [][Next]_vars
FairSpec == Spec /\ WF_vars(Progress)

-----------------------------------------------------------------------------
(* Properties *)

\* The memcpy and the terminating zero of an add stay within what realloc()
\* gave: nothing past it is ever written.
WithinAlloc ==
    /\ size = alloc
    /\ \A i \in 0..(M - 1) : i >= alloc => mem[i] = JUNK

\* Between calls the buffer holds what was added, in order, also when an add
\* failed in between, and is terminated.
HoldsAdded ==
    /\ length = Len(added)
    /\ \A i \in 1..Len(added) : mem[i - 1] = added[i]
    /\ length > 0 => mem[length] = NUL

\* However write() splits the data, a save that ends without an error has
\* written all of the buffer, once and in order.
SaveComplete == [][left # Idle /\ left' = Idle /\ ret' = "EOK" => file' = added]_vars

\* The loops end: every add and every save returns.
EveryCallReturns == (call # Idle \/ left # Idle) ~> (call = Idle /\ left = Idle)

=============================================================================
