------------------------------- MODULE DHash -------------------------------
(***************************************************************************)
(* libdhash (dhash/dhash.c): a dynamic hash table with linear hashing.     *)
(* The table has a directory of segments, each an array of segment_size    *)
(* bucket chains.  It grows and shrinks one bucket at a time: expand_table *)
(* splits bucket p, contract_table merges the last bucket back.            *)
(*                                                                         *)
(* A bucket address is segment * segment_size + index.  A chain is the SET *)
(* of its elements: the order on a chain decides nothing a caller can see, *)
(* and relinking an element changes only which chain it is on.             *)
(* A table is a record with the fields of struct hash_table_str; the       *)
(* internal functions of dhash.c are operators from tables to tables.      *)
(***************************************************************************)
EXTENDS Integers, FiniteSets

CONSTANTS
    Keys,          \* keys of a valid type; equal iff key_equal() says so
    Values,        \* values of a valid type that callers pass
    UNDEF,         \* the HASH_VALUE_UNDEF value of a zeroed element
    BAD,           \* a key or value whose type tag is not valid
    NULL,          \* no table, no iterator, no output
    HashOf,        \* HashOf[k] = convert_key(k) % PRIME_2
    AddrBits,      \* number of bits of address_t (unsigned long)
    Bit,           \* Bit[i] = 1 << i
    CreateArgs,    \* argument records of hash_create_ex that are tried
    DefaultDirectoryBits, DefaultSegmentBits,   \* HASH_DEFAULT_*_BITS
    DefaultMinLoad, DefaultMaxLoad,             \* HASH_DEFAULT_*_LOAD_FACTOR
    CanFail,       \* may halloc() return NULL?
    FailUpTo,      \* bound: entries of the tables in which it is tried to fail
    MaxBlank       \* bound: entries of these that a failure left without a value

ASSUME HashAssumption ==
    /\ HashOf \in [Keys -> Nat]
    /\ BAD \notin Keys /\ BAD \notin Values /\ BAD # UNDEF
    /\ IsFiniteSet(Keys)

\* Bit is the left shift of 1: doubling, monotone, and a sum of shifts is a
\* product.
ASSUME BitType ==
    AddrBits \in Nat /\ Bit \in [0..AddrBits -> Nat \ {0}] /\ Bit[0] = 1
ASSUME BitDouble == \A i \in 0..(AddrBits - 1) : Bit[i + 1] = 2 * Bit[i]
ASSUME BitOrder == \A i, j \in 0..AddrBits : i < j => Bit[i] < Bit[j]
ASSUME BitProduct ==
    \A i, j \in 0..AddrBits : i + j <= AddrBits => Bit[i] * Bit[j] = Bit[i + j]

ASSUME CreateAssumption ==
    /\ CreateArgs \subseteq [count : Nat, directory_bits : Nat, segment_bits : Nat,
                             min_load : Nat, max_load : Nat]
    /\ DefaultDirectoryBits \in Nat \ {0} /\ DefaultSegmentBits \in Nat \ {0}
    /\ DefaultMinLoad \in Nat \ {0} /\ DefaultMaxLoad \in Nat \ {0}
    /\ CanFail \in BOOLEAN /\ {FailUpTo, MaxBlank} \subseteq Nat

VARIABLES
    table,     \* the hash_table_t a client holds, or NULL
    iter,      \* its open hash_iter_context_t, or NULL
    ret,       \* the last call, its result code and its output
    callbacks  \* entries the last call passed to delete_callback, with the type

vars == <<table, iter, ret, callbacks>>

Element == [key : Keys, value : Values \cup {UNDEF}]

-----------------------------------------------------------------------------
(* Addresses *)

directory_size(t) == Bit[t.directory_size_shift]
segment_size(t) == Bit[t.segment_size_shift]
Capacity(t) == directory_size(t) * segment_size(t)
Addresses(t) == 0..(Capacity(t) - 1)
SegmentOf(t, a) == a \div segment_size(t)

\* maxp is a power of two (Shape below), so "& (maxp - 1)" is "% maxp".
hash(t, k) ==
    LET address == HashOf[k] % t.maxp
    IN  IF address < t.p THEN HashOf[k] % (2 * t.maxp) ELSE address

\* The elements with key k on the chain that k addresses.
lookup(t, k) == {e \in t.chain[hash(t, k)] : e.key = k}

\* What the loops of hash_iterate and hash_destroy reach: every chain of the
\* first segment_count segments.
Reachable(t) == {a \in Addresses(t) : a < t.segment_count * segment_size(t)}
Entries(t) == UNION {t.chain[a] : a \in Reachable(t)}

-----------------------------------------------------------------------------
(* Growing and shrinking *)

\* expand_table does nothing when the directory is full; it needs a new
\* segment from halloc() when the new address is the first of a segment.
NeedsSegment(t) == (t.maxp + t.p) % segment_size(t) = 0
HasRoom(t) == t.bucket_count < Capacity(t)

\* Mutant: the new segment is not counted.
AddSegment_uncounted(t) ==
    LET dir == SegmentOf(t, t.maxp + t.p)
    IN  [t EXCEPT !.directory[dir] = "live",
                  !.chain = [a \in DOMAIN t.chain |-> IF SegmentOf(t, a) = dir THEN {} ELSE t.chain[a]]]

AddSegment(t) ==
    LET dir == SegmentOf(t, t.maxp + t.p)
    IN  [t EXCEPT !.directory[dir] = "live",
                  !.segment_count = @ + 1,
                  !.chain = [a \in DOMAIN t.chain |-> IF SegmentOf(t, a) = dir THEN {} ELSE t.chain[a]]]

AdvanceSplit(t) ==
    IF t.p + 1 = t.maxp
      THEN [t EXCEPT !.p = 0, !.maxp = 2 * @, !.bucket_count = @ + 1]
      ELSE [t EXCEPT !.p = @ + 1, !.bucket_count = @ + 1]

\* Mutant: the whole chain is moved.
Relocate_all(t, from, to) ==
    [t EXCEPT !.chain = [t.chain EXCEPT ![from] = {}, ![to] = t.chain[from]]]

Relocate(t, from, to) ==
    LET moved == {e \in t.chain[from] : hash(t, e.key) = to}
    IN  [t EXCEPT !.chain = [t.chain EXCEPT ![from] = @ \ moved, ![to] = moved]]

expand_table(t) ==
    IF ~HasRoom(t) THEN t
    ELSE LET grown == IF NeedsSegment(t) THEN AddSegment(t) ELSE t
         IN  Relocate(AdvanceSplit(grown), t.p, t.maxp + t.p)

ExpandFailed(t) == [t EXCEPT !.directory[SegmentOf(t, t.maxp + t.p)] = "null"]

RetreatSplit(t) ==
    IF t.p > 0
      THEN [t EXCEPT !.p = @ - 1, !.bucket_count = @ - 1]
      ELSE [t EXCEPT !.maxp = @ \div 2, !.p = t.maxp \div 2 - 1, !.bucket_count = @ - 1]

Splice(t, from, to) ==
    [t EXCEPT !.chain = [t.chain EXCEPT ![to] = t.chain[from] \cup @, ![from] = {}]]

DropSegment(t, last) ==
    IF last % segment_size(t) = 0
      THEN [t EXCEPT !.segment_count = @ - 1, !.directory[SegmentOf(t, last)] = "freed"]
      ELSE t

\* The chain of the last bucket goes where its first element
\* hashes to now; which element is first is not known here, so the result is
\* the set of tables the choice can give.
contract_table(t) ==
    LET last == t.bucket_count - 1
        less == RetreatSplit(t)
    IN  IF ~(t.bucket_count > segment_size(t) /\ t.segment_count > 1) THEN {t}
        ELSE IF t.chain[last] = {} THEN {DropSegment(less, last)}
        ELSE {DropSegment(Splice(less, last, hash(less, e.key)), last) : e \in t.chain[last]}

-----------------------------------------------------------------------------
(* hash_create_ex *)

\* The least number of bits whose power of two is >= count.
RequestedBits(count, bits) ==
    IF count > 1
      THEN /\ Bit[bits] >= count
           /\ \A n \in 0..(bits - 1) : Bit[n] < count
      ELSE bits = 1

AtLeast(n, least) == IF n > least THEN n ELSE least

DirectoryBits(args, requested) ==
    LET asked == AtLeast(requested \div 2, 1)
    IN  IF args.directory_bits # 0 /\ args.segment_bits # 0 THEN args.directory_bits
        ELSE IF args.count = 0 THEN AtLeast(asked, DefaultDirectoryBits)
        ELSE asked

SegmentBits(args, requested) ==
    LET asked == AtLeast(requested - AtLeast(requested \div 2, 1), 1)
    IN  IF args.directory_bits # 0 /\ args.segment_bits # 0 THEN args.segment_bits
        ELSE IF args.count = 0 THEN AtLeast(asked, DefaultSegmentBits)
        ELSE asked

NewTable(args, dbits, sbits) ==
    [p |-> 0, maxp |-> Bit[sbits], entry_count |-> 0,
     bucket_count |-> Bit[sbits], segment_count |-> 1,
     min_load_factor |-> IF args.min_load = 0 THEN DefaultMinLoad ELSE args.min_load,
     max_load_factor |-> IF args.max_load = 0 THEN DefaultMaxLoad ELSE args.max_load,
     directory_size_shift |-> dbits, segment_size_shift |-> sbits,
     directory |-> [d \in 0..(Bit[dbits] - 1) |-> IF d = 0 THEN "live" ELSE "null"],
     chain |-> [a \in 0..(Bit[dbits] * Bit[sbits] - 1) |-> {}]]

MayFail == /\ CanFail /\ table.entry_count <= FailUpTo
           /\ Cardinality({e \in Entries(table) : e.value = UNDEF}) <= MaxBlank

Result(op, code, out) == ret' = <<op, code, out>>
NoCallbacks == callbacks' = {}

hash_create_ex(args) ==
    /\ table = NULL
    /\ NoCallbacks /\ UNCHANGED iter
    /\ \E requested \in 0..AddrBits :
        LET dbits == DirectoryBits(args, requested)
            sbits == SegmentBits(args, requested)
        IN  /\ RequestedBits(args.count, requested)
            /\ \/ /\ dbits + sbits > AddrBits
                  /\ Result("create", "EINVAL", NULL) /\ UNCHANGED table
               \/ /\ dbits + sbits <= AddrBits /\ CanFail   \* table, directory or segment
                  /\ Result("create", "NO_MEMORY", NULL) /\ UNCHANGED table
               \/ /\ dbits + sbits <= AddrBits
                  /\ table' = NewTable(args, dbits, sbits)
                  /\ Result("create", "SUCCESS", NULL)

hash_destroy ==
    /\ table # NULL /\ iter = NULL
    /\ callbacks' = {[entry |-> e, type |-> "TABLE_DESTROY"] : e \in Entries(table)}
    /\ table' = NULL
    /\ Result("destroy", "SUCCESS", NULL)
    /\ UNCHANGED iter

-----------------------------------------------------------------------------
(* Entering, looking up, deleting.  dhash.h forbids modifying the table     *)
(* during an iteration: the modifying calls require iter = NULL.            *)

Link(t, k, v) ==
    [t EXCEPT !.chain[hash(t, k)] = @ \cup {[key |-> k, value |-> v]},
              !.entry_count = @ + 1]

\* Mutant: the entry is not uncounted.
Unlink_uncounted(t, e) == [t EXCEPT !.chain[hash(t, e.key)] = @ \ {e}]

Unlink(t, e) ==
    [t EXCEPT !.chain[hash(t, e.key)] = @ \ {e}, !.entry_count = @ - 1]

SetValue(t, e, v) ==
    [t EXCEPT !.chain[hash(t, e.key)] = (@ \ {e}) \cup {[e EXCEPT !.value = v]}]

OverFull(t) == t.entry_count \div t.bucket_count > t.max_load_factor
TooSparse(t) == t.entry_count \div t.bucket_count < t.min_load_factor

Update(e, v) ==
    /\ table' = SetValue(table, e, v)
    /\ callbacks' = {[entry |-> e, type |-> "ENTRY_DESTROY"]}
    /\ Result("enter", "SUCCESS", NULL)

\* Mutant: the load is tested before the new entry is counted.
InsertNew_stale(op, k, v, out) ==
    LET linked == Link(table, k, v)
    IN  /\ NoCallbacks
        /\ table' = IF OverFull(table) THEN expand_table(linked) ELSE linked
        /\ Result(op, "SUCCESS", out)

\* The element is linked before expand_table is tried and its value is
\* assigned after: when the segment cannot be allocated the element stays,
\* with the zeroed value, and the caller is told HASH_ERROR_NO_MEMORY.
InsertNew(op, k, v, out) ==
    LET linked == Link(table, k, v)
        blank == Link(table, k, UNDEF)
    IN  /\ NoCallbacks
        /\ \/ /\ MayFail                    \* no memory for element or key string
              /\ UNCHANGED table /\ Result(op, "NO_MEMORY", NULL)
           \/ /\ table' = IF OverFull(linked) THEN expand_table(linked) ELSE linked
              /\ Result(op, "SUCCESS", out)
           \/ /\ MayFail
              /\ OverFull(blank) /\ HasRoom(blank) /\ NeedsSegment(blank)
              /\ table' = ExpandFailed(blank)
              /\ Result(op, "NO_MEMORY", NULL)

Reject(op, code) == Result(op, code, NULL) /\ NoCallbacks /\ UNCHANGED table

hash_enter(k, v) ==
    /\ table # NULL /\ iter = NULL /\ UNCHANGED iter
    /\ \/ k = BAD /\ Reject("enter", "BAD_KEY_TYPE")
       \/ k # BAD /\ v = BAD /\ Reject("enter", "BAD_VALUE_TYPE")
       \/ /\ k # BAD /\ v # BAD
          /\ \/ \E e \in lookup(table, k) : Update(e, v)
             \/ lookup(table, k) = {} /\ InsertNew("enter", k, v, NULL)

hash_lookup(k) ==
    /\ table # NULL /\ UNCHANGED <<table, iter>> /\ NoCallbacks
    /\ \/ k = BAD /\ Result("lookup", "BAD_KEY_TYPE", NULL)
       \/ k # BAD /\ lookup(table, k) = {} /\ Result("lookup", "KEY_NOT_FOUND", NULL)
       \/ k # BAD /\ \E e \in lookup(table, k) : Result("lookup", "SUCCESS", e.value)

hash_get_default(k, default) ==
    /\ table # NULL /\ iter = NULL /\ UNCHANGED iter
    /\ \/ k = BAD /\ Reject("get_default", "BAD_KEY_TYPE")
       \/ k # BAD /\ \E e \in lookup(table, k) :
             Result("get_default", "SUCCESS", e.value) /\ NoCallbacks /\ UNCHANGED table
       \/ k # BAD /\ lookup(table, k) = {} /\ default = BAD /\ Reject("get_default", "BAD_VALUE_TYPE")
       \/ k # BAD /\ lookup(table, k) = {} /\ default # BAD /\ InsertNew("get_default", k, default, default)

hash_delete(k) ==
    /\ table # NULL /\ iter = NULL /\ UNCHANGED iter
    /\ \/ k = BAD /\ Reject("delete", "BAD_KEY_TYPE")
       \/ k # BAD /\ lookup(table, k) = {} /\ Reject("delete", "KEY_NOT_FOUND")
       \/ k # BAD /\ \E e \in lookup(table, k) :
             LET rest == Unlink(table, e)
             IN  /\ callbacks' = {[entry |-> e, type |-> "ENTRY_DESTROY"]}
                 /\ table' \in IF TooSparse(rest) THEN contract_table(rest) ELSE {rest}
                 /\ Result("delete", "SUCCESS", NULL)

-----------------------------------------------------------------------------
(* Iterating *)

hash_count ==
    /\ table # NULL /\ UNCHANGED <<table, iter>> /\ NoCallbacks
    /\ Result("count", "SUCCESS", table.entry_count)

\* hash_entries (hash_keys and hash_values alike): hash_iterate copies every
\* reachable entry into an array of entry_count slots.
hash_entries ==
    /\ table # NULL /\ UNCHANGED <<table, iter>> /\ NoCallbacks
    /\ \/ table.entry_count = 0 /\ Result("entries", "SUCCESS", {})
       \/ table.entry_count # 0 /\ Result("entries", "SUCCESS", Entries(table))
       \/ table.entry_count # 0 /\ MayFail /\ Result("entries", "NO_MEMORY", NULL)

\* An iterator stands at bucket "at" with "rest" of its chain to visit.
\* "seen" is not in the program: the entries returned so far.
new_hash_iter_context ==
    /\ table # NULL /\ iter = NULL
    /\ UNCHANGED table /\ NoCallbacks
    /\ \/ /\ iter' = [at |-> 0, rest |-> table.chain[0], seen |-> {}]
          /\ Result("new_iter", "SUCCESS", NULL)
       \/ MayFail /\ UNCHANGED iter /\ Result("new_iter", "NO_MEMORY", NULL)

NonEmptyAfter(t, at) == {a \in Reachable(t) : a > at /\ t.chain[a] # {}}

\* hash_iter_next: the next element of the chain, else the first of the next
\* chain that is not empty, else NULL after the last bucket.
hash_iter_next ==
    /\ iter # NULL /\ UNCHANGED table /\ NoCallbacks
    /\ \/ \E e \in iter.rest :
             /\ iter' = [iter EXCEPT !.rest = @ \ {e}, !.seen = @ \cup {e}]
             /\ Result("next", "SUCCESS", e)
       \/ /\ iter.rest = {}
          /\ \E a \in NonEmptyAfter(table, iter.at) :
               /\ \A b \in NonEmptyAfter(table, iter.at) : a <= b
               /\ \E e \in table.chain[a] :
                    /\ iter' = [at |-> a, rest |-> table.chain[a] \ {e},
                                seen |-> iter.seen \cup {e}]
                    /\ Result("next", "SUCCESS", e)
       \/ /\ iter.rest = {} /\ NonEmptyAfter(table, iter.at) = {}
          /\ iter' = [iter EXCEPT !.at = table.segment_count * segment_size(table)]
          /\ Result("next", "END", NULL)

\* The caller free()s the iterator, at the end or before.
FreeIter ==
    /\ iter # NULL /\ iter' = NULL
    /\ Result("free_iter", "SUCCESS", NULL) /\ NoCallbacks
    /\ UNCHANGED table

-----------------------------------------------------------------------------
Init ==
    /\ table = NULL /\ iter = NULL
    /\ ret = <<"none", "SUCCESS", NULL>>
    /\ callbacks = {}

Next ==
    \/ \E args \in CreateArgs : hash_create_ex(args)
    \/ hash_destroy
    \/ \E k \in Keys \cup {BAD}, v \in Values \cup {BAD} :
          hash_enter(k, v) \/ hash_get_default(k, v)
    \/ \E k \in Keys \cup {BAD} : hash_lookup(k) \/ hash_delete(k)
    \/ hash_count
    \/ hash_entries
    \/ new_hash_iter_context
    \/ hash_iter_next
    \/ FreeIter

Spec == Init /\ [][Next]_vars

-----------------------------------------------------------------------------
(* Properties *)

\* A table whose directory and segments were sized 1 << d and 1 << s.
TableType(d, s) ==
    [p : Nat, maxp : Nat, entry_count : Int, bucket_count : Nat, segment_count : Nat,
     min_load_factor : Nat, max_load_factor : Nat,
     directory_size_shift : {d}, segment_size_shift : {s},
     directory : [0..(Bit[d] - 1) -> {"null", "live", "freed"}],
     chain : [0..(Bit[d] * Bit[s] - 1) -> SUBSET Element]]

IterType == [at : Nat, rest : SUBSET Element, seen : SUBSET Element]

\* The null pointer is no table, no iterator and no array of entries.
ASSUME NullAssumption ==
    /\ \A d, s \in 1..AddrBits : NULL \notin TableType(d, s)
    /\ NULL \notin IterType
    /\ \A es \in SUBSET Element : NULL # es

\* The variables stay in their types; the directory and the chains of a table
\* are arrays of the sizes hash_create_ex chose.
TypeOK ==
    /\ table # NULL => \E d, s \in 1..AddrBits : table \in TableType(d, s)
    /\ iter # NULL => iter \in IterType
    /\ callbacks \subseteq [entry : Element, type : {"TABLE_DESTROY", "ENTRY_DESTROY"}]

\* The counters of the split stay in step: p is below maxp, maxp is a power
\* of two no smaller than a segment (which is what makes "& (maxp - 1)" a
\* remainder in hash()), and the buckets are exactly those below maxp + p,
\* never more than the directory can hold.
ShapeOf(t) ==
    /\ t.directory_size_shift + t.segment_size_shift <= AddrBits
    /\ \E i \in t.segment_size_shift..AddrBits : t.maxp = Bit[i]
    /\ t.p < t.maxp
    /\ t.bucket_count = t.maxp + t.p
    /\ t.bucket_count <= Capacity(t)
Shape == table # NULL => ShapeOf(table)

\* lookup() says "valid segment ensured by hash()": whatever the split is
\* at, every key addresses an existing bucket in an allocated segment.
AddressValid ==
    table # NULL => \A k \in Keys :
        /\ hash(table, k) < table.bucket_count
        /\ table.directory[SegmentOf(table, hash(table, k))] = "live"

\* The directory entries below segment_count are the allocated segments, no
\* others, and they are just enough for bucket_count buckets: the loops over
\* segment_count segments touch no freed memory and leak none.
SegmentsOf(t) ==
    /\ \A d \in DOMAIN t.directory : (t.directory[d] = "live") <=> (d < t.segment_count)
    /\ (t.segment_count - 1) * segment_size(t) < t.bucket_count
    /\ t.bucket_count <= t.segment_count * segment_size(t)
SegmentsLive == table # NULL => SegmentsOf(table)

\* Splitting and merging keep every element on the chain hash() leads to,
\* and a bucket past bucket_count holds nothing.
PlacedOf(t) == \A a \in Addresses(t) : \A e \in t.chain[a] : hash(t, e.key) = a
EntryInItsBucket == table # NULL => PlacedOf(table)

\* One split per insertion is enough: while the directory has room, a call
\* leaves the table over-full only if it was so before or the call reported
\* HASH_ERROR_NO_MEMORY.  Load factors that overlap (2 * min > max + 1) are
\* excluded: contracting may then overfill.
LoadBounded ==
    [][/\ table # NULL /\ table' # NULL /\ ret'[2] # "NO_MEMORY"
       /\ HasRoom(table') /\ 2 * table'.min_load_factor <= table'.max_load_factor + 1
       /\ OverFull(table')
       => OverFull(table)]_vars

\* The table implements a map: refinement of DHashMap.
Map == INSTANCE DHashMap WITH
    map <- IF table = NULL THEN NULL ELSE Entries(table),
    pending <- IF iter = NULL THEN NULL ELSE Entries(table) \ iter.seen
ImplementsMap == Map!MapSpec

=============================================================================
