------------------------------ MODULE RefArray ------------------------------
(***************************************************************************)
(* libref_array (refarray/ref_array.c): growable arrays with a reference   *)
(* count and a cleanup callback that disposes of the elements.             *)
(*                                                                         *)
(* An element is a resource its array owns: the caller hands over a fresh  *)
(* one, and the cleanup callback frees it.  The storage is modelled slot   *)
(* by slot up to MaxSlots, past the allocated ra->size too, because slots  *)
(* keep what they held after the array gets shorter.                       *)
(***************************************************************************)
EXTENDS Integers, FiniteSets, SequencesExt

CONSTANTS
    Arrays,        \* addresses of struct ref_array objects
    Elems,         \* resources that can be put into an array
    NULL,          \* no object at this address
    JUNK,          \* the contents of memory that was never written
    MaxSlots,      \* bound: slots of memory modelled per array
    MaxRefs,       \* bound: references the clients hold to one array
    GrowSizes,     \* grow_by arguments of ref_array_create
    ReplaceAtEnd,  \* do callers pass idx = len to ref_array_replace?
    CanFail        \* may malloc, calloc and realloc return NULL?

ASSUME RefArrayAssumption ==
    /\ MaxSlots \in Nat /\ MaxRefs \in Nat \ {0}
    /\ GrowSizes \subseteq Nat
    /\ ReplaceAtEnd \in BOOLEAN /\ CanFail \in BOOLEAN
    /\ NULL \notin Elems /\ JUNK \notin Elems

Slots == 0..(MaxSlots - 1)

\* struct ref_array
ArrayType ==
    [storage : [Slots -> Elems \cup {JUNK, NULL}], size : Nat, grow_by : Nat \ {0},
     len : Nat, refcount : Nat \ {0}, cb : BOOLEAN]

\* The null pointer is no object.
ASSUME NullAssumption == NULL \notin ArrayType

VARIABLES
    arr,       \* arr[a]: the struct at address a, or NULL
    held,      \* held[a]: references to a that clients hold (not in the program)
    given,     \* resources handed to an array so far (not in the program)
    cleaned,   \* cleaned[e]: times the callback was given e (not in the program)
    ret        \* what the last call returned

vars == <<arr, held, given, cleaned, ret>>

Fresh == Elems \ given
Live == {a \in Arrays : arr[a] # NULL}

\* The elements of an array, in order.
Content(r) == [i \in 1..r.len |-> r.storage[i - 1]]

Returns(code) == ret' = code

-----------------------------------------------------------------------------
(* Memory *)

NewArray(grow, cb) ==
    [storage |-> [s \in Slots |-> JUNK], size |-> 0, grow_by |-> grow, len |-> 0,
     refcount |-> 1, cb |-> cb]

\* ref_array_grow, when realloc() succeeds.
Grown(r) == [r EXCEPT !.size = @ + r.grow_by]

Full(r) == r.size = r.len

\* The array in which append and insert store: the same, or a grown one.
WithRoom(r) == IF Full(r) THEN Grown(r) ELSE r

\* Mutant: the shift starts at the wrong end and smears one element.
ShiftRight_upwards(storage, idx, len) ==
    LET loop[n \in 0..(len - idx)] ==
            IF n = 0 THEN storage
            ELSE [loop[n - 1] EXCEPT ![idx + n] = loop[n - 1][idx + n - 1]]
    IN  loop[len - idx]

\* for (i = len; i >= idx + 1; i--) storage[i] = storage[i - 1];
\* loop[n] is the storage after n turns.
ShiftRight(storage, idx, len) ==
    LET loop[n \in 0..(len - idx)] ==
            IF n = 0 THEN storage
            ELSE [loop[n - 1] EXCEPT ![len + 1 - n] = loop[n - 1][len - n]]
    IN  loop[len - idx]

\* for (i = idx + 1; i < len; i++) storage[i - 1] = storage[i]
ShiftLeft(storage, idx, len) ==
    LET loop[n \in 0..(len - idx - 1)] ==
            IF n = 0 THEN storage
            ELSE [loop[n - 1] EXCEPT ![idx + n - 1] = loop[n - 1][idx + n]]
    IN  loop[len - idx - 1]

\* The cleanup callback, if the array has one, on a sequence of slots.
Clean(r, elems) ==
    IF ~r.cb THEN UNCHANGED cleaned
    ELSE cleaned' = [e \in Elems |->
            cleaned[e] + Cardinality({n \in DOMAIN elems : elems[n] = e})]

\* An action that leaves the arrays alone.
Untouched == UNCHANGED <<arr, held, given, cleaned>>

-----------------------------------------------------------------------------
(* Operations *)

ref_array_create(a, grow) ==
    /\ arr[a] = NULL
    /\ \/ /\ grow = 0 /\ Untouched /\ Returns("EINVAL")
       \/ /\ CanFail /\ grow # 0 /\ Untouched /\ Returns("ENOMEM")
       \/ /\ grow # 0
          /\ arr' = [arr EXCEPT ![a] = NewArray(grow, TRUE)]
          /\ held' = [held EXCEPT ![a] = 1]
          /\ UNCHANGED <<given, cleaned>>
          /\ Returns("EOK")

ref_array_getref(a) ==
    /\ held[a] \in 1..(MaxRefs - 1)
    /\ arr' = [arr EXCEPT ![a].refcount = @ + 1]
    /\ held' = [held EXCEPT ![a] = @ + 1]
    /\ UNCHANGED <<given, cleaned>>
    /\ Returns("EOK")

\* A client gives one of its references back.
ref_array_destroy(a) ==
    /\ held[a] > 0 /\ arr[a].refcount > 0
    /\ held' = [held EXCEPT ![a] = @ - 1]
    /\ UNCHANGED given
    /\ Returns("EOK")
    /\ \/ /\ arr[a].refcount > 1
          /\ arr' = [arr EXCEPT ![a].refcount = @ - 1]
          /\ UNCHANGED cleaned
       \/ /\ arr[a].refcount = 1
          /\ Clean(arr[a], Content(arr[a]))
          /\ arr' = [arr EXCEPT ![a] = NULL]

\* append and insert: all that differs is where the element goes.
Store(a, idx, e) ==
    LET r == WithRoom(arr[a])
    IN  \/ /\ r.size <= MaxSlots
           /\ arr' = [arr EXCEPT ![a] =
                        [r EXCEPT !.storage = [ShiftRight(r.storage, idx, r.len) EXCEPT ![idx] = e],
                                  !.len = @ + 1]]
           /\ given' = given \cup {e}
           /\ UNCHANGED <<held, cleaned>>
           /\ Returns("EOK")
        \/ CanFail /\ Full(arr[a]) /\ Untouched /\ Returns("ENOMEM")

ref_array_append(a, e) ==
    arr[a].len < MaxSlots /\ Store(a, arr[a].len, e)

ref_array_insert(a, idx, e) ==
    \/ idx > arr[a].len /\ Untouched /\ Returns("ERANGE")
    \/ idx <= arr[a].len /\ arr[a].len < MaxSlots /\ Store(a, idx, e)

ref_array_get(a, idx) ==
    /\ Untouched
    /\ \/ idx >= arr[a].len /\ Returns("NULL")
       \/ idx < arr[a].len /\ Returns(arr[a].storage[idx])

\* idx = len is accepted.
ref_array_replace(a, idx, e) ==
    \/ idx > arr[a].len /\ Untouched /\ Returns("ERANGE")
    \/ /\ idx <= arr[a].len /\ (idx = arr[a].len => ReplaceAtEnd) /\ idx \in Slots
       /\ Clean(arr[a], <<arr[a].storage[idx]>>)
       /\ arr' = [arr EXCEPT ![a].storage[idx] = e]
       /\ given' = given \cup {e}
       /\ UNCHANGED held
       /\ Returns("EOK")

\* Mutant: the callback is made after the elements are shifted.
ref_array_remove_late(a, idx) ==
    \/ idx >= arr[a].len /\ Untouched /\ Returns("ERANGE")
    \/ /\ idx < arr[a].len
       /\ LET shifted == ShiftLeft(arr[a].storage, idx, arr[a].len)
          IN  /\ Clean(arr[a], <<shifted[idx]>>)
              /\ arr' = [arr EXCEPT ![a].storage = shifted, ![a].len = @ - 1]
       /\ UNCHANGED <<held, given>>
       /\ Returns("EOK")

ref_array_remove(a, idx) ==
    \/ idx >= arr[a].len /\ Untouched /\ Returns("ERANGE")
    \/ /\ idx < arr[a].len
       /\ Clean(arr[a], <<arr[a].storage[idx]>>)
       /\ arr' = [arr EXCEPT ![a].storage = ShiftLeft(@, idx, arr[a].len), ![a].len = @ - 1]
       /\ UNCHANGED <<held, given>>
       /\ Returns("EOK")

ref_array_reset(a) ==
    /\ Clean(arr[a], Content(arr[a]))
    /\ arr' = [arr EXCEPT ![a].storage = [s \in Slots |-> JUNK], ![a].size = 0, ![a].len = 0]
    /\ UNCHANGED <<held, given>>
    /\ Returns("EOK")

ref_array_swap(a, i, j) ==
    \/ /\ i >= arr[a].len \/ j >= arr[a].len
       /\ Untouched /\ Returns("ERANGE")
    \/ /\ i < arr[a].len /\ j < arr[a].len
       /\ UNCHANGED <<held, given, cleaned>>
       /\ \/ /\ arr' = [arr EXCEPT ![a].storage[i] = arr[a].storage[j],
                                   ![a].storage[j] = arr[a].storage[i]]
             /\ Returns("EOK")
          \/ /\ CanFail /\ i # j /\ UNCHANGED arr
             /\ Returns("ENOMEM")

\* The result of copying the first n elements of r, with copy_cb making the
\* fresh resources "copies", or without one.
CopyOf(r, copies, n, cb) ==
    [r EXCEPT !.storage = [s \in Slots |-> IF s < n THEN copies[s + 1]
                                           ELSE IF s < r.size THEN NULL ELSE JUNK],
              !.len = n, !.refcount = 1, !.cb = cb]

\* ref_array_destroy() of a partial copy: its elements get the callback.
AbandonCopy(copies) ==
    cleaned' = [e \in Elems |-> cleaned[e] + Cardinality({n \in DOMAIN copies : copies[n] = e})]

\* ref_array_copy with a copy callback: a copy of the elements, or the
\* callback fails after n of them and the partial copy is destroyed.
ref_array_copy(a, b) ==
    /\ arr[b] = NULL
    /\ \/ \E copies \in [1..arr[a].len -> Fresh] :
             /\ IsInjective(copies)
             /\ arr' = [arr EXCEPT ![b] = CopyOf(arr[a], copies, arr[a].len, TRUE)]
             /\ held' = [held EXCEPT ![b] = 1]
             /\ given' = given \cup Range(copies)
             /\ UNCHANGED cleaned
             /\ Returns("EOK")
       \/ \E n \in 0..(arr[a].len - 1) : \E copies \in [1..n -> Fresh] :
             /\ IsInjective(copies)
             /\ AbandonCopy(copies)
             /\ given' = given \cup Range(copies)
             /\ UNCHANGED <<arr, held>>
             /\ Returns("ECOPY")
       \/ CanFail /\ Untouched /\ Returns("ENOMEM")

\* ref_array_copy without callbacks: the copy shares the elements and never
\* cleans them.
ref_array_copy_shallow(a, b) ==
    /\ arr[b] = NULL
    /\ arr' = [arr EXCEPT ![b] = CopyOf(arr[a], Content(arr[a]), arr[a].len, FALSE)]
    /\ held' = [held EXCEPT ![b] = 1]
    /\ UNCHANGED <<given, cleaned>>
    /\ Returns("EOK")

-----------------------------------------------------------------------------
Init ==
    /\ arr = [a \in Arrays |-> NULL]
    /\ held = [a \in Arrays |-> 0]
    /\ given = {}
    /\ cleaned = [e \in Elems |-> 0]
    /\ ret = "EOK"

\* An array without a callback is only read here: its elements belong to the
\* array it was copied from.
Owner == {a \in Live : arr[a].cb}

\* Indexes callers pass: every element, the end, and one that is out of range.
Indexes(a) == 0..(arr[a].len + 1)

Next ==
    \/ \E a \in Arrays, grow \in GrowSizes : ref_array_create(a, grow)
    \/ \E a \in Arrays : ref_array_getref(a) \/ ref_array_destroy(a)
    \/ \E a \in Owner, e \in Fresh :
          \/ ref_array_append(a, e)
          \/ \E idx \in Indexes(a) : ref_array_insert(a, idx, e) \/ ref_array_replace(a, idx, e)
    \/ \E a \in Live : \E idx \in Indexes(a) : ref_array_get(a, idx)
    \/ \E a \in Owner : \E idx \in Indexes(a) : ref_array_remove(a, idx)
    \/ \E a \in Owner : ref_array_reset(a)
    \/ \E a \in Live : \E i, j \in Indexes(a) : ref_array_swap(a, i, j)
    \/ \E a \in Owner, b \in Arrays : ref_array_copy(a, b)
    \/ \E a \in Live, b \in Arrays : ref_array_copy_shallow(a, b)

Spec == Init /\ [][Next]_vars

-----------------------------------------------------------------------------
(* Properties *)

\* The fields stay in their types and within the modelled memory.
TypeOK ==
    /\ arr \in [Arrays -> ArrayType \cup {NULL}]
    /\ held \in [Arrays -> 0..MaxRefs]
    /\ given \subseteq Elems
    /\ cleaned \in [Elems -> Nat]

\* No operation reads or writes a slot past the allocated size: what is there
\* was never written, and the elements of the array lie before it.
WithinStorage ==
    \A a \in Live :
        /\ arr[a].len <= arr[a].size
        /\ \A s \in Slots : s >= arr[a].size => arr[a].storage[s] = JUNK
        /\ \A s \in Slots : s < arr[a].len => arr[a].storage[s] \in Elems

\* Every resource handed to an array is, from then on, in exactly one place:
\* an element of one owning array, or disposed of by one callback.  Nothing
\* is leaked, freed twice, or freed while an array still holds it, whatever
\* sequence of inserts, removals, copies, failed copies and destroys.
Places(e) == {p \in Owner \X Slots : p[2] < arr[p[1]].len /\ arr[p[1]].storage[p[2]] = e}
OwnedOnce ==
    \A e \in Elems :
        Cardinality(Places(e)) + cleaned[e] = IF e \in given THEN 1 ELSE 0

\* An array lives exactly as long as somebody holds a reference to it.
LiveWhileHeld == \A a \in Arrays : (arr[a] # NULL) <=> (held[a] > 0)

\* The contents change as a sequence would: what the shifting loops of insert
\* and remove do to the storage, and what a copy holds, is what the operations
\* on sequences say.
ContentStep(a) ==
    LET before == Content(arr[a])
        after == Content(arr'[a])
    IN  /\ \A e \in Fresh : ref_array_append(a, e) => after = Append(before, e)
        /\ \A e \in Fresh, i \in 0..Len(before) :
              ref_array_insert(a, i, e) => after = InsertAt(before, i + 1, e)
        /\ \A i \in 0..(Len(before) - 1) :
              /\ ref_array_remove(a, i) => after = RemoveAt(before, i + 1)
              /\ \A e \in Fresh : ref_array_replace(a, i, e) => after = ReplaceAt(before, i + 1, e)
        /\ \A b \in Arrays :
              ref_array_copy_shallow(a, b) => after = before /\ Content(arr'[b]) = before
ContentIsSequence == [][arr' # arr => \A a \in Live \cap Live' : ContentStep(a)]_vars

\* Whatever calls are made and fail, in whatever order: the arrays are well
\* formed, keep to their storage, own each element once, and live as long as
\* somebody holds them (ref_array_destroy, ref_array_copy, ref_array_remove).
ElementsSound == TypeOK /\ WithinStorage /\ OwnedOnce /\ LiveWhileHeld
=============================================================================
