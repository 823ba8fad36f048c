------------------------------ MODULE DHashMap ------------------------------
(***************************************************************************)
(* What libdhash promises its callers (dhash/dhash.h): a map from keys to  *)
(* values, kept as the set of its entries.  There are no buckets here.     *)
(* DHash is shown to implement this specification.                         *)
(***************************************************************************)
EXTENDS Integers, FiniteSets

CONSTANTS Keys, Values, UNDEF, BAD, NULL, CanFail

VARIABLES
    map,       \* the entries, at most one for a key, or NULL
    pending,   \* the entries an open iteration still has to return, or NULL
    ret,       \* the last call, its result code and its output
    callbacks  \* entries the last call passed to delete_callback

mapVars == <<map, pending, ret, callbacks>>

Entry(k, v) == [key |-> k, value |-> v]
Of(k) == IF map = NULL THEN {} ELSE {e \in map : e.key = k}

Returns(op, code, out) == ret' = <<op, code, out>> /\ callbacks' = {}
ReturnsDropping(op, es, type) ==
    /\ ret' = <<op, "SUCCESS", NULL>>
    /\ callbacks' = {[entry |-> e, type |-> type] : e \in es}

Unmodified == UNCHANGED <<map, pending>>

\* A call that fails changes nothing (but see InsertBlank).
Fails(op) ==
    /\ \E code \in {"NO_MEMORY", "EINVAL", "BAD_KEY_TYPE", "BAD_VALUE_TYPE"} :
          Returns(op, code, NULL) /\ (code = "NO_MEMORY" => CanFail)
    /\ (op = "create") = (map = NULL)
    /\ Unmodified

Create ==
    /\ Returns("create", "SUCCESS", NULL)
    /\ map = NULL /\ map' = {}
    /\ UNCHANGED pending

\* Modifying calls are made on an existing table that nobody iterates over.
MayModify == map # NULL /\ pending = NULL /\ UNCHANGED pending

\* Every entry still in the table gets the callback, once.
Destroy ==
    /\ ReturnsDropping("destroy", map, "TABLE_DESTROY")
    /\ MayModify /\ map' = NULL

Insert(op, k, v, out) ==
    /\ Returns(op, "SUCCESS", out)
    /\ MayModify /\ Of(k) = {} /\ map' = map \cup {Entry(k, v)}

\* hash_enter and hash_get_default may report NO_MEMORY and yet leave the key
\* in the table, without a value.
InsertBlank(op, k) ==
    /\ CanFail /\ Returns(op, "NO_MEMORY", NULL)
    /\ MayModify /\ Of(k) = {} /\ map' = map \cup {Entry(k, UNDEF)}

\* The caller is handed the old value to dispose of.
Overwrite(k, v) ==
    /\ ReturnsDropping("enter", Of(k), "ENTRY_DESTROY")
    /\ MayModify /\ Of(k) # {} /\ map' = (map \ Of(k)) \cup {Entry(k, v)}

Lookup(k) ==
    /\ \/ Returns("lookup", "KEY_NOT_FOUND", NULL) /\ map # NULL /\ Of(k) = {}
       \/ \E e \in Of(k) : Returns("lookup", "SUCCESS", e.value)
    /\ Unmodified

GetPresent(k) ==
    /\ \E e \in Of(k) : Returns("get_default", "SUCCESS", e.value)
    /\ MayModify /\ UNCHANGED map

Delete(k) ==
    /\ ReturnsDropping("delete", Of(k), "ENTRY_DESTROY")
    /\ MayModify /\ Of(k) # {} /\ map' = map \ Of(k)

DeleteAbsent(k) ==
    /\ Returns("delete", "KEY_NOT_FOUND", NULL)
    /\ MayModify /\ Of(k) = {} /\ UNCHANGED map

Count ==
    /\ map # NULL /\ Returns("count", "SUCCESS", Cardinality(map))
    /\ Unmodified

AllOf ==
    /\ Returns("entries", "SUCCESS", map)
    /\ map # NULL /\ Unmodified

Iterate ==
    /\ Returns("new_iter", "SUCCESS", NULL)
    /\ map # NULL /\ pending = NULL /\ pending' = map
    /\ UNCHANGED map

\* Every entry is returned once, and the end is reported when none is left.
IterNext ==
    /\ pending # NULL
    /\ \/ \E e \in pending : Returns("next", "SUCCESS", e) /\ pending' = pending \ {e}
       \/ Returns("next", "END", NULL) /\ pending = {} /\ UNCHANGED pending
    /\ UNCHANGED map

StopIterating ==
    /\ Returns("free_iter", "SUCCESS", NULL)
    /\ pending # NULL /\ pending' = NULL
    /\ UNCHANGED map

MapInit ==
    /\ map = NULL /\ pending = NULL
    /\ ret = <<"none", "SUCCESS", NULL>> /\ callbacks = {}

MapNext ==
    \/ Create \/ Destroy \/ Count \/ AllOf \/ Iterate \/ IterNext \/ StopIterating
    \/ \E op \in {"create", "enter", "get_default", "delete", "lookup", "entries", "new_iter"} : Fails(op)
    \/ \E k \in Keys, v \in Values :
          \/ Insert("enter", k, v, NULL) \/ Overwrite(k, v)
          \/ Insert("get_default", k, v, v)
    \/ \E k \in Keys :
          \/ InsertBlank("enter", k) \/ InsertBlank("get_default", k)
          \/ Lookup(k) \/ GetPresent(k) \/ Delete(k) \/ DeleteAbsent(k)

MapSpec == MapInit /\ [][MapNext]_mapVars

=============================================================================
