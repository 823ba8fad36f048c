----------------------------- MODULE Collection -----------------------------
(***************************************************************************)
(* One level of a collection (collection/collection.c) through its life:   *)
(* created, items inserted, extracted, deleted and modified, destroyed.    *)
(* What a call does to the list is in CollectionList.  Item data is left   *)
(* out; references to other collections are the subject of CollectionRefs. *)
(***************************************************************************)
EXTENDS CollectionList

CONSTANTS
    Names,        \* property names the callers use
    HeaderName,   \* the name of the collection
    Types,        \* types of data items
    Ids,          \* addresses of items
    Indexes       \* idx arguments

ASSUME CollectionAssumption ==
    /\ Indexes \subseteq Int
    /\ PrefixOf \subseteq (Names \cup {HeaderName}) \X (Names \cup {HeaderName})
    /\ Respelled \subseteq (Names \cup {HeaderName}) \X (Names \cup {HeaderName})
    /\ HEADER \notin Ids /\ {COLLECTION, ANY} \cap Types = {}

VARIABLES
    col,      \* [list, last, count] or NULL
    out,      \* items the callers hold: extracted, not in the collection
    live,     \* addresses of the items that are allocated
    crashed   \* a call read through a NULL pointer

vars == <<col, out, live, crashed>>

Item == [id : Ids, prop : Names, type : Types]
HeaderItem == Header(HeaderName)
Filters == Types \cup {ANY}

\* A pointer to a collection is not the NULL pointer.
ASSUME PointerAssumption ==
    NULL \notin [list : Seq(Item \cup {HeaderItem}), last : Ids \cup {HEADER}, count : Nat]
-----------------------------------------------------------------------------
Init ==
    /\ col = NULL
    /\ out = {}
    /\ live = {}
    /\ crashed = FALSE

col_create_collection ==
    /\ ~crashed /\ col = NULL
    /\ col' = NewCollection(HeaderName)
    /\ live' = live \cup {HEADER}
    /\ UNCHANGED <<out, crashed>>

\* A call that crashed changes nothing any more.
Crash == crashed' = TRUE /\ UNCHANGED <<col, out, live>>

\* col_insert_property_with_ref: the new item is deleted if it cannot be placed.
col_insert_property(item, disposition, refprop, idx, flags) ==
    /\ ~crashed /\ col # NULL
    /\ item.id \notin live
    /\ LET r == col_insert_item_into_current(col, item, disposition, refprop,
                                             idx, flags)
       IN  \/ r.error = "CRASH" /\ Crash
           \/ /\ r.error # "CRASH"
              /\ col' = r.col
              /\ live' = (live \cup (IF r.error = "EOK" THEN {item.id} ELSE {}))
                            \ r.freed
              /\ UNCHANGED <<out, crashed>>

\* col_insert_item: the item stays the caller's if it cannot be placed.
col_insert_item(item, disposition, refprop, idx, flags) ==
    /\ ~crashed /\ col # NULL
    /\ LET r == col_insert_item_into_current(col, item, disposition, refprop,
                                             idx, flags)
       IN  \/ r.error = "CRASH" /\ Crash
           \/ /\ r.error # "CRASH"
              /\ col' = r.col
              /\ out' = IF r.error = "EOK" THEN out \ {item} ELSE out
              /\ live' = live \ r.freed
              /\ UNCHANGED crashed

\* The item is handed to the caller with its next pointer cleared.
col_extract_item(disposition, refprop, idx, ty) ==
    /\ ~crashed /\ col # NULL
    /\ LET p == ExtractPosition(col, disposition, refprop, idx, ty)
       IN  /\ p # 0
           /\ col' = TakeOut(col, p)
           /\ out' = out \cup {col.list[p]}
    /\ UNCHANGED <<live, crashed>>

col_remove_item(disposition, refprop, idx, ty) ==
    /\ ~crashed /\ col # NULL
    /\ LET p == ExtractPosition(col, disposition, refprop, idx, ty)
       IN  /\ p # 0
           /\ col' = TakeOut(col, p)
           /\ live' = live \ {col.list[p].id}
    /\ UNCHANGED <<out, crashed>>

\* The first item of that name and type below the header, at this level.
col_delete_property(nm, ty) ==
    /\ ~crashed /\ col # NULL
    /\ LET found == Matching(col.list, nm, ty) \ {1}
       IN  /\ found # {}
           /\ col' = TakeOut(col, Min(found))
           /\ live' = live \ {col.list[Min(found)].id}
    /\ UNCHANGED <<out, crashed>>

\* col_modify_item on an item of the list: a header keeps its type.
col_modify_item(p, nm, ty) ==
    /\ ~crashed /\ col # NULL
    /\ p \in DOMAIN col.list \ {1}
    /\ col' = [col EXCEPT !.list[p] = [@ EXCEPT !.prop = nm, !.type = ty]]
    /\ UNCHANGED <<out, live, crashed>>

\* col_delete_item on an item that was extracted.
col_delete_item(item) ==
    /\ ~crashed
    /\ out' = out \ {item}
    /\ live' = live \ {item.id}
    /\ UNCHANGED <<col, crashed>>

\* With one reference left the items are deleted from the last to the header.
col_destroy_collection ==
    /\ ~crashed /\ col # NULL
    /\ col' = NULL
    /\ live' = live \ IdsOf(Range(col.list))
    /\ UNCHANGED <<out, crashed>>

\* The position arguments <<disposition, refprop, idx>> of an insertion and of
\* an extraction; those that the disposition does not read are fixed.
Indexed == {"INDEX", "NDUP", "NDUPNS"}
InsertArgs ==
    {a \in Dispositions \X (Names \cup {NULL}) \X Indexes :
        /\ a[1] \in {"BEFORE", "AFTER"} \/ a[2] = NULL
        /\ a[1] \in Indexed \/ a[3] = 0}
ExtractArgs ==
    {a \in Dispositions \X (Names \cup {NULL}) \X Indexes :
        /\ a[1] \in {"BEFORE", "AFTER"} \cup Dups <=> a[2] # NULL
        /\ a[1] \in Indexed \/ a[3] = 0}

Next ==
    \/ col_create_collection
    \/ \E item \in Item, a \in InsertArgs, f \in Flags :
          col_insert_property(item, a[1], a[2], a[3], f)
    \/ \E item \in out, a \in InsertArgs, f \in Flags :
          col_insert_item(item, a[1], a[2], a[3], f)
    \/ \E a \in ExtractArgs, ty \in Filters :
          col_extract_item(a[1], a[2], a[3], ty)
    \/ \E a \in ExtractArgs, ty \in Filters :
          col_remove_item(a[1], a[2], a[3], ty)
    \/ \E nm \in Names, ty \in Filters : col_delete_property(nm, ty)
    \/ \E p \in 1..(Cardinality(Ids) + 1), nm \in Names, ty \in Types :
          col_modify_item(p, nm, ty)
    \/ \E item \in out : col_delete_item(item)
    \/ col_destroy_collection

Spec == Init /\ [][Next]_vars
-----------------------------------------------------------------------------
(* The state has its type: a collection whose items are the header and data *)
(* items, and extracted items that are data items.                         *)
TypeOK ==
    /\ \/ col = NULL
       \/ /\ DOMAIN col = {"list", "last", "count"}
          /\ Len(col.list) > 0 /\ col.list[1] = HeaderItem
          /\ \A i \in 2..Len(col.list) : col.list[i] \in Item
          /\ col.last \in Ids \cup {HEADER}
          /\ col.count \in Nat
    /\ out \subseteq Item
    /\ live \subseteq Ids \cup {HEADER}
    /\ crashed \in BOOLEAN

(* The header tells the truth of the list.  header->last is the item whose *)
(* next pointer is NULL: COL_DSP_END links the new item behind it, which   *)
(* would cut off every item after it, or write to freed memory.  And       *)
(* header->count is the number of items, the header included: the end of   *)
(* the index range and the tests for an empty collection rest on it.       *)
HeaderExact ==
    col # NULL => /\ col.last = col.list[Len(col.list)].id
                  /\ col.count = Len(col.list)

(* Every allocated item has one owner, the list or a caller, and no owner  *)
(* has an item that was deleted: whatever fails, an item is neither leaked *)
(* nor deleted twice nor linked twice.                                     *)
OwnedOnce ==
    LET listed == IF col = NULL THEN {} ELSE IdsOf(Range(col.list))
    IN  /\ col # NULL => Cardinality(listed) = Len(col.list)
        /\ Cardinality(IdsOf(out)) = Cardinality(out)
        /\ listed \cap IdsOf(out) = {}
        /\ live = listed \cup IdsOf(out)

\* A search for one of these never stops at the header.
UnlikeHeader == {nm \in Names : ~Alike(HeaderName, nm)}

(* What collection.h says of duplicates: the occurrences of a name, and    *)
(* the uninterrupted sequence of them that starts at the first.            *)
FirstRun(S) == {i \in S : (Min(S)..i) \subseteq S}
Nth(S, n) == CHOOSE i \in S : Cardinality({j \in S : j < i}) = n
AmongDups(S, disposition, idx) ==
    CASE disposition = "FIRSTDUP"  -> Min(S)
      [] disposition = "LASTDUP"   -> Max(FirstRun(S))
      [] disposition = "LASTDUPNS" -> Max(S)
      [] disposition = "NDUP"      -> IF idx < Cardinality(FirstRun(S))
                                      THEN Nth(FirstRun(S), idx) ELSE 0
      [] disposition = "NDUPNS"    -> IF idx < Cardinality(S) THEN Nth(S, idx) ELSE 0

(* Insertion among duplicates goes where collection.h says: FIRSTDUP and   *)
(* the N-th before the duplicate with that number, LASTDUP and an N past   *)
(* the end right behind the last one (of the sequence, or of all with NS), *)
(* ENOENT without a duplicate, and header->last follows.                   *)
PlacedRight(c, nm, d, idx) ==
    LET S == SameName(c.list, nm)
        new == [id |-> "new", prop |-> nm, type |-> "any"]
        r == Place(c, new, d, NULL, idx, {})
        before == AmongDups(S, d, idx)
        behind == 1 + (IF INTERRUPT(d) THEN Max(FirstRun(S)) ELSE Max(S))
        at == IF before = 0 \/ d \in {"LASTDUP", "LASTDUPNS"}
              THEN behind ELSE before
    IN  IF S = {} THEN r = Result("ENOENT", c, {})
        ELSE /\ r.error = "EOK"
             /\ r.col.list = InsertAt(c.list, at, new)
             /\ r.col.last = r.col.list[Len(r.col.list)].id

\* That holds for every name, every such disposition and every index.
DupsPlaced ==
    col # NULL =>
    \A nm \in UnlikeHeader, d \in Dups, idx \in Indexes \cap Nat :
        PlacedRight(col, nm, d, idx)

(* Extraction among duplicates, without a type filter, takes the one that  *)
(* collection.h says, and nothing if the sequence is shorter than that.    *)
DupsExtracted ==
    col # NULL =>
    \A nm \in UnlikeHeader, d \in Dups, idx \in Indexes \cap Nat :
        LET S == SameName(col.list, nm)
        IN  ExtractPosition(col, d, nm, idx, ANY) =
                IF S = {} THEN 0 ELSE AmongDups(S, d, idx)

(* An insertion that checks for duplicates never leaves more items of that *)
(* name (and type, for the T flags) than there were, if there were any.    *)
NoneAdded(c, nm, ty, a, f) ==
    LET t == IF f \in {"DUPOVERT", "DUPERRORT", "DUPMOVET"} THEN ty ELSE ANY
        new == [id |-> "new", prop |-> nm, type |-> ty]
        r == col_insert_item_into_current(c, new, a[1], a[2], a[3], f)
        before == Cardinality(Matching(c.list, nm, t))
    IN  Cardinality(Matching(r.col.list, nm, t)) <=
            (IF before = 0 THEN 1 ELSE before)

\* That holds whatever the name, the type, the disposition and the flags.
NoNewDuplicate ==
    col # NULL =>
    \A nm \in UnlikeHeader, ty \in Types, a \in InsertArgs,
       f \in Flags \ {"NOCHECK"} : NoneAdded(col, nm, ty, a, f)

(* col_get_dup_item with exact set returns the idx-th item of the name and *)
(* type wherever it is, among items that spell the name differently too,   *)
(* and ENOENT if there are not that many.  (An item that is spelled in     *)
(* other case than the name asked for is taken for its parent.)            *)
ExactDupFound ==
    col # NULL =>
    \A nm \in UnlikeHeader, ty \in Filters, idx \in Indexes \cap Nat :
        LET M == Matching(col.list, nm, ty)
            got == col_get_dup_item(col.list, nm, ty, idx, TRUE)
        IN  IF idx < Cardinality(M)
            THEN col.list[Nth(M, idx)].prop = nm => got = Nth(M, idx)
            ELSE got = 0

(* The list, its header and the ownership of the items are sound after any *)
(* calls: col_insert_item_into_current and col_extract_item_from_current.  *)
ListSound == TypeOK /\ HeaderExact /\ OwnedOnce

(* An insertion puts the item where the disposition says and makes no      *)
(* duplicate that its flag forbids: col_insert_item_into_current.          *)
InsertMeans == DupsPlaced /\ NoNewDuplicate

(* Searches among duplicates find the one that was asked for:              *)
(* col_extract_item_from_current and col_get_dup_item.                     *)
SearchMeans == DupsExtracted /\ ExactDupFound
=============================================================================
