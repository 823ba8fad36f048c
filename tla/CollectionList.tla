--------------------------- MODULE CollectionList ---------------------------
(***************************************************************************)
(* The list of a collection (collection/collection.c) and what the calls   *)
(* compute on it: a singly linked list of items whose first item is the    *)
(* header, and in the header a pointer to the last item and the number of  *)
(* items.                                                                  *)
(*                                                                         *)
(* The list is the sequence of the items reached through the next          *)
(* pointers, list[1] being the header item, named like the collection.  A  *)
(* position p stands for the pointer to list[p], 0 for NULL.  An item has  *)
(* an address (id), a name (prop) and a type; more fields are its data.    *)
(* Names are compared without regard to case, except where they are not.   *)
(***************************************************************************)
EXTENDS Integers, FiniteSets, SequencesExt

CONSTANTS
    PrefixOf,     \* <<n, m>> : the name n is a proper prefix of the name m, case by case
    Respelled,    \* <<n, m>> : the names n and m differ in the case of letters only
    NULL          \* no collection, or no name

COLLECTION == "COL_TYPE_COLLECTION"
ANY == "any type"                    \* type argument 0
HEADER == "header"                   \* the address of the header item
CRASH == -1                          \* the walk read through a NULL pointer

\* What strncasecmp() and the hash of a name take for one name.
Alike(n, m) == n = m \/ <<n, m>> \in Respelled

\* A difference of case is one both ways, two of them make one or none, and it
\* does not make a prefix.
ASSUME NameAssumption ==
    /\ \A d \in Respelled : <<d[2], d[1]>> \in Respelled
    /\ \A d, e \in Respelled : d[2] = e[1] => Alike(d[1], e[2])
    /\ PrefixOf \cap Respelled = {}

IdsOf(items) == {it.id : it \in items}

Header(name) == [id |-> HEADER, prop |-> name, type |-> COLLECTION]

\* col_create_collection: the header is inserted into itself, with count 0;
\* then last and count are set.
NewCollection(name) == [list |-> <<Header(name)>>, last |-> HEADER, count |-> 1]

Dups == {"FIRSTDUP", "LASTDUP", "NDUP", "LASTDUPNS", "NDUPNS"}
Dispositions == {"END", "FRONT", "BEFORE", "AFTER", "INDEX"} \cup Dups
Flags == {"NOCHECK", "DUPOVER", "DUPOVERT", "DUPERROR", "DUPERRORT",
          "DUPMOVE", "DUPMOVET"}
-----------------------------------------------------------------------------
(* col_find_property_sub with col_parent_traverse_handler: the position of *)
(* the item before the one looked for, 0 if it is not found.  The walk     *)
(* starts at the header, whose previous item is NULL.                      *)

SameName(l, nm) == {i \in DOMAIN l : Alike(l[i].prop, nm)}

Matching(l, nm, ty) == {i \in SameName(l, nm) : ty \in {ANY, l[i].type}}

\* The positions where the handler says "done": the index-th match.
DoneAt(M, index) ==
    {i \in M : index >= 0 /\ Cardinality({j \in M : j < i}) = index}

\* Mutant: a search is only given up at the end of the list.
GiveUpAt_late(l, nm, M, index, interrupt) ==
    {i \in (DOMAIN l \ SameName(l, nm)) \cup M :
        /\ index # 0
        /\ \E j \in M : j <= i
        /\ i = Len(l)}

\* The positions where a search for a later duplicate gives up: after the
\* first match, at an item of another name (if interrupt) or at the end.  An
\* item with the name and another type returns before this test.
GiveUpAt(l, nm, M, index, interrupt) ==
    {i \in (DOMAIN l \ SameName(l, nm)) \cup M :
        /\ index # 0
        /\ \E j \in M : j <= i
        /\ \/ interrupt /\ i \notin M
           \/ i = Len(l)}

\* Short of the index-th match, index -2 yields the parent of the last match
\* seen, any other index (unless exact) the last match: to_find->parent->next.
col_find_property_sub(l, interrupt, nm, index, exact, ty) ==
    LET M == Matching(l, nm, ty)
        done == DoneAt(M, index)
        stops == done \cup GiveUpAt(l, nm, M, index, interrupt)
        stop == Min(stops)
        match == Max({i \in M : i <= stop})
    IN  IF stops = {} THEN 0
        ELSE IF stop \in done THEN stop - 1
        ELSE IF index = -2 THEN match - 1
        ELSE IF exact THEN 0
        ELSE IF match = 1 THEN CRASH ELSE match

col_find_property(l, nm, ty) == col_find_property_sub(l, TRUE, nm, 0, FALSE, ty)

INTERRUPT(disposition) == disposition \notin {"LASTDUPNS", "NDUPNS"}

\* col_get_dup_item: the position of the item found; 0 is ENOENT.  The result
\* of the search is taken for a parent if strncmp(), which minds the case, over
\* the length of the next item's name says so, else for the item itself.
col_get_dup_item(l, nm, ty, idx, exact) ==
    LET p == col_find_property_sub(l, FALSE, nm, idx, exact, ty)
    IN  CASE p \in {0, CRASH} -> p
          [] p = Len(l)       -> CRASH
          [] OTHER -> IF l[p + 1].prop = nm \/ <<l[p + 1].prop, nm>> \in PrefixOf
                      THEN p + 1 ELSE p
-----------------------------------------------------------------------------
(* Changes to the list.  A result is [error, col, freed]: what the call    *)
(* returns, the collection after it and the items it deleted.              *)

Result(error, c, freed) == [error |-> error, col |-> c, freed |-> freed]

LastPosition(c) == CHOOSE p \in DOMAIN c.list : c.list[p].id = c.last

\* header->last->next = item; header->last = item; header->count++
LinkLast(c, item) ==
    [c EXCEPT !.list = Append(SubSeq(@, 1, LastPosition(c)), item),
              !.last = item.id,
              !.count = @ + 1]

\* item->next = parent->next; parent->next = item; header->count++
LinkAfter(c, p, item) ==
    [c EXCEPT !.list = InsertAt(@, p + 1, item), !.count = @ + 1]

\* parent->next = current->next and header->count--, current being at p + 1.
Unlink(c, p) == [c EXCEPT !.list = RemoveAt(@, p + 1), !.count = @ - 1]

\* COL_INSERT_DUPOVER: the item takes the place of the one at p + 1.
Overwrite(c, p, item) ==
    [c EXCEPT !.list[p + 1] = item,
              !.last = IF @ = c.list[p + 1].id THEN item.id ELSE @]

\* Mutant: header->last keeps pointing to the deleted item.
MoveAway_stale(c, p) == Unlink(c, p)

\* COL_INSERT_DUPMOVE: the one at p + 1 goes before the item is placed.
MoveAway(c, p) ==
    [Unlink(c, p) EXCEPT !.last = IF @ = c.list[p + 1].id
                                  THEN c.list[p].id ELSE @]

AddFirst(c, item) ==
    IF c.count = 1 THEN LinkLast(c, item) ELSE LinkAfter(c, 1, item)

\* After a duplicate: header->last moves if the parent was the last item.
AddBesideDup(c, p, item) ==
    [LinkAfter(c, p, item) EXCEPT !.last = IF @ = c.list[p].id
                                           THEN item.id ELSE @]

\* Mutant: extraction asks for the last duplicate as insertion does.
RefIndex_same(disposition, idx, lastdup) ==
    CASE disposition = "FIRSTDUP" -> 0
      [] disposition \in {"LASTDUP", "LASTDUPNS"} -> -1
      [] OTHER -> idx

RefIndex(disposition, idx, lastdup) ==
    CASE disposition = "FIRSTDUP" -> 0
      [] disposition \in {"LASTDUP", "LASTDUPNS"} -> lastdup
      [] OTHER -> idx

\* header->count is unsigned, so a negative idx compares as a huge one.
BeyondLast(c, idx) == idx < 0 \/ idx >= c.count - 1

\* The switch over the dispositions.  refprop is NULL or a name.
Place(c, item, disposition, refprop, idx, freed) ==
    LET ok(d) == Result("EOK", d, freed)
        failed(error) == Result(error, c, freed)
        ref == col_find_property(c.list, refprop, ANY)
        dup == col_find_property_sub(c.list, INTERRUPT(disposition), item.prop,
                                     RefIndex(disposition, idx, -1), FALSE, ANY)
    IN  CASE disposition = "END" -> ok(LinkLast(c, item))
          [] disposition = "FRONT" -> ok(AddFirst(c, item))
          [] disposition \in {"BEFORE", "AFTER"} /\ refprop = NULL ->
                failed("EINVAL")
          [] disposition \in {"BEFORE", "AFTER"} /\ refprop # NULL /\ ref = 0 ->
                failed("ENOENT")
          [] disposition = "BEFORE" /\ refprop # NULL /\ ref # 0 ->
                ok(LinkAfter(c, ref, item))
          [] disposition = "AFTER" /\ refprop # NULL /\ ref # 0 ->
                ok(IF ref + 1 < Len(c.list) THEN LinkAfter(c, ref + 1, item)
                                            ELSE LinkLast(c, item))
          [] disposition = "INDEX" ->
                ok(CASE idx = 0            -> AddFirst(c, item)
                     [] idx # 0 /\ BeyondLast(c, idx) -> LinkLast(c, item)
                     [] OTHER              -> LinkAfter(c, 1 + idx, item))
          [] disposition \in Dups /\ dup = CRASH -> failed("CRASH")
          [] disposition \in Dups /\ dup = 0 -> failed("ENOENT")
          [] disposition \in Dups /\ dup > 0 -> ok(AddBesideDup(c, dup, item))

\* The flags decide first whether there is a duplicate and what becomes of it.
col_insert_item_into_current(c, item, disposition, refprop, idx, flags) ==
    LET ty == IF flags \in {"DUPOVERT", "DUPERRORT", "DUPMOVET"}
              THEN item.type ELSE ANY
        p == IF flags = "NOCHECK" THEN 0
             ELSE col_find_property(c.list, item.prop, ty)
        old == c.list[p + 1].id
    IN  CASE p = 0 -> Place(c, item, disposition, refprop, idx, {})
          [] p > 0 /\ flags \in {"DUPOVER", "DUPOVERT"} ->
                Result("EOK", Overwrite(c, p, item), {old})
          [] p > 0 /\ flags \in {"DUPERROR", "DUPERRORT"} ->
                Result("EEXIST", c, {})
          [] p > 0 /\ flags \in {"DUPMOVE", "DUPMOVET"} ->
                Place(MoveAway(c, p), item, disposition, refprop, idx, {old})

\* col_extract_item_from_current: which position is taken out, 0 for ENOENT.
ExtractPosition(c, disposition, refprop, idx, ty) ==
    LET l == c.list
        ref == col_find_property(l, refprop, ty)
        dup == col_find_property_sub(l, INTERRUPT(disposition), refprop,
                                     RefIndex(disposition, idx, -2), TRUE, ty)
    IN  CASE c.count <= 1 -> 0
          [] c.count > 1 /\ disposition = "END" -> Len(l)
          [] c.count > 1 /\ disposition = "FRONT" -> 2
          [] c.count > 1 /\ disposition = "BEFORE" -> IF ref <= 1 THEN 0 ELSE ref
          [] c.count > 1 /\ disposition = "AFTER" ->
                IF ref = 0 \/ ref + 1 = Len(l) THEN 0 ELSE ref + 2
          [] c.count > 1 /\ disposition = "INDEX" ->
                IF BeyondLast(c, idx) /\ idx # 0 THEN 0 ELSE idx + 2
          [] c.count > 1 /\ disposition \in Dups -> IF dup = 0 THEN 0 ELSE dup + 1

\* header->last moves when the last item was taken out; the BEFORE case and
\* the FRONT case with more than one item do not look.
TakeOut(c, p) ==
    [Unlink(c, p - 1) EXCEPT !.last = IF p = Len(c.list) THEN c.list[p - 1].id
                                      ELSE @]
=============================================================================
