-------------------------- MODULE CollectionTyped --------------------------
(***************************************************************************)
(* What the items of a collection hold, and the calls for one type each:   *)
(* collection/collection_cnv.c (insert, add, update, modify),              *)
(* collection_queue.c and collection_stack.c, on the list of               *)
(* CollectionList.                                                         *)
(*                                                                         *)
(* Names and data are sequences of character codes, a number is the        *)
(* sequence of itself.  A caller's string is the text without its 0.  Where*)
(* an item goes is a record of the four arguments that say so.  Addresses  *)
(* of new items are arguments.                                             *)
(***************************************************************************)
EXTENDS CollectionList

CONSTANT COL_MAX_DATA    \* bound on the length of the data of an item

REF == "COL_TYPE_COLLECTIONREF"
Texts == {"STRING", "BINARY"}
SizeOf == [INTEGER |-> 4, UNSIGNED |-> 4, LONG |-> 8, ULONG |-> 8, DOUBLE |-> 8, BOOL |-> 1]
Types == Texts \cup DOMAIN SizeOf
DOT == 46

\* col_validate_property: control characters and "!" are refused.
Invalid(name) == \E i \in DOMAIN name : name[i] < 32 \/ name[i] = 33

\* The bytes a call reads, and the string with its terminating 0.
Taken(type, data, length) == IF type \in Texts THEN SubSeq(data, 1, length) ELSE data
Zero(text) == Append(text, 0)

\* The last byte of a string becomes 0, whatever it was.
Terminated(type, data) == IF type = "STRING" THEN [data EXCEPT ![Len(data)] = 0] ELSE data

NewItem(id, prop, type, length, data, sub) ==
    [id |-> id, prop |-> prop, type |-> type, length |-> length, data |-> data, sub |-> sub]

AllocateError(prop, length, type) ==
    CASE length \notin 0 .. COL_MAX_DATA - 1 \/ (type = "STRING" /\ length = 0) -> "EMSGSIZE"
      [] Invalid(prop) -> "EINVAL"
      [] OTHER -> "EOK"

col_allocate_item(id, prop, data, length, type) ==
    NewItem(id, prop, type, length, Terminated(type, Taken(type, data, length)), NULL)

\* A call for one type is a call of col_insert_property_with_ref with these
\* arguments; class is what the collection has to be of, held says that the
\* caller asks for the new item.
Insertion(p, prop, type, data, length) ==
    [p |-> p, prop |-> prop, type |-> type, data |-> data, length |-> length,
     class |-> ANY, held |-> FALSE]

col_is_of_class(c, class) == c.class = class

col_insert_property_with_ref(c, in, id) ==
    LET item == col_allocate_item(id, in.prop, in.data, in.length, in.type)
        error == AllocateError(in.prop, in.length, in.type)
    IN  CASE in.class # ANY /\ ~col_is_of_class(c, in.class) -> Result("EINVAL", c, {})
          [] (in.class = ANY \/ col_is_of_class(c, in.class)) /\ error # "EOK" -> Result(error, c, {})
          [] OTHER -> col_insert_item_into_current(c, item, in.p.disposition, in.p.refprop,
                                                   in.p.idx, in.p.flags)

Position(disposition, refprop, idx, flags) ==
    [disposition |-> disposition, refprop |-> refprop, idx |-> idx, flags |-> flags]
AtEnd == Position("END", NULL, 0, "NOCHECK")
-----------------------------------------------------------------------------
(* Insert, and the forms that hand out the new item.                       *)

StrLength(text, length) == IF length = 0 THEN Len(text) + 1 ELSE length

col_insert_str_property(p, prop, text, length) ==
    Insertion(p, prop, "STRING", Zero(text), StrLength(text, length))
col_insert_binary_property(p, prop, data, length) == Insertion(p, prop, "BINARY", data, length)
col_insert_int_property(p, prop, n) == Insertion(p, prop, "INTEGER", <<n>>, SizeOf.INTEGER)
col_insert_unsigned_property(p, prop, n) ==
    Insertion(p, prop, "UNSIGNED", <<n>>, SizeOf.UNSIGNED)
col_insert_long_property(p, prop, n) == Insertion(p, prop, "LONG", <<n>>, SizeOf.LONG)
col_insert_ulong_property(p, prop, n) == Insertion(p, prop, "ULONG", <<n>>, SizeOf.ULONG)
col_insert_double_property(p, prop, n) == Insertion(p, prop, "DOUBLE", <<n>>, SizeOf.DOUBLE)
col_insert_bool_property(p, prop, n) == Insertion(p, prop, "BOOL", <<n>>, SizeOf.BOOL)

\* *ret_ref is the new item.
WithRef(in) == [in EXCEPT !.held = TRUE]

col_insert_str_property_with_ref(p, prop, text, length) ==
    WithRef(col_insert_str_property(p, prop, text, length))
col_insert_binary_property_with_ref(p, prop, data, length) ==
    WithRef(col_insert_binary_property(p, prop, data, length))
col_insert_int_property_with_ref(p, prop, n) == WithRef(col_insert_int_property(p, prop, n))
col_insert_unsigned_property_with_ref(p, prop, n) ==
    WithRef(col_insert_unsigned_property(p, prop, n))
col_insert_long_property_with_ref(p, prop, n) == WithRef(col_insert_long_property(p, prop, n))
col_insert_ulong_property_with_ref(p, prop, n) == WithRef(col_insert_ulong_property(p, prop, n))
col_insert_double_property_with_ref(p, prop, n) ==
    WithRef(col_insert_double_property(p, prop, n))
col_insert_bool_property_with_ref(p, prop, n) == WithRef(col_insert_bool_property(p, prop, n))
-----------------------------------------------------------------------------
(* Add: insert at the end, without a look for duplicates.                  *)

col_add_str_property(prop, text, length) == col_insert_str_property(AtEnd, prop, text, length)
col_add_binary_property(prop, data, length) ==
    col_insert_binary_property(AtEnd, prop, data, length)
col_add_int_property(prop, n) == col_insert_int_property(AtEnd, prop, n)
col_add_unsigned_property(prop, n) == col_insert_unsigned_property(AtEnd, prop, n)
col_add_long_property(prop, n) == col_insert_long_property(AtEnd, prop, n)
col_add_ulong_property(prop, n) == col_insert_ulong_property(AtEnd, prop, n)
col_add_double_property(prop, n) == col_insert_double_property(AtEnd, prop, n)
col_add_bool_property(prop, n) == col_insert_bool_property(AtEnd, prop, n)
col_add_any_property(prop, type, data, length) == Insertion(AtEnd, prop, type, data, length)

col_add_str_property_with_ref(prop, text, length) ==
    col_insert_str_property_with_ref(AtEnd, prop, text, length)
col_add_binary_property_with_ref(prop, data, length) ==
    col_insert_binary_property_with_ref(AtEnd, prop, data, length)
col_add_int_property_with_ref(prop, n) == col_insert_int_property_with_ref(AtEnd, prop, n)
col_add_unsigned_property_with_ref(prop, n) ==
    col_insert_unsigned_property_with_ref(AtEnd, prop, n)
col_add_long_property_with_ref(prop, n) == col_insert_long_property_with_ref(AtEnd, prop, n)
col_add_ulong_property_with_ref(prop, n) == col_insert_ulong_property_with_ref(AtEnd, prop, n)
col_add_double_property_with_ref(prop, n) == col_insert_double_property_with_ref(AtEnd, prop, n)
col_add_bool_property_with_ref(prop, n) == col_insert_bool_property_with_ref(AtEnd, prop, n)
col_add_any_property_with_ref(prop, type, data, length) ==
    WithRef(Insertion(AtEnd, prop, type, data, length))
-----------------------------------------------------------------------------
(* Queues and stacks: collections of a class.                              *)

QUEUE == "COL_CLASS_QUEUE"
STACK == "COL_CLASS_STACK"

Classed(name, class) == [list |-> <<Header(name)>>, last |-> HEADER, count |-> 1,
                         class |-> class, refs |-> 1]
col_create_queue == Classed(<<113>>, QUEUE)
col_create_stack == Classed(<<115>>, STACK)

\* The collection has to be a queue, or a stack.
OfClass(class, in) == [in EXCEPT !.class = class]

col_enqueue_str_property(prop, text, length) ==
    OfClass(QUEUE, col_add_str_property(prop, text, length))
col_enqueue_binary_property(prop, data, length) ==
    OfClass(QUEUE, col_add_binary_property(prop, data, length))
col_enqueue_int_property(prop, n) == OfClass(QUEUE, col_add_int_property(prop, n))
col_enqueue_unsigned_property(prop, n) == OfClass(QUEUE, col_add_unsigned_property(prop, n))
col_enqueue_long_property(prop, n) == OfClass(QUEUE, col_add_long_property(prop, n))
col_enqueue_ulong_property(prop, n) == OfClass(QUEUE, col_add_ulong_property(prop, n))
col_enqueue_double_property(prop, n) == OfClass(QUEUE, col_add_double_property(prop, n))
col_enqueue_bool_property(prop, n) == OfClass(QUEUE, col_add_bool_property(prop, n))
col_enqueue_any_property(prop, type, data, length) ==
    OfClass(QUEUE, col_add_any_property(prop, type, data, length))

\* col_enqueue_item and col_push_item insert an item as it is.
PutItem(c, class, item) ==
    IF col_is_of_class(c, class)
    THEN col_insert_item_into_current(c, item, "END", NULL, 0, "NOCHECK")
    ELSE Result("EINVAL", c, {})
col_enqueue_item(c, item) == PutItem(c, QUEUE, item)
col_push_item(c, item) == PutItem(c, STACK, item)

col_push_str_property(prop, text, length) ==
    OfClass(STACK, col_add_str_property(prop, text, length))
col_push_binary_property(prop, data, length) ==
    OfClass(STACK, col_add_binary_property(prop, data, length))
col_push_int_property(prop, n) == OfClass(STACK, col_add_int_property(prop, n))
col_push_unsigned_property(prop, n) == OfClass(STACK, col_add_unsigned_property(prop, n))
col_push_long_property(prop, n) == OfClass(STACK, col_add_long_property(prop, n))
col_push_ulong_property(prop, n) == OfClass(STACK, col_add_ulong_property(prop, n))
col_push_double_property(prop, n) == OfClass(STACK, col_add_double_property(prop, n))
col_push_bool_property(prop, n) == OfClass(STACK, col_add_bool_property(prop, n))
col_push_any_property(prop, type, data, length) ==
    OfClass(STACK, col_add_any_property(prop, type, data, length))

\* What is taken out: its position, 0 for ENOENT or another class.
col_dequeue_item(c) ==
    IF col_is_of_class(c, QUEUE) THEN ExtractPosition(c, "FRONT", NULL, 0, ANY) ELSE 0

col_pop_item(c) ==
    IF col_is_of_class(c, STACK) THEN ExtractPosition(c, "END", NULL, 0, ANY) ELSE 0
-----------------------------------------------------------------------------
(* Changing an item that is in the list.                                   *)

\* Mutant: the length is only set with the type.
Stored_stale(item, type, data, length) ==
    LET kept == IF item.type = type THEN item.length ELSE length
    IN  [item EXCEPT !.type = type, !.length = kept,
                     !.data = Terminated(type, Taken(type, data, kept))]

\* The storage is replaced, and the length set, for another type and for the
\* types of any length; else the new bytes take the place of the old ones.
Stored(item, type, data, length) ==
    LET kept == IF item.type = type /\ type \notin Texts THEN item.length ELSE length
    IN  [item EXCEPT !.type = type, !.length = kept,
                     !.data = Terminated(type, Taken(type, data, kept))]

col_update_current_item(c, i, type, data, length) ==
    [c EXCEPT !.list[i] = Stored(@, type, data, length)]

\* A call for one type, as the arguments of the call that does it.
Change(prop, type, data, length) ==
    [prop |-> prop, type |-> type, data |-> data, length |-> length]

\* COL_TRAVERSE_ONELEVEL: the first item with the name and the type, the header
\* being none.
col_update_property(c, in) ==
    LET found == {i \in SameName(c.list, in.prop) : i > 1 /\ c.list[i].type = in.type}
    IN  IF found = {} THEN Result("ENOENT", c, {})
        ELSE Result("EOK", col_update_current_item(c, Min(found), in.type, in.data, in.length), {})

col_update_str_property(prop, text, length) ==
    Change(prop, "STRING", Zero(text), StrLength(text, length))
col_update_binary_property(prop, data, length) == Change(prop, "BINARY", data, length)
col_update_int_property(prop, n) == Change(prop, "INTEGER", <<n>>, SizeOf.INTEGER)
col_update_unsigned_property(prop, n) == Change(prop, "UNSIGNED", <<n>>, SizeOf.UNSIGNED)
col_update_long_property(prop, n) == Change(prop, "LONG", <<n>>, SizeOf.LONG)
col_update_ulong_property(prop, n) == Change(prop, "ULONG", <<n>>, SizeOf.ULONG)
col_update_double_property(prop, n) == Change(prop, "DOUBLE", <<n>>, SizeOf.DOUBLE)
col_update_bool_property(prop, n) == Change(prop, "BOOL", <<n>>, SizeOf.BOOL)

\* A name of NULL leaves the name, a length of 0 the data; the name is changed
\* before the data are.
col_modify_item(c, i, in) ==
    LET item == c.list[i]
        renamed == IF in.prop = NULL THEN item ELSE [item EXCEPT !.prop = in.prop]
    IN  IF \/ item.type \in {COLLECTION, REF} /\ in.length # 0
           \/ in.prop # NULL /\ Invalid(in.prop)
        THEN Result("EINVAL", c, {})
        ELSE Result("EOK", [c EXCEPT !.list[i] =
                               IF in.length = 0 THEN renamed
                               ELSE Stored(renamed, in.type, in.data, in.length)], {})

col_modify_item_property(prop) == Change(prop, ANY, <<>>, 0)
col_modify_str_item(prop, text, length) ==
    Change(prop, "STRING", Zero(text), StrLength(text, length))
col_modify_binary_item(prop, data, length) == Change(prop, "BINARY", data, length)
col_modify_bool_item(prop, n) == Change(prop, "BOOL", <<n>>, SizeOf.BOOL)
col_modify_int_item(prop, n) == Change(prop, "INTEGER", <<n>>, SizeOf.INTEGER)
col_modify_long_item(prop, n) == Change(prop, "LONG", <<n>>, SizeOf.LONG)
col_modify_ulong_item(prop, n) == Change(prop, "ULONG", <<n>>, SizeOf.ULONG)
col_modify_unsigned_item(prop, n) == Change(prop, "UNSIGNED", <<n>>, SizeOf.UNSIGNED)
col_modify_double_item(prop, n) == Change(prop, "DOUBLE", <<n>>, SizeOf.DOUBLE)
=============================================================================
