--------------------------- MODULE CollectionIter ---------------------------
(***************************************************************************)
(* The iterator of collection/collection_iter.c.                           *)
(*                                                                         *)
(* A pointer to an item is the name of the collection it is in and its     *)
(* position there, a pointer behind the last item is NULL.  The stack has  *)
(* one pointer for each level, so its length is stack_depth; it is always  *)
(* large enough here.  A call of col_iterate_collection is one turn of its *)
(* loop after the other, until one of them sets *item.                     *)
(***************************************************************************)
EXTENDS CollectionSort

Pointer(name, pos) == [col |-> name, pos |-> pos]
GOES_ON == Pointer("continue", 0)     \* no item yet, the loop goes on
END_ITEM == Pointer("end item", 0)    \* iterator->end_item
DONE == Pointer("no item", 0)         \* *item = NULL: the round is over

Start(name) == Pointer(name, 1)

\* current->next, other->next and *current
Next1(cols, p) == IF p.pos < Len(cols[p.col].list) THEN Pointer(p.col, p.pos + 1) ELSE NULL
Deref(cols, p) == cols[p.col].list[p.pos]

col_bind_iterator(top, mode_flags) ==
    [top |-> top, stack |-> <<Start(top)>>, flags |-> mode_flags, item_level |-> 0,
     pin |-> Start(top), pin_level |-> 0, can_break |-> FALSE, item |-> GOES_ON]

col_get_iterator_depth(it) == Len(it.stack) - 1
col_get_item_depth(it) == it.item_level

\* Mutant: a level too few is left.
col_iterate_up_short(it, level) ==
    [it EXCEPT !.stack = IF level >= Len(@) THEN <<>> ELSE SubSeq(@, 1, Len(@) - level + 1)]

col_iterate_up(it, level) ==
    [it EXCEPT !.stack = IF level >= Len(@) THEN <<>> ELSE SubSeq(@, 1, Len(@) - level)]

col_rewind_iterator(it) ==
    [it EXCEPT !.stack = <<Start(it.top)>>, !.pin = Start(it.top), !.pin_level = 0,
               !.item_level = 0, !.can_break = FALSE]

\* Levels that are finished are left before the pin is set.
Unfinished(stack) ==
    LET open == {i \in DOMAIN stack : \A j \in i + 1 .. Len(stack) : stack[j] = NULL}
        kept == {i \in open : stack[i] # NULL}
    IN  IF kept = {} THEN <<>> ELSE SubSeq(stack, 1, Max(kept))

col_pin_iterator(it) ==
    LET stack == Unfinished(it.stack)
    IN  [it EXCEPT !.stack = stack, !.can_break = FALSE,
                   !.pin = IF stack = <<>> THEN Start(it.top) ELSE Last(stack),
                   !.pin_level = IF stack = <<>> THEN 0 ELSE Len(stack) - 1]
-----------------------------------------------------------------------------
(* One turn of the loop of col_iterate_collection.                         *)

\* A stack of no levels starts over at the top.
Begun(it) ==
    LET stack == IF it.stack = <<>> THEN <<Start(it.top)>> ELSE it.stack
    IN  [it EXCEPT !.stack = stack, !.item_level = Len(stack) - 1, !.item = GOES_ON]

AtPin(it) == Len(it.stack) - 1 = it.pin_level /\ Last(it.stack) = it.pin

\* The pointer on top moves on, and the item is handed out.
Step(cols, it, item) ==
    [it EXCEPT !.stack[Len(it.stack)] = Next1(cols, Last(it.stack)), !.item = item]

\* The loop goes down: the pointer on top moves on, another is put on it.
Descend(cols, it, first, item, level) ==
    [Step(cols, it, item) EXCEPT !.stack = Append(@, first), !.item_level = level]

Reference(cols, it, current) ==
    LET other == Start(Deref(cols, current).sub)
        below == Next1(cols, other)
        level == it.item_level
    IN  CASE "IGNORE" \in it.flags -> Step(cols, it, GOES_ON)
          [] "IGNORE" \notin it.flags /\ "ONELEVEL" \in it.flags -> Step(cols, it, current)
          [] OTHER ->
                CASE "ONLYSUB" \in it.flags -> Descend(cols, it, below, other, Len(it.stack))
                  [] "ONLYSUB" \notin it.flags /\ "SHOWSUB" \in it.flags ->
                        Descend(cols, it, other, current, level)
                  [] {"ONLYSUB", "SHOWSUB"} \cap it.flags = {} /\ "FLAT" \in it.flags ->
                        Descend(cols, it, below, GOES_ON, level)
                  [] OTHER -> Descend(cols, it, below, current, level)

Simple(cols, it, current) ==
    IF /\ Deref(cols, current).type = COLLECTION
       /\ "FLAT" \in it.flags /\ Len(it.stack) > 1
    THEN Step(cols, it, GOES_ON)
    ELSE Step(cols, it, current)

\* The level is finished: the one above goes on, or the end is shown.
LevelDone(it) ==
    LET up == Front(it.stack)
    IN  [it EXCEPT !.stack = up,
                   !.item = IF "END" \in it.flags /\ ("FLAT" \in it.flags => up = <<>>)
                            THEN END_ITEM ELSE GOES_ON]

Turn(cols, start) ==
    LET it == Begun(start)
        current == Last(it.stack)
        passed == [it EXCEPT !.can_break = @ \/ AtPin(it)]
    IN  CASE AtPin(it) /\ it.can_break -> [it EXCEPT !.item = DONE, !.can_break = FALSE]
          [] ~(AtPin(it) /\ it.can_break) ->
                CASE current = NULL -> LevelDone(passed)
                  [] current # NULL ->
                        IF Deref(cols, current).type = REF THEN Reference(cols, passed, current)
                        ELSE Simple(cols, passed, current)
=============================================================================
