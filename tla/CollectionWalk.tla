--------------------------- MODULE CollectionWalk ---------------------------
(***************************************************************************)
(* Walking a tree of collections with a handler, and what is built on it:  *)
(* the search for an item by its path, and flat copies                     *)
(* (collection/collection.c).                                              *)
(*                                                                         *)
(* A walk is the sequence of the calls of the handler, each with the item, *)
(* a pointer, or with the end of a collection; a handler that stops sees a *)
(* part of it.  Names are sequences of character codes, without regard to  *)
(* case, and equal names stand for equal hashes.                           *)
(***************************************************************************)
EXTENDS CollectionIter

BANG == 33
EndOf(name) == Pointer(name, 0)
IsEnd(call) == call.pos = 0

\* depth is 1 in the collection the walk began with.
RECURSIVE col_walk_items(_, _, _, _)
col_walk_items(cols, name, depth, flags) ==
    LET Calls(p) ==
            LET item == Deref(cols, p)
            IN  CASE item.type = REF ->
                      IF "IGNORE" \in flags THEN <<>>
                      ELSE (IF "FLAT" \in flags THEN <<>> ELSE <<p>>)
                           \o (IF "ONELEVEL" \in flags THEN <<>>
                               ELSE col_walk_items(cols, item.sub, depth + 1, flags))
                  [] item.type = COLLECTION ->
                      IF "FLAT" \in flags /\ depth > 1 THEN <<>> ELSE <<p>>
                  [] OTHER -> <<p>>
        all == FoldLeft(LAMBDA s, i : s \o Calls(Pointer(name, i)), <<>>,
                        [i \in DOMAIN cols[name].list |-> i])
    IN  IF "END" \in flags /\ ("FLAT" \in flags => depth = 1) THEN Append(all, EndOf(name)) ELSE all

\* Every call goes to the handler of the caller.
col_traverse_collection(cols, top, flags) == col_walk_items(cols, top, 1, flags)
-----------------------------------------------------------------------------
(* Paths.  A stack has the path of each collection the walk is in; given   *)
(* is the name of the reference that the next one will be known by.        *)

Track(given) == [paths |-> <<>>, given |-> given, found |-> NULL]

col_create_path_data(tr, prefix, property, sep) ==
    LET start == IF prefix = <<>> THEN <<>> ELSE Append(prefix, sep)
    IN  [tr EXCEPT !.paths = Append(@, start \o property)]

col_delete_path_data(tr) == [tr EXCEPT !.paths = Front(@), !.given = NULL]
Path(tr) == IF tr.paths = <<>> THEN <<>> ELSE Last(tr.paths)
Known(tr, property) == IF tr.given # NULL THEN tr.given ELSE property

\* A string with the 0 at its end; the byte in front of it is taken to be 0 too.
Char(s, i) == IF i \in DOMAIN s THEN s[i] ELSE 0

\* The comparison from the ends.  At the start of the item's name it goes on at
\* the end of the path, if there is more to find.
RECURSIVE Compare(_, _, _, _, _)
Compare(data, d, find, f, path) ==
    /\ Char(data, d) = Char(find, f)
    /\ CASE d <= 1 /\ f <= 1 -> TRUE
         [] d <= 1 /\ f > 1 ->
               Char(find, f - 1) = BANG /\ Compare(path, Len(path), find, f - 2, path)
         [] d > 1 -> (f = 1 /\ Char(data, d - 1) = BANG) \/ Compare(data, d - 1, find, f - 1, path)

LastPart(find) == SubSeq(find, Max({0} \cup {i \in DOMAIN find : find[i] = BANG}) + 1, Len(find))

\* types are those asked for; a search for nothing finds any item of them.
col_match_item(item, find, types, path) ==
    /\ item.type \in types
    /\ \/ find = <<>>
       \/ /\ LastPart(find) = item.prop
          /\ Compare(item.prop, Len(item.prop) + 1, find, Len(find) + 1, path)

\* It stops at the first match.
col_act_traverse_handler(cols, find, types, tr, call) ==
    CASE tr.found # NULL -> tr
      [] tr.found = NULL /\ IsEnd(call) -> col_delete_path_data(tr)
      [] tr.found = NULL /\ ~IsEnd(call) ->
            LET item == Deref(cols, call)
                named == IF item.type = REF THEN [tr EXCEPT !.given = item.prop] ELSE tr
            IN  IF item.type = COLLECTION
                THEN col_create_path_data(tr, Path(tr), Known(tr, item.prop), BANG)
                ELSE IF col_match_item(item, find, types, Path(tr))
                     THEN [named EXCEPT !.found = call] ELSE named

Found(error, at) == [error |-> error, at |-> at]
col_find_item_and_do(cols, top, find, types, flags) ==
    CASE types = {} /\ find = <<>> -> Found("ENOENT", NULL)
      [] find # <<>> /\ Last(find) = BANG -> Found("EINVAL", NULL)
      [] OTHER ->
            LET Handler(tr, call) == col_act_traverse_handler(cols, find, types, tr, call)
            IN  Found("EOK", FoldLeft(Handler, Track(NULL),
                                      col_walk_items(cols, top, 1, flags \cup {"END"})).found)

col_get_item(cols, top, find, types, flags) ==
    col_find_item_and_do(cols, top, find, types, flags).at

\* The item is unlinked from the collection it was found in, be it one below.
Unlinked(c, pos) ==
    [c EXCEPT !.list = RemoveAt(@, pos), !.count = @ - 1,
              !.last = IF pos = Len(c.list) THEN c.list[pos - 1].id ELSE @]
col_delete_property(cols, top, find, types, flags) ==
    LET r == col_find_item_and_do(cols, top, find, types, flags)
    IN  IF r.at = NULL THEN [error |-> IF r.error = "EOK" THEN "ENOENT" ELSE r.error, cols |-> cols]
        ELSE [error |-> "EOK", cols |-> [cols EXCEPT ![r.at.col] = Unlinked(@, r.at.pos)]]
-----------------------------------------------------------------------------
(* Flat copies: the names and sources of the items they are made of.       *)

Copied(tr, name, p) == [tr EXCEPT !.found = Append(@, [prop |-> name, from |-> p])]

\* COL_COPY_FLATDOT: the top collection has no name but the one it is given.
col_copy_traverse_handler(cols, tr, call) ==
    CASE IsEnd(call) -> col_delete_path_data(tr)
      [] ~IsEnd(call) ->
            LET item == Deref(cols, call)
                own == IF tr.paths = <<>> THEN <<>> ELSE item.prop
            IN  CASE item.type = COLLECTION ->
                      col_create_path_data(tr, Path(tr), Known(tr, own), DOT)
                  [] item.type = REF -> [tr EXCEPT !.given = item.prop]
                  [] OTHER -> Copied(tr, IF Path(tr) = <<>> THEN item.prop
                                         ELSE Append(Path(tr), DOT) \o item.prop, call)

FlatDot(cols, top, as_property) ==
    LET Handler(tr, call) == col_copy_traverse_handler(cols, tr, call)
    IN  FoldLeft(Handler, [Track(as_property) EXCEPT !.found = <<>>],
                 col_walk_items(cols, top, 1, {"END"})).found

\* COL_COPY_FLAT: items keep their names.
Flat(cols, top) ==
    LET items == SelectSeq(col_walk_items(cols, top, 1, {"FLAT"}),
                           LAMBDA p : Deref(cols, p).type # COLLECTION)
    IN  [i \in DOMAIN items |-> [prop |-> Deref(cols, items[i]).prop, from |-> items[i]]]
=============================================================================
