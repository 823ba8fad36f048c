--------------------------- MODULE CollectionUse ---------------------------
(***************************************************************************)
(* A caller that works with one collection, queue or stack: it puts values *)
(* in through the calls for their types, changes and takes out items,      *)
(* embeds ready-made collections, sorts, searches and deletes by path, and *)
(* walks the whole with an iterator.  While an iterator is bound the       *)
(* collection is not changed.                                              *)
(***************************************************************************)
EXTENDS CollectionWalk

CONSTANTS
    Classes,     \* the collections a caller may start with, by their class
    Inputs,      \* Inputs[class]: what is put into one
    Changes,     \* Changes[class]: what items of one are changed to
    Names,       \* new names for items
    Subs,        \* Subs[s]: a collection that can be embedded
    Embeds,      \* Embeds[class]: those that are embedded into one
    Compares,    \* Compares[class]: sets of comparison flags
    Sorts,       \* sets of sort flags
    Walks,       \* Walks[class]: sets of iterator flags
    Searches,    \* Searches[class]: paths to search for, sequences of names
    Given,       \* names a collection may be copied as
    Ids,         \* addresses of items
    MaxItems     \* bound: MaxItems[class], items in the collection

VARIABLES
    cols,    \* cols[TOP] and the collections that can be embedded
    known,   \* what the caller has put in: [prop, type, value] (not in the program)
    ref,     \* the item a call handed out, or NULL
    taken,   \* the item that was taken out last, and what it should hold; NULL
    iter,    \* the iterator, or NULL
    told,    \* what the last call of col_iterate_collection returned
    due,     \* what it should have returned
    owed,    \* what the round has still to visit (not in the program)
    sorted,  \* the last sort: its flags, and the collections before it; NULL
    fault    \* "none", or what the program did wrong to its memory

vars == <<cols, known, ref, taken, iter, told, due, owed, sorted, fault>>

TOP == "top"
c == cols[TOP]
Free == Ids \ {it.id : it \in Range(c.list)}

ASSUME UseAssumption ==
    /\ \A class \in Classes : \A in \in Inputs[class] :
          in.type \in Types /\ (in.type \in Texts => in.length <= Len(in.data) + 1)
    /\ TOP \notin DOMAIN Subs

\* A collection is made with col_create_collection, col_create_queue or
\* col_create_stack; the class says which.
Created(class) ==
    CASE class = QUEUE -> col_create_queue
      [] class = STACK -> col_create_stack
      [] OTHER -> Classed(<<99>>, class)

Init ==
    /\ \E class \in Classes :
          cols = [n \in {TOP} \cup DOMAIN Subs |-> IF n = TOP THEN Created(class) ELSE Subs[n]]
    /\ known = <<>> /\ owed = <<>>
    /\ ref = NULL /\ taken = NULL /\ iter = NULL /\ told = NULL /\ due = NULL
    /\ sorted = NULL
    /\ fault = "none"
-----------------------------------------------------------------------------
(* What the caller knows of an item.                                       *)

\* The string a reader finds: up to the first 0.
CString(data) == SubSeq(data, 1, Min({i \in DOMAIN data : data[i] = 0}) - 1)

\* An item as the getters show it: name, type, and the data of its length.
Reading(item) ==
    [prop |-> item.prop, type |-> item.type,
     value |-> CASE item.type = "STRING" -> CString(SubSeq(item.data, 1, item.length))
                 [] item.type = "BINARY" -> SubSeq(item.data, 1, item.length)
                 [] OTHER -> item.data]

Contents == [i \in 1 .. Len(c.list) - 1 |-> Reading(c.list[i + 1])]

\* What a caller means by an input: a string is cut to one less than a length
\* that is given, as that counts the 0 at its end.
Meant(in) ==
    CASE in.type = "STRING" ->
            SubSeq(in.data, 1, IF in.length = 0 THEN Len(in.data) ELSE in.length - 1)
      [] in.type = "BINARY" -> SubSeq(in.data, 1, in.length)
      [] OTHER -> in.data
Entry(prop, in) == [prop |-> prop, type |-> in.type, value |-> Meant(in)]
-----------------------------------------------------------------------------
(* The calls, one for each type.                                           *)

\* Into a queue or a stack at its end; into another collection anywhere.
PutInto(in) ==
    LET n == in.data[1]
    IN  CASE c.class = QUEUE ->
              (CASE in.type = "STRING" -> col_enqueue_str_property(in.prop, in.data, in.length)
                 [] in.type = "BINARY" -> col_enqueue_binary_property(in.prop, in.data, in.length)
                 [] in.type = "INTEGER" -> col_enqueue_int_property(in.prop, n)
                 [] in.type = "UNSIGNED" -> col_enqueue_unsigned_property(in.prop, n)
                 [] in.type = "LONG" -> col_enqueue_long_property(in.prop, n)
                 [] in.type = "ULONG" -> col_enqueue_ulong_property(in.prop, n)
                 [] in.type = "DOUBLE" -> col_enqueue_double_property(in.prop, n)
                 [] in.type = "BOOL" -> col_enqueue_bool_property(in.prop, n))
          [] c.class = STACK ->
              (CASE in.type = "STRING" -> col_push_str_property(in.prop, in.data, in.length)
                 [] in.type = "BINARY" -> col_push_binary_property(in.prop, in.data, in.length)
                 [] in.type = "INTEGER" -> col_push_int_property(in.prop, n)
                 [] in.type = "UNSIGNED" -> col_push_unsigned_property(in.prop, n)
                 [] in.type = "LONG" -> col_push_long_property(in.prop, n)
                 [] in.type = "ULONG" -> col_push_ulong_property(in.prop, n)
                 [] in.type = "DOUBLE" -> col_push_double_property(in.prop, n)
                 [] in.type = "BOOL" -> col_push_bool_property(in.prop, n))
          [] OTHER ->
              (CASE in.type = "STRING" -> col_add_str_property(in.prop, in.data, in.length)
                 [] in.type = "BINARY" -> col_add_binary_property(in.prop, in.data, in.length)
                 [] in.type = "INTEGER" -> col_add_int_property(in.prop, n)
                 [] in.type = "UNSIGNED" -> col_add_unsigned_property(in.prop, n)
                 [] in.type = "LONG" -> col_add_long_property(in.prop, n)
                 [] in.type = "ULONG" -> col_add_ulong_property(in.prop, n)
                 [] in.type = "DOUBLE" -> col_add_double_property(in.prop, n)
                 [] in.type = "BOOL" -> col_add_bool_property(in.prop, n))

\* The calls that hand out the new item.
HeldInto(in) ==
    LET n == in.data[1]
    IN  CASE in.type = "STRING" -> col_add_str_property_with_ref(in.prop, in.data, in.length)
          [] in.type = "BINARY" -> col_add_binary_property_with_ref(in.prop, in.data, in.length)
          [] in.type = "INTEGER" -> col_add_int_property_with_ref(in.prop, n)
          [] in.type = "UNSIGNED" -> col_add_unsigned_property_with_ref(in.prop, n)
          [] in.type = "LONG" -> col_add_long_property_with_ref(in.prop, n)
          [] in.type = "ULONG" -> col_add_ulong_property_with_ref(in.prop, n)
          [] in.type = "DOUBLE" -> col_add_double_property_with_ref(in.prop, n)
          [] in.type = "BOOL" -> col_add_bool_property_with_ref(in.prop, n)

\* The calls that say where the new item goes: here, before all others.
FrontInto(in) ==
    LET n == in.data[1]
        p == Position("FRONT", NULL, 0, "NOCHECK")
    IN  CASE in.type = "STRING" -> col_insert_str_property(p, in.prop, in.data, in.length)
          [] in.type = "BINARY" -> col_insert_binary_property(p, in.prop, in.data, in.length)
          [] in.type = "INTEGER" -> col_insert_int_property(p, in.prop, n)
          [] in.type = "UNSIGNED" -> col_insert_unsigned_property(p, in.prop, n)
          [] in.type = "LONG" -> col_insert_long_property(p, in.prop, n)
          [] in.type = "ULONG" -> col_insert_ulong_property(p, in.prop, n)
          [] in.type = "DOUBLE" -> col_insert_double_property(p, in.prop, n)
          [] in.type = "BOOL" -> col_insert_bool_property(p, in.prop, n)

\* The calls that are given the type, with the bytes the other calls give.
AnyInto(in) ==
    LET data == IF in.type = "STRING" THEN Zero(in.data) ELSE in.data
        length == IF in.type \in Texts THEN in.length ELSE SizeOf[in.type]
    IN  CASE c.class = QUEUE -> col_enqueue_any_property(in.prop, in.type, data, length)
          [] c.class = STACK -> col_push_any_property(in.prop, in.type, data, length)
          [] OTHER -> col_add_any_property(in.prop, in.type, data, length)

Updated(in) ==
    LET n == in.data[1]
    IN  CASE in.type = "STRING" -> col_update_str_property(in.prop, in.data, in.length)
          [] in.type = "BINARY" -> col_update_binary_property(in.prop, in.data, in.length)
          [] in.type = "INTEGER" -> col_update_int_property(in.prop, n)
          [] in.type = "UNSIGNED" -> col_update_unsigned_property(in.prop, n)
          [] in.type = "LONG" -> col_update_long_property(in.prop, n)
          [] in.type = "ULONG" -> col_update_ulong_property(in.prop, n)
          [] in.type = "DOUBLE" -> col_update_double_property(in.prop, n)
          [] in.type = "BOOL" -> col_update_bool_property(in.prop, n)

Modified(prop, in) ==
    LET n == in.data[1]
    IN  CASE in.type = "STRING" -> col_modify_str_item(prop, in.data, in.length)
          [] in.type = "BINARY" -> col_modify_binary_item(prop, in.data, in.length)
          [] in.type = "INTEGER" -> col_modify_int_item(prop, n)
          [] in.type = "UNSIGNED" -> col_modify_unsigned_item(prop, n)
          [] in.type = "LONG" -> col_modify_long_item(prop, n)
          [] in.type = "ULONG" -> col_modify_ulong_item(prop, n)
          [] in.type = "DOUBLE" -> col_modify_double_item(prop, n)
          [] in.type = "BOOL" -> col_modify_bool_item(prop, n)
-----------------------------------------------------------------------------
(* Putting in, changing and taking out.  Between the calls of an iterator  *)
(* nothing of this is done.                                                *)

Quiet == iter = NULL /\ fault = "none"
walking == <<iter, told, due, owed>>

\* The collection after a call, and what the caller knows if it succeeded.
Done(r, after) ==
    /\ cols' = [cols EXCEPT ![TOP] = r.col]
    /\ known' = IF r.error = "EOK" THEN after ELSE known
    /\ sorted' = NULL /\ taken' = NULL
    /\ UNCHANGED <<walking, fault>>

HasRoom == Len(known) < MaxItems[c.class]

\* *ret_ref is the new item, or is left alone.
Insert(call, id, after) ==
    \E r \in {col_insert_property_with_ref(c, call, id)} :
        /\ Done(r, after)
        /\ ref' = IF call.held /\ r.error = "EOK" THEN id ELSE ref

Put(in, id) ==
    /\ Quiet /\ HasRoom
    /\ \E call \in {PutInto(in), AnyInto(in)} :
          Insert(call, id, Append(known, Entry(in.prop, in)))

\* An item that the caller is going to change.
PutHeld(in, id) ==
    /\ Quiet /\ HasRoom /\ c.class \notin {QUEUE, STACK} /\ Changes[c.class] # {}
    /\ \E call \in {HeldInto(in)} : Insert(call, id, Append(known, Entry(in.prop, in)))

PutFirst(in, id) ==
    /\ Quiet /\ HasRoom /\ c.class \notin {QUEUE, STACK}
    /\ \E call \in {FrontInto(in)} : Insert(call, id, <<Entry(in.prop, in)>> \o known)

\* col_add_collection_to_collection, COL_ADD_MODE_EMBED, at the end.
Embed(s, id) ==
    /\ Quiet /\ HasRoom /\ \A it \in Range(Tail(c.list)) : it.sub # s
    /\ LET item == NewItem(id, Head(Subs[s].list).prop, REF, 8, <<>>, s)
       IN  \E r \in {col_insert_item_into_current(c, item, "END", NULL, 0, "NOCHECK")} :
              Done(r, Append(known, Reading(item)))
    /\ UNCHANGED ref

Update(in) ==
    /\ Quiet /\ in.length >= 0
    /\ LET found == {i \in DOMAIN known : known[i].prop = in.prop /\ known[i].type = in.type}
       IN  \E r \in {col_update_property(c, Updated(in))} :
              Done(r, [known EXCEPT ![Min(found)] = Entry(in.prop, in)])
    /\ UNCHANGED ref

\* The item a call handed out is given a value, a name or both.  Data of length
\* 0 mean that there is no new value.
Modify(prop, in) ==
    /\ Quiet /\ ref # NULL /\ in.length >= 0
    /\ LET i == CHOOSE j \in DOMAIN c.list : c.list[j].id = ref
           old == known[i - 1]
           name == IF prop = NULL THEN old.prop ELSE prop
           nodata == in.type = "BINARY" /\ in.length = 0
       IN  \/ \E r \in {col_modify_item(c, i, Modified(prop, in))} :
                 Done(r, [known EXCEPT ![i - 1] = IF nodata THEN [old EXCEPT !.prop = name]
                                                            ELSE Entry(name, in)])
           \/ /\ prop # NULL
              /\ \E r \in {col_modify_item(c, i, col_modify_item_property(prop))} :
                    Done(r, [known EXCEPT ![i - 1] = [old EXCEPT !.prop = name]])
    /\ UNCHANGED ref

\* A queue gives out what was put in first, a stack what was put in last.
Take ==
    /\ Quiet /\ c.class \in {QUEUE, STACK}
    /\ LET p == IF c.class = QUEUE THEN col_dequeue_item(c) ELSE col_pop_item(c)
       IN  /\ p # 0
           /\ cols' = [cols EXCEPT ![TOP] = TakeOut(c, p)]
           /\ taken' = [item |-> c.list[p],
                        due |-> IF c.class = QUEUE THEN Head(known) ELSE Last(known)]
    /\ known' = IF c.class = QUEUE THEN Tail(known) ELSE Front(known)
    /\ sorted' = NULL
    /\ UNCHANGED <<ref, walking, fault>>

\* The parts of a path or a dotted name, put together.
Joined(parts, sep) ==
    FoldLeft(LAMBDA s, part : IF s = <<>> THEN part ELSE Append(s, sep) \o part, <<>>, parts)

\* The first number with that path goes, from whichever collection it is in.
Delete(parts) ==
    /\ Quiet
    /\ \E r \in {col_delete_property(cols, TOP, Joined(parts, BANG), {"INTEGER"}, {})} :
          /\ r.error = "EOK" /\ cols' = r.cols
          /\ LET way(i) == <<Head(c.list).prop, known[i].prop>>
                 meant == {i \in DOMAIN known :
                             known[i].type = "INTEGER" /\ IsSuffix(parts, way(i))}
             IN  known' = IF r.cols[TOP] = c THEN known ELSE RemoveAt(known, Min(meant))
    /\ sorted' = NULL /\ taken' = NULL
    /\ UNCHANGED <<ref, walking, fault>>

\* What was taken out is put in again.
PutBack ==
    /\ Quiet /\ taken # NULL
    /\ \E r \in {IF c.class = QUEUE THEN col_enqueue_item(c, taken.item)
                                    ELSE col_push_item(c, taken.item)} :
          Done(r, Append(known, taken.due))
    /\ UNCHANGED ref
-----------------------------------------------------------------------------
\* Bound: a collection is not sorted twice without a change in between.
Sort(in, sort) ==
    /\ Quiet /\ sorted = NULL
    /\ IF SortsEmpty(cols, TOP, sort)
       THEN fault' = "array of no elements" /\ UNCHANGED <<cols, known, sorted>>
       ELSE /\ cols' = col_sort_collection(cols, TOP, in, sort)
            /\ known' = Contents'
            /\ sorted' = [in |-> in, sort |-> sort, before |-> cols]
            /\ UNCHANGED fault
    /\ taken' = NULL
    /\ UNCHANGED <<ref, walking>>

\* Whether the items can be put in order by these flags: a single criterion that
\* tells which of two items is greater.
Orders(items, in) ==
    \/ in \in {{"PROP_EQU"}, {"PROP_LEN"}, {"DATA_LEN"}}
    \/ /\ in = {"DATA"}
       /\ \A a, b \in items : /\ a.type = b.type /\ a.length = b.length
                              /\ a.type \in {"STRING"} \cup DOMAIN SizeOf

\* One string goes before the other in the dictionary, or is the same.
InDictionary(s, t) ==
    \/ IsPrefix(s, t)
    \/ \E i \in DOMAIN s \cap DOMAIN t : SubSeq(s, 1, i - 1) = SubSeq(t, 1, i - 1) /\ s[i] < t[i]

NotGreater(a, b, in) ==
    CASE in = {"PROP_EQU"} -> InDictionary(a.prop, b.prop)
      [] in = {"PROP_LEN"} -> Len(a.prop) <= Len(b.prop)
      [] in = {"DATA_LEN"} -> a.length <= b.length
      [] in = {"DATA"} -> InDictionary(a.data, b.data)
-----------------------------------------------------------------------------
(* The iterator, and what a round has to visit.                            *)

\* A visit is to the item at a pointer, or behind the last one, at a depth of
\* the stack; what it shows depends on the flags.
Shows(p, at, flags) ==
    LET item == Deref(cols, p)
        this == [item |-> p, level |-> at - 1]
    IN  CASE item.type = REF /\ "IGNORE" \in flags -> NULL
          [] item.type = REF /\ "IGNORE" \notin flags ->
                IF "ONELEVEL" \in flags THEN this
                ELSE IF "ONLYSUB" \in flags THEN [item |-> Start(item.sub), level |-> at]
                ELSE IF "FLAT" \in flags THEN NULL ELSE this
          [] item.type # REF ->
                IF item.type = COLLECTION /\ "FLAT" \in flags /\ at > 1 THEN NULL ELSE this

EndShows(at, flags) ==
    IF "END" \in flags /\ ("FLAT" \in flags => at = 1)
    THEN [item |-> END_ITEM, level |-> at - 1] ELSE NULL

Visit(p, at, shows) == [at |-> at, ptr |-> p, shows |-> shows, opens |-> FALSE]

\* The collection from a position on, with what its references lead to.
RECURSIVE Visits(_, _, _, _)
Visits(name, pos, at, flags) ==
    IF pos > Len(cols[name].list) THEN <<Visit(NULL, at, EndShows(at, flags))>>
    ELSE LET p == Pointer(name, pos)
             item == Deref(cols, p)
             enters == item.type = REF /\ {"IGNORE", "ONELEVEL"} \cap flags = {}
         IN  <<Visit(p, at, Shows(p, at, flags))>>
             \o (IF enters THEN Visits(item.sub, IF "SHOWSUB" \in flags THEN 1 ELSE 2, at + 1, flags)
                           ELSE <<>>)
             \o Visits(name, pos + 1, at, flags)

\* A round begins with the visit of the pin, which opens it, and ends before the
\* next one.
Round(it, opened) ==
    LET all == Visits(TOP, 1, 1, it.flags)
        at == it.pin_level + 1
        k == Min({i \in DOMAIN all : all[i].ptr = it.pin /\ all[i].at = at})
        turned == SubSeq(all, k, Len(all)) \o SubSeq(all, 1, k - 1)
    IN  Append([turned EXCEPT ![1].opens = ~opened],
               Visit(it.pin, at, [item |-> DONE, level |-> it.pin_level]))

\* Going up to a depth leaves out the visits below it; the start of the top
\* collection is never left out.  If the pin is, the round that is open goes on
\* to the next visit of the pin, and one that is not is opened by that.
Left(s, depth) ==
    LET below == {i \in DOMAIN s : s[i].at > depth /\ s[i].ptr # Start(TOP)}
        k == Max({j \in 0 .. Len(s) : 1 .. j \subseteq below})
    IN  [dropped |-> SubSeq(s, 1, k), rest |-> SubSeq(s, k + 1, Len(s))]

WithoutBelow(it, s, depth) ==
    LET left == Left(s, depth)
    IN  CASE left.rest = <<>> -> Left(Round(it, TRUE), depth).rest
          [] left.rest # <<>> ->
                IF \E i \in DOMAIN left.dropped : left.dropped[i].opens
                THEN Front(left.rest) \o Round(it, FALSE) ELSE left.rest

Bind(mode_flags) ==
    /\ Quiet
    /\ iter' = col_bind_iterator(TOP, mode_flags)
    /\ owed' = Round(iter', FALSE)
    /\ cols' = [cols EXCEPT ![TOP].refs = @ + 1]
    /\ UNCHANGED <<known, ref, taken, told, due, sorted, fault>>

keeping == <<known, ref, taken, sorted, fault>>

\* One turn of col_iterate_collection; the call returns with an item or NULL.
Iterate ==
    /\ iter # NULL
    /\ iter' = Turn(cols, iter)
    /\ IF iter'.item = GOES_ON THEN told' = GOES_ON /\ UNCHANGED <<due, owed>>
       ELSE LET k == Min({i \in DOMAIN owed : owed[i].shows # NULL})
            IN  /\ told' = [item |-> iter'.item, level |-> col_get_item_depth(iter')]
                /\ due' = owed[k].shows
                /\ owed' = IF iter'.item = DONE THEN Round(iter', FALSE)
                           ELSE SubSeq(owed, k + 1, Len(owed))
    /\ UNCHANGED <<cols, keeping>>

Between == iter # NULL /\ told # GOES_ON

Up(level) ==
    /\ Between
    /\ iter' = col_iterate_up(iter, level)
    /\ owed' = WithoutBelow(iter, owed, Max({0, col_get_iterator_depth(iter) + 1 - level}))
    /\ UNCHANGED <<cols, told, due, keeping>>

Pin ==
    /\ Between
    /\ iter' = col_pin_iterator(iter)
    /\ owed' = Round(iter', FALSE)
    /\ UNCHANGED <<cols, told, due, keeping>>

Rewind ==
    /\ Between
    /\ iter' = col_rewind_iterator(iter)
    /\ owed' = Round(iter', FALSE)
    /\ UNCHANGED <<cols, told, due, keeping>>

\* col_unbind_iterator gives back its reference to the collection.
Unbind ==
    /\ Between
    /\ iter' = NULL /\ told' = NULL /\ due' = NULL /\ owed' = <<>>
    /\ cols' = [cols EXCEPT ![TOP].refs = @ - 1]
    /\ UNCHANGED keeping
-----------------------------------------------------------------------------
Fresh == CHOOSE id \in Free : TRUE

Next ==
    \/ \E in \in Inputs[c.class] :
          Free # {} /\ (Put(in, Fresh) \/ PutHeld(in, Fresh) \/ PutFirst(in, Fresh))
    \/ \E in \in Changes[c.class] :
          \/ Update(in)
          \/ \E prop \in Names \cup {NULL} : Modify(prop, in)
    \/ \E s \in Embeds[c.class] : Free # {} /\ Embed(s, Fresh)
    \/ Take \/ PutBack
    \/ \E parts \in Searches[c.class] : Delete(parts)
    \/ \E in \in Compares[c.class], sort \in Sorts : Sort(in, sort)
    \/ \E mode_flags \in Walks[c.class] : Bind(mode_flags)
    \/ Iterate \/ Pin \/ Rewind \/ Unbind
    \/ \E level \in 1 .. 2 : Up(level)

Spec == Init /\ [][Next]_vars
-----------------------------------------------------------------------------
\* What a caller reads in the collection, item after item, is what it has put in
\* and not taken out, with the last value and name it gave to each: the calls
\* for the types cut, terminate and replace data in place.  What a queue or a
\* stack gave out is what was due.
\* Also where an item was deleted by its path, the header of the collection it
\* was in knows the number of items and the last one.
ContentMeans ==
    fault = "none" => /\ Contents = known
                      /\ taken # NULL => Reading(taken.item) = taken.due
                      /\ \A n \in DOMAIN cols : /\ cols[n].count = Len(cols[n].list)
                                                /\ cols[n].last = Last(cols[n].list).id

\* Sorting loses and invents no item, keeps the header's pointer to the last item
\* right, leaves alone the collections it is told to leave alone, and puts the
\* items in order if the flags give one (col_sort_collection swaps two items
\* unless the second is found greater).
SortMeans ==
    sorted # NULL =>
        \A n \in DOMAIN cols :
            LET l == Tail(cols[n].list)
                before == sorted.before[n]
            IN  IF n \notin Sorted(sorted.before, TOP, sorted.sort) THEN cols[n] = before
                ELSE /\ Len(l) = Len(before.list) - 1
                     /\ Range(l) = Range(Tail(before.list))
                     /\ cols[n].last = Last(l).id
                     /\ Orders(Range(l), sorted.in) =>
                           \A i, j \in DOMAIN l :
                              i < j => IF "DESC" \in sorted.sort THEN NotGreater(l[j], l[i], sorted.in)
                                                                ELSE NotGreater(l[i], l[j], sorted.in)

\* An iterator shows what the flags ask for, each item once and at its level, in
\* the order of the tree, from the pin around to the pin, and then nothing: also
\* when the pin was set in the middle of a level that was just finished, when it
\* was rewound, and when levels were left early.
IterationMeans == told \notin {NULL, GOES_ON} => told = due

\* A walk with a handler (col_traverse_collection) shows what an iterator would
\* that shows references and headers both.
Shown(flags) ==
    LET visits == SelectSeq(Visits(TOP, 1, 1, flags \cup {"SHOWSUB"}), LAMBDA v : v.shows # NULL)
    IN  [i \in DOMAIN visits |-> visits[i].shows.item]
TraversalMeans(flags) ==
    LET calls == col_traverse_collection(cols, TOP, flags)
    IN  [i \in DOMAIN calls |-> IF IsEnd(calls[i]) THEN END_ITEM ELSE calls[i]] = Shown(flags)

\* The names on the way from the top to an item.
RECURSIVE Way(_)
Way(n) ==
    IF n = TOP THEN <<Head(c.list).prop>>
    ELSE LET pointers == UNION {{Pointer(m, i) : i \in DOMAIN cols[m].list} : m \in DOMAIN cols}
             p == CHOOSE q \in pointers : Deref(cols, q).type = REF /\ Deref(cols, q).sub = n
         IN  Append(Way(p.col), Deref(cols, p).prop)
FullPath(p, flags) == Append(Way(IF "FLAT" \in flags THEN TOP ELSE p.col), Deref(cols, p).prop)

\* A search (col_get_item) finds the first item in the order of the walk that has
\* the type and whose path from the top ends with the parts searched for, if
\* there is one.  A walk that is flat knows no path but that of the top.  (What
\* is searched for is not the whole path of an item with more before it: then
\* the comparison begins at the end of the path again.)
FindMeans(parts, types, flags) ==
    LET items == SelectSeq(Shown(flags), LAMBDA p : Deref(cols, p).type \in types)
        wraps(p) == LET full == FullPath(p, flags)
                    IN  Len(parts) > Len(full) /\ IsSuffix(full, parts)
        hits == SelectSeq(items, LAMBDA p : IsSuffix(parts, FullPath(p, flags)))
    IN  (\A i \in DOMAIN items : ~wraps(items[i])) =>
            col_get_item(cols, TOP, Joined(parts, BANG), types, flags)
              = IF hits = <<>> THEN NULL ELSE Head(hits)

\* A flat copy (COL_COPY_FLAT, COL_COPY_FLATDOT) has all items of the tree in
\* their order, by their names or by their ways below the top, with dots.
FlatMeans(as_property) ==
    LET items == SelectSeq(Shown({}), LAMBDA p : Deref(cols, p).type \notin {REF, COLLECTION})
        prefix == IF as_property = NULL THEN <<>> ELSE <<as_property>>
        dotted(p) == Joined(prefix \o Tail(FullPath(p, {})), DOT)
    IN  /\ FlatDot(cols, TOP, as_property) =
              [i \in DOMAIN items |-> [prop |-> dotted(items[i]), from |-> items[i]]]
        /\ Flat(cols, TOP) =
              [i \in DOMAIN items |-> [prop |-> Deref(cols, items[i]).prop, from |-> items[i]]]

Reaches == {{}, {"FLAT"}, {"ONELEVEL"}, {"IGNORE"}}
WalkMeans ==
    iter = NULL /\ Searches[c.class] # {} =>
        /\ \A flags \in Reaches, ends \in {{}, {"END"}} : TraversalMeans(flags \cup ends)
        /\ \A parts \in Searches[c.class], types \in {{REF}, {"INTEGER", REF}}, flags \in Reaches :
              FindMeans(parts, types, flags)
        /\ \A as_property \in Given \cup {NULL} : FlatMeans(as_property)

\* Whatever visits the items of a tree visits the right ones: the iterator, the
\* walk with a handler, the search by a path and the flat copy.
VisitsMean == IterationMeans /\ WalkMeans
=============================================================================
