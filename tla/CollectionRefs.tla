--------------------------- MODULE CollectionRefs ---------------------------
(***************************************************************************)
(* Collections inside collections (collection/collection.c): the items of  *)
(* type COL_TYPE_COLLECTIONREF, which point to another collection's        *)
(* header, and the reference count in that header.                         *)
(*                                                                         *)
(* Of a collection only its reference items are kept; how items are placed *)
(* in the list is the subject of Collection.  The recursive functions, the *)
(* destruction and the deep copy, are steps of one activation each: todo   *)
(* holds the destroy calls still to be made, copying the activations of    *)
(* the copy that have not returned.  No other call starts before they end. *)
(***************************************************************************)
EXTENDS Integers, FiniteSets, SequencesExt

CONSTANTS
    Cols,       \* addresses of collection headers
    NULL,       \* no collection at this address
    MaxSubs,    \* bound: reference items in one collection
    MaxHeld,    \* bound: references the callers hold to one collection
    MaxFailures \* bound: copies that fail for want of memory

ASSUME CollectionRefsAssumption ==
    /\ MaxSubs \in Nat /\ MaxHeld \in Nat \ {0} /\ MaxFailures \in Nat
    /\ NULL \notin Cols /\ IsFiniteSet(Cols)

\* A header, and an activation of the copy.
NodeType == [refs : Nat \ {0}, subs : Seq(Cols)]
FrameType ==
    [src : Cols, at : 0..MaxSubs, dst : Cols, mode : {"NORMAL", "KEEPREF"}, into : Cols \cup {NULL}]

ASSUME NullAssumption == NULL \notin NodeType

VARIABLES
    node,      \* node[c]: [refs: reference_count, subs: targets of the
               \* reference items in list order], or NULL
    held,      \* held[c]: references to c the callers own (not in the program)
    todo,      \* collections still to be destroyed by the call under way
    copying,   \* activations of the copy, innermost last:
               \* [src, at: reference items done, dst, mode, into]
    failures   \* copies that have failed (not in the program)

vars == <<node, held, todo, copying, failures>>

Live == {c \in Cols : node[c] # NULL}
Idle == todo = <<>> /\ copying = <<>>
Subs(c) == IF node[c] = NULL THEN <<>> ELSE node[c].subs

\* The collection c and those reached from it through reference items.
Within(c) ==
    LET reached[n \in Nat] ==
            IF n = 0 THEN {c}
            ELSE LET near == reached[n - 1]
                 IN  near \cup UNION {Range(Subs(d)) : d \in near}
    IN  reached[Cardinality(Cols)]

\* The collections a caller can name: those inside the ones it holds.
Visible == UNION {Within(h) : h \in {c \in Cols : held[c] > 0}}

HasRoom(c) == Len(node[c].subs) < MaxSubs
-----------------------------------------------------------------------------
Init ==
    /\ node = [c \in Cols |-> NULL]
    /\ held = [c \in Cols |-> 0]
    /\ todo = <<>>
    /\ copying = <<>>
    /\ failures = 0

New(c) == [node EXCEPT ![c] = [refs |-> 1, subs |-> <<>>]]

col_create_collection(c) ==
    /\ Idle /\ c \notin Live
    /\ node' = New(c)
    /\ held' = [held EXCEPT ![c] = 1]
    /\ UNCHANGED <<todo, copying, failures>>

\* COL_ADD_MODE_REFERENCE: the item first, then the count.
AddReference(acceptor, c) ==
    /\ Idle /\ acceptor \in Visible /\ held[c] > 0
    /\ HasRoom(acceptor) /\ acceptor \notin Within(c)
    /\ node' = [node EXCEPT ![acceptor].subs = Append(@, c), ![c].refs = @ + 1]
    /\ UNCHANGED <<held, todo, copying, failures>>

\* Mutant: the embedded collection is counted as a reference too.
AddEmbedded_counted(acceptor, c) ==
    /\ Idle /\ acceptor \in Visible /\ held[c] > 0
    /\ HasRoom(acceptor) /\ acceptor \notin Within(c)
    /\ node' = [node EXCEPT ![acceptor].subs = Append(@, c), ![c].refs = @ + 1]
    /\ held' = [held EXCEPT ![c] = @ - 1]
    /\ UNCHANGED <<todo, copying, failures>>

\* COL_ADD_MODE_EMBED: the caller's handle becomes the item's.
AddEmbedded(acceptor, c) ==
    /\ Idle /\ acceptor \in Visible /\ held[c] > 0
    /\ HasRoom(acceptor) /\ acceptor \notin Within(c)
    /\ node' = [node EXCEPT ![acceptor].subs = Append(@, c)]
    /\ held' = [held EXCEPT ![c] = @ - 1]
    /\ UNCHANGED <<todo, copying, failures>>

\* col_get_collection_reference and col_get_reference_from_item
col_get_collection_reference(c) ==
    /\ Idle /\ c \in Visible /\ held[c] < MaxHeld
    /\ node' = [node EXCEPT ![c].refs = @ + 1]
    /\ held' = [held EXCEPT ![c] = @ + 1]
    /\ UNCHANGED <<todo, copying, failures>>

\* A caller gives up a reference it owns.
col_destroy_collection(c) ==
    /\ Idle /\ held[c] > 0
    /\ held' = [held EXCEPT ![c] = @ - 1]
    /\ todo' = <<c>>
    /\ UNCHANGED <<node, copying, failures>>

\* Removing, overwriting or deleting a reference item ends in col_delete_item.
col_delete_item(c, k) ==
    /\ Idle /\ c \in Visible /\ k \in DOMAIN node[c].subs
    /\ node' = [node EXCEPT ![c].subs = RemoveAt(@, k)]
    /\ todo' = <<node[c].subs[k]>>
    /\ UNCHANGED <<held, copying, failures>>

\* Mutant: the collection goes while a reference is left.
DestroyOne_early(c) ==
    IF node[c].refs > 2
    THEN /\ node' = [node EXCEPT ![c].refs = @ - 1]
         /\ todo' = Tail(todo)
    ELSE /\ node' = [node EXCEPT ![c] = NULL]
         /\ todo' = Reverse(node[c].subs) \o Tail(todo)

\* One activation of col_destroy_collection_with_cb.  A collection that goes
\* is deleted by col_delete_collection from its last item to its header.
DestroyOne(c) ==
    IF node[c].refs > 1
    THEN /\ node' = [node EXCEPT ![c].refs = @ - 1]
         /\ todo' = Tail(todo)
    ELSE /\ node' = [node EXCEPT ![c] = NULL]
         /\ todo' = Reverse(node[c].subs) \o Tail(todo)

DestroyStep ==
    /\ todo # <<>>
    /\ DestroyOne(Head(todo))
    /\ UNCHANGED <<held, copying, failures>>
-----------------------------------------------------------------------------
(* col_copy_collection_with_cb and col_copy_traverse_handler, in the modes *)
(* NORMAL and KEEPREF; TOP and the flat modes make no reference items.     *)
(* into is the acceptor of COL_ADD_MODE_CLONE, NULL for a plain copy.      *)

Frame(src, dst, mode, into) ==
    [src |-> src, at |-> 0, dst |-> dst, mode |-> mode, into |-> into]

Top == copying[Len(copying)]
Pending == Top.at < Len(node[Top.src].subs)
NextSub == node[Top.src].subs[Top.at + 1]
Advanced == [copying EXCEPT ![Len(copying)].at = @ + 1]

col_copy_collection(src, dst, mode, into) ==
    /\ Idle /\ src \in Visible /\ dst \notin Live
    /\ into # NULL => mode = "NORMAL" /\ into \in Visible /\ HasRoom(into)
    /\ node' = New(dst)
    /\ copying' = <<Frame(src, dst, mode, into)>>
    /\ UNCHANGED <<held, todo, failures>>

\* NORMAL: a reference item is copied by copying its collection.
CopySub(dst) ==
    /\ copying # <<>> /\ Pending /\ Top.mode = "NORMAL" /\ dst \notin Live
    /\ node' = New(dst)
    /\ copying' = Append(copying, Frame(NextSub, dst, "NORMAL", NULL))
    /\ UNCHANGED <<held, todo, failures>>

\* On an error every level destroys the collection it was building.
Unwound == [i \in 1..Len(copying) |-> Reverse(copying)[i].dst]
Fail(pending) == copying' = <<>> /\ todo' = pending /\ failures' = failures + 1

\* KEEPREF: the count first, then the item.
KeepRef(ok) ==
    /\ copying # <<>> /\ Pending /\ Top.mode = "KEEPREF"
    /\ \/ /\ ok
          /\ node' = [node EXCEPT ![NextSub].refs = @ + 1,
                                  ![Top.dst].subs = Append(@, NextSub)]
          /\ copying' = Advanced
          /\ UNCHANGED <<todo, failures>>
       \/ /\ ~ok
          /\ node' = [node EXCEPT ![NextSub].refs = @ + 1]
          /\ Fail(Unwound)
    /\ UNCHANGED held

\* The copy of a subcollection is done: it goes into the copy above it.  If
\* that fails, the copy of the subcollection is not destroyed.
CopyReturn(ok) ==
    /\ Len(copying) > 1 /\ ~Pending
    /\ LET above == Front(copying)
           outer == above[Len(above)]
       IN  \/ /\ ok
              /\ node' = [node EXCEPT ![outer.dst].subs = Append(@, Top.dst)]
              /\ copying' = [above EXCEPT ![Len(above)].at = @ + 1]
              /\ UNCHANGED <<todo, failures>>
           \/ /\ ~ok
              /\ Fail(Tail(Unwound))
              /\ UNCHANGED node
    /\ UNCHANGED held

\* The whole copy is done: it is the caller's, or an item of the acceptor.  If
\* the acceptor cannot take it, it is not destroyed.
CopyDone(ok) ==
    /\ Len(copying) = 1 /\ ~Pending
    /\ \/ /\ Top.into = NULL /\ ok
          /\ held' = [held EXCEPT ![Top.dst] = 1]
          /\ copying' = <<>>
          /\ UNCHANGED <<node, todo, failures>>
       \/ /\ Top.into # NULL /\ ok
          /\ node' = [node EXCEPT ![Top.into].subs = Append(@, Top.dst)]
          /\ copying' = <<>>
          /\ UNCHANGED <<held, todo, failures>>
       \/ /\ Top.into # NULL /\ ~ok
          /\ Fail(<<>>)
          /\ UNCHANGED <<node, held>>

\* The copy of a data item fails, or there is no memory for a subcollection's.
CopyFails ==
    /\ copying # <<>>
    /\ \/ failures < MaxFailures /\ Fail(Unwound)
       \/ /\ Live = Cols /\ Pending /\ Top.mode = "NORMAL"
          /\ copying' = <<>> /\ todo' = Unwound /\ UNCHANGED failures
    /\ UNCHANGED <<node, held>>

Outcomes == IF failures < MaxFailures THEN BOOLEAN ELSE {TRUE}

Continue ==
    \/ DestroyStep
    \/ \E c \in Cols : CopySub(c)
    \/ \E ok \in Outcomes : KeepRef(ok) \/ CopyReturn(ok) \/ CopyDone(ok)
    \/ CopyFails

Call ==
    \/ \E c \in Cols : \/ col_create_collection(c)
                       \/ col_get_collection_reference(c)
                       \/ col_destroy_collection(c)
    \/ \E c, d \in Cols : AddReference(c, d) \/ AddEmbedded(c, d)
    \/ \E c \in Cols, k \in 1..MaxSubs : col_delete_item(c, k)
    \/ \E src, dst \in Cols, mode \in {"NORMAL", "KEEPREF"},
          into \in Cols \cup {NULL} : col_copy_collection(src, dst, mode, into)

Next == Call \/ Continue

Spec == Init /\ [][Next]_vars
-----------------------------------------------------------------------------
\* The references to c that exist: the callers' handles, the reference items,
\* the destroy calls to come and the collections a copy is building.
Occurrences(c, s) == Cardinality({i \in DOMAIN s : s[i] = c})
Building(c) == Cardinality({i \in DOMAIN copying : copying[i].dst = c})
Items(c) ==
    {p \in Cols \X (1..MaxSubs) : p[2] \in DOMAIN Subs(p[1]) /\ Subs(p[1])[p[2]] = c}
Pointers(c) == held[c] + Occurrences(c, todo) + Building(c) + Cardinality(Items(c))

(* The state has its type; the bounds are those of the instance.           *)
TypeOK ==
    /\ node \in [Cols -> NodeType \cup {NULL}]
    /\ \A c \in Live : Len(node[c].subs) <= MaxSubs
    /\ held \in [Cols -> 0..MaxHeld]
    /\ todo \in Seq(Cols)
    /\ copying \in Seq(FrameType)
    /\ failures \in 0..MaxFailures

(* No handle, no reference item, no pending destroy call and no copy under *)
(* way points to a collection that was deleted, even after a failed copy.  *)
NoDangling == \A c \in Cols \ Live : Pointers(c) = 0

(* The count in a header is the number of references to the collection,    *)
(* and after a copy that failed at least that number: a collection is not  *)
(* deleted while one of them is left.                                      *)
CountSound ==
    \A c \in Live : /\ node[c].refs >= Pointers(c)
                    /\ failures = 0 => node[c].refs = Pointers(c)

(* Once the callers have given up all their references, every collection   *)
(* has been deleted, unless a copy has failed.                             *)
AllReclaimed ==
    Idle /\ failures = 0 /\ (\A c \in Cols : held[c] = 0) => Live = {}

(* A deep copy shares no collection with what it copies, at any moment of  *)
(* the copy.                                                               *)
CopySharesNothing ==
    \A i \in DOMAIN copying :
        copying[i].mode = "NORMAL" =>
            Within(copying[1].src) \cap Within(copying[i].dst) = {}

(* Recursive destruction and copies that fail midway leave no pointer to a *)
(* deleted collection, no count below its pointers, and no collection that *)
(* a copy shares with its original (col_destroy_collection_with_cb,        *)
(* col_copy_collection_with_cb).                                           *)
PointersSound == TypeOK /\ NoDangling /\ CountSound /\ CopySharesNothing
=============================================================================
