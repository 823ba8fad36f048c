------------------------------ MODULE IniAccess ------------------------------
(***************************************************************************)
(* A configuration object in the hands of an application: the search for   *)
(* values of ini/ini_get_valueobj.c, which keeps where it is in the object *)
(* between two calls, and the calls of ini/ini_configmod.c that change the *)
(* configuration under it.                                                 *)
(*                                                                         *)
(* The configuration is a collection of references to sections, a section  *)
(* a collection of values (see CollectionList); the item named SectionKey  *)
(* stands for the line that opened it.  Each item of a section owns one    *)
(* value object, which is known by the address of the item: heap has the   *)
(* objects that are allocated and, in place of their text and comment,     *)
(* which change wrote them last and the key that it was for.               *)
(***************************************************************************)
EXTENDS CollectionList, IniRules

CONSTANTS
    Names,       \* names of sections
    Keys,        \* names of values that the callers use
    SectionKey,  \* INI_SECTION_KEY
    Indexes,     \* idx arguments
    Positions,   \* position arguments
    Loaded,      \* configurations to begin with
    RuleFiles,   \* rules a configuration may be checked against
    Validators,  \* validators of the application
    Addresses,   \* addresses of items, in the order they are given out
    MaxSections, \* bound: sections, one deleted under a search included
    MaxChanges,  \* bound: calls that change the configuration
    CanFail      \* whether allocating may fail

ConfigName == "INI"
BINARY == "COL_TYPE_BINARY"
REF == "COL_TYPE_COLLECTIONREF"

VARIABLES
    cfg,     \* the collection of the references to sections
    secs,    \* the sections that are allocated, by address
    heap,    \* the value objects that are allocated: the last change to each
    search,  \* struct ini_cfgobj: section, name and iterator, or NULL
    fault,   \* the memory error a call ran into, or NULL
    changes  \* how many changes there have been

vars == <<cfg, secs, heap, search, fault, changes>>

\* A collection with these items.
Holding(name, items) ==
    [list  |-> <<Header(name)>> \o items,
     last  |-> IF items = <<>> THEN HEADER ELSE items[Len(items)].id,
     count |-> 1 + Len(items)]

Value(id, key) == [id |-> id, prop |-> key, type |-> BINARY]
Ref(id, name, sid) == [id |-> id, prop |-> name, type |-> REF, sec |-> sid]

ASSUME AccessAssumption ==
    /\ Indexes \subseteq Nat /\ Positions \subseteq Dispositions
    /\ MaxSections \in 1..Len(Addresses) /\ MaxChanges \in Nat /\ CanFail \in BOOLEAN
    /\ IsInjective(Addresses) /\ {HEADER, "end", "freed"} \cap Range(Addresses) = {}
    /\ \A l \in Loaded : \A s \in DOMAIN l : l[s].name \in Names

FirstOf(S) == {n \in S : \A m \in S : n <= m}
Unused(used) == {Addresses[n] : n \in FirstOf({n \in DOMAIN Addresses : Addresses[n] \notin used})}
NewSection == FirstOf((1..MaxSections) \ DOMAIN secs)
Free(f, gone) == [x \in DOMAIN f \ gone |-> f[x]]
With(f, x, v) == (x :> v) @@ f
ValuesOf(c) == {c.list[i].id : i \in 2..Len(c.list)}
NewItem == Unused(DOMAIN heap \cup UNION {ValuesOf(secs[s]) : s \in DOMAIN secs})
PositionOf(c, id) == CHOOSE p \in DOMAIN c.list : c.list[p].id = id
-----------------------------------------------------------------------------
(* The search.  Its iterator holds a reference to the section, so that the *)
(* section stays when it is deleted, and the item to look at next: the     *)
(* header at first (TOP), END after the last item.  due and seen are       *)
(* history: the items with the name that the search has yet to return, and *)
(* those it has returned.                                                  *)

TOP == HEADER
END == "end"
FREED == "freed"     \* the item to look at next was deleted

\* col_get_item and col_get_collection_reference: the first of that name.
Reference(name) == FirstOf({p \in SameName(cfg.list, name) : cfg.list[p].type = REF})
SectionOf(p) == cfg.list[p].sec

Valued(c, name) == {p \in SameName(c.list, name) : c.list[p].type = BINARY}
Ahead(c, next) == IF next = END THEN {} ELSE PositionOf(c, next)..Len(c.list)
Following(c, p) == IF p = Len(c.list) THEN END ELSE c.list[p + 1].id

\* The iterator is bound to the section, or rewound in it, for the name.
Started(section, sec, name) ==
    [section |-> section, sec |-> sec, next |-> TOP, name |-> name, seen |-> {},
     due |-> {secs[sec].list[p].id : p \in Valued(secs[sec], name)}]

Continues(section) == search # NULL /\ Alike(search.section, section)

\* Mutant: the iterator is not rewound for another name.
Prepared_onward(section, name, mode) ==
    IF mode # "FIRST" /\ Continues(section)
    THEN IF Alike(search.name, name) THEN {search}
         ELSE {[Started(section, search.sec, name) EXCEPT !.next = search.next]}
    ELSE {Started(section, SectionOf(p), name) : p \in Reference(section)}

\* Where the search goes on from: one state, or none if there is no section.
Prepared(section, name, mode) ==
    IF mode # "FIRST" /\ Continues(section)
    THEN IF Alike(search.name, name) THEN {search} ELSE {Started(section, search.sec, name)}
    ELSE {Started(section, SectionOf(p), name) : p \in Reference(section)}

\* The search after it returned the value at p.
Advanced(s, p) ==
    [s EXCEPT !.next = Following(secs[s.sec], p), !.due = @ \ {secs[s.sec].list[p].id},
              !.seen = @ \cup {secs[s.sec].list[p].id}]

\* The loop over the iterator: what is found, NULL if nothing is, and the state
\* it leaves.  For the last value the iterator runs round to the top.
Found(s, mode) ==
    LET c == secs[s.sec]
        hits == Ahead(c, s.next) \cap Valued(c, s.name)
    IN  CASE hits = {} -> [vo |-> NULL, search |-> NULL]
          [] hits # {} /\ mode = "LAST" ->
                [vo |-> c.list[Max(hits)].id, search |-> Started(s.section, s.sec, s.name)]
          [] hits # {} /\ mode # "LAST" ->
                [vo |-> c.list[Min(hits)].id, search |-> Advanced(s, Min(hits))]

\* ini_config_clean_state: the iterator gives up its reference; a section that
\* nobody else refers to goes, but not its values.
Referenced == {cfg.list[p].sec : p \in 2..Len(cfg.list)}
Unbound(s) == IF search = NULL \/ (s # NULL /\ s.sec = search.sec) THEN secs
              ELSE Free(secs, {search.sec} \ Referenced)

ini_get_config_valueobj(section, name, mode) ==
    /\ fault = NULL
    /\ LET start == Prepared(section, name, mode)
       IN  \/ /\ start = {}
              /\ search' = NULL /\ secs' = Unbound(NULL) /\ UNCHANGED fault
           \/ \E s \in start :
                 /\ s.next = FREED
                 /\ fault' = "search" /\ UNCHANGED <<search, secs>>
           \/ \E s \in start :
                 /\ s.next # FREED
                 /\ search' = Found(s, mode).search
                 /\ secs' = Unbound(search') /\ UNCHANGED fault
    /\ UNCHANGED <<cfg, heap>>

\* Binding the iterator or saving a name fails: the state is cleaned.
SearchFails ==
    /\ fault = NULL /\ CanFail
    /\ search' = NULL /\ secs' = Unbound(NULL)
    /\ UNCHANGED <<cfg, heap, fault>>
-----------------------------------------------------------------------------
(* Adding and changing values: ini_config_add_str_value, to which the      *)
(* calls for other types come down.                                        *)

INI_VA == {"NOCHECK", "MOD", "MOD_E", "MODADD", "MODADD_E", "CLEAN", "DUPERROR"}

\* enum INI_VA is handed to the collection library as its own flags.
InsertFlag == [NOCHECK |-> "NOCHECK", MOD |-> "DUPOVER", MOD_E |-> "DUPOVERT",
               MODADD |-> "DUPERROR", MODADD_E |-> "DUPERRORT", CLEAN |-> "DUPMOVE",
               DUPERROR |-> "DUPMOVET"]

Picked(p, missing) == [at |-> p, error |-> IF p = 0 THEN missing ELSE "EOK"]

\* Mutant: an index that is too big counts as a key that is missing.
Choice_lenient(flag, best, exact, first) ==
    CASE flag \in {"NOCHECK", "CLEAN"} -> Picked(0, "EOK")
      [] flag = "MOD" -> Picked(best, "ENOENT")
      [] flag = "MOD_E" -> Picked(exact, "ENOENT")
      [] flag = "MODADD" -> Picked(best, "EOK")
      [] flag = "MODADD_E" -> Picked(exact, "EOK")
      [] flag = "DUPERROR" -> Picked(0, IF first = 0 THEN "EOK" ELSE "EEXIST")

\* The switch over the flags: the position of the item to change (0: a new one
\* is added) and the error that ends the call, from what the searches find.
Choice(flag, best, exact, first) ==
    CASE flag \in {"NOCHECK", "CLEAN"} -> Picked(0, "EOK")
      [] flag = "MOD" -> Picked(best, "ENOENT")
      [] flag = "MOD_E" -> Picked(exact, "ENOENT")
      [] flag = "MODADD" -> Picked(best, "EOK")
      [] flag = "MODADD_E" -> IF exact = 0 /\ best > 0 THEN Picked(0, "ENOENT")
                              ELSE Picked(IF exact = 0 THEN best ELSE exact, "EOK")
      [] flag = "DUPERROR" -> Picked(0, IF first = 0 THEN "EOK" ELSE "EEXIST")

Selected(c, key, idx, flag) ==
    Choice(flag, col_get_dup_item(c.list, key, ANY, idx, FALSE),
                 col_get_dup_item(c.list, key, ANY, idx, TRUE),
                 col_get_dup_item(c.list, key, ANY, 0, FALSE))

\* INI_VA_CLEAN: first duplicates are removed until there is none.
WithoutFirst(c, at) == IF at = 0 THEN c ELSE TakeOut(c, at)
Cleaned(c, key) ==
    FoldLeft(LAMBDA d, i : WithoutFirst(d, ExtractPosition(d, "FIRSTDUP", key, 0, ANY)),
             c, c.list)

\* A new item is placed; the front is behind the item for the section's line.
Inserted(c, item, position, other_key, idx, flag) ==
    IF position = "FRONT"
    THEN col_insert_item_into_current(c, item, "AFTER", SectionKey, idx, InsertFlag[flag])
    ELSE col_insert_item_into_current(c, item, position, other_key, idx, InsertFlag[flag])

\* What the call makes of a section: its error, the section after it, the items
\* it deleted with their values, and the one whose value it replaced.
Outcome(error, c, deleted, replaced) ==
    [error |-> error, sec |-> c, deleted |-> deleted, replaced |-> replaced]

\* The header owns no value: its data would be taken for one and destroyed.
Settled(c, clean, sel, r) ==
    CASE sel.at = CRASH \/ (sel.error = "EOK" /\ sel.at = 1) -> Outcome("CRASH", c, {}, {})
      [] sel.at # CRASH /\ sel.error # "EOK" -> Outcome(sel.error, c, {}, {})
      [] sel.error = "EOK" /\ sel.at > 1 -> Outcome("EOK", c, {}, {c.list[sel.at].id})
      [] sel.error = "EOK" /\ sel.at = 0 ->
            Outcome(r.error, r.col, ValuesOf(c) \ ValuesOf(clean), {})

\* The old values are gone by the time a new one is created or placed, and stay
\* gone if that fails.
Replacing(c, clean, item, position, other_key, idx, flag) ==
    Settled(c, clean, Selected(c, item.prop, idx, flag),
            Inserted(clean, item, position, other_key, idx, flag))
Added(c, item, position, other_key, idx, flag) ==
    Replacing(c, IF flag = "CLEAN" THEN Cleaned(c, item.prop) ELSE c,
              item, position, other_key, idx, flag)

\* An iterator that was to look at a deleted item next is left with it.
Disturbed(sid, deleted) ==
    IF search = NULL \/ search.sec # sid THEN search
    ELSE [search EXCEPT !.due = @ \ deleted, !.seen = @ \ deleted,
                        !.next = IF @ \in deleted THEN FREED ELSE @]

\* These value objects are written, for a key; the others are as they were.
Writing(n, key) == [change |-> n, key |-> key]
Writes(ids, key, others) == [v \in ids |-> Writing(changes + 1, key)] @@ others

\* The configuration after a call that settled so on section sid.
Apply(sid, r, new, key) ==
    \/ r.error = "CRASH" /\ fault' = "dup" /\ UNCHANGED <<secs, heap, search>>
    \/ /\ r.error # "CRASH" /\ UNCHANGED fault
       /\ secs' = [secs EXCEPT ![sid] = r.sec]
       /\ heap' = Writes(IF r.error = "EOK" /\ r.replaced = {} THEN new ELSE r.replaced, key,
                         Free(heap, r.deleted))
       /\ search' = Disturbed(sid, r.deleted)

ini_config_add_str_value(section, key, position, other_key, idx, flag) ==
    /\ fault = NULL
    /\ \E p \in Reference(section), id \in NewItem :
          Apply(SectionOf(p), Added(secs[SectionOf(p)], Value(id, key), position, other_key,
                                    idx, flag), {id}, key)
    /\ UNCHANGED cfg

\* Creating the value fails, when CLEAN has removed the old ones.
CleanedOnly(c, clean) ==
    Outcome("ENOMEM", clean, ValuesOf(c) \ ValuesOf(clean), {})
AddFails(section, key) ==
    /\ fault = NULL /\ CanFail
    /\ \E p \in Reference(section) :
          Apply(SectionOf(p), CleanedOnly(secs[SectionOf(p)], Cleaned(secs[SectionOf(p)], key)),
                {}, key)
    /\ UNCHANGED cfg

\* Mutant: the item is cut off with everything behind it.
TakenOut_rest(c, at) ==
    Outcome("EOK", [c EXCEPT !.list = SubSeq(@, 1, at - 1), !.count = at - 1,
                             !.last = c.list[at - 1].id],
            {c.list[p].id : p \in at..Len(c.list)}, {})

\* The item is extracted, its value destroyed, the item deleted.
TakenOut(c, at) == Outcome("EOK", TakeOut(c, at), {c.list[at].id}, {})

ini_config_delete_value(section, position, key, idx) ==
    /\ fault = NULL
    /\ \E p \in Reference(section) :
          /\ ExtractPosition(secs[SectionOf(p)], position, key, idx, ANY) # 0
          /\ Apply(SectionOf(p), TakenOut(secs[SectionOf(p)],
                       ExtractPosition(secs[SectionOf(p)], position, key, idx, ANY)), {}, key)
    /\ UNCHANGED cfg

\* The comment of the header would be set in memory that is no value.
ini_config_update_comment(section, key, idx) ==
    /\ fault = NULL
    /\ \E p \in Reference(section) :
       LET c == secs[SectionOf(p)]
           at == col_get_dup_item(c.list, key, ANY, idx, TRUE)
       IN  \/ at > 1 /\ heap' = Writes({c.list[at].id}, key, heap) /\ UNCHANGED fault
           \/ at = 1 /\ fault' = "dup" /\ UNCHANGED heap
    /\ UNCHANGED <<cfg, secs, search>>
-----------------------------------------------------------------------------
(* Sections.                                                               *)

\* The reference item that could not be placed is deleted, and the section with
\* it, which the caller then destroys again.
ini_config_add_section(name, position, other_section, idx) ==
    /\ fault = NULL /\ Reference(name) = {}
    /\ \E sid \in NewSection, own \in NewItem, id \in Unused(IdsOf(Range(cfg.list))) :
       LET r == col_insert_item_into_current(cfg, Ref(id, name, sid), position,
                                             other_section, idx, "NOCHECK")
       IN  \/ /\ r.error = "EOK"
              /\ cfg' = r.col
              /\ secs' = With(secs, sid, Holding(name, <<Value(own, SectionKey)>>))
              /\ heap' = Writes({own}, SectionKey, heap)
              /\ UNCHANGED <<search, fault>>
           \/ /\ r.error # "EOK"
              /\ fault' = "section"
              /\ UNCHANGED <<cfg, secs, heap, search>>

ini_config_comment_section(section) ==
    /\ fault = NULL
    /\ \E p \in Reference(section) :
       LET c == secs[SectionOf(p)]
           lines == Valued(c, SectionKey)
       IN  lines # {} /\ heap' = Writes({c.list[Min(lines)].id}, SectionKey, heap)
    /\ UNCHANGED <<cfg, secs, search, fault>>

\* The reference and the section's own header get the new name; whether there
\* is a section of that name is not looked at, and neither is the search.
ini_config_rename_section(section, newname) ==
    /\ fault = NULL
    /\ \E p \in Reference(section) :
          /\ cfg' = [cfg EXCEPT !.list[p].prop = newname]
          /\ secs' = [secs EXCEPT ![SectionOf(p)].list[1].prop = newname]
    /\ UNCHANGED <<heap, search, fault>>

\* Mutant: the section is deleted though the search refers to it.
ini_config_delete_section_by_position_now(position, section, idx) ==
    /\ fault = NULL
    /\ LET at == ExtractPosition(cfg, position, section, idx, ANY)
       IN  /\ at # 0
           /\ cfg' = TakeOut(cfg, at)
           /\ secs' = secs
           /\ heap' = Free(heap, ValuesOf(secs[SectionOf(at)]))
    /\ UNCHANGED <<search, fault>>

\* The values are destroyed with the section, unless the search still refers
\* to it.
ini_config_delete_section_by_position(position, section, idx) ==
    /\ fault = NULL
    /\ LET at == ExtractPosition(cfg, position, section, idx, ANY)
       IN  /\ at # 0
           /\ cfg' = TakeOut(cfg, at)
           /\ LET sid == SectionOf(at)
              IN  IF search # NULL /\ search.sec = sid
                  THEN UNCHANGED <<secs, heap>>
                  ELSE /\ secs' = Free(secs, {sid})
                       /\ heap' = Free(heap, ValuesOf(secs[sid]))
    /\ UNCHANGED <<search, fault>>

ini_config_delete_section_by_name(section) ==
    ini_config_delete_section_by_position("FIRSTDUP", section, 0)
-----------------------------------------------------------------------------
(* ini_get_section_list and ini_get_attribute_list: the names of the items *)
(* below the header; of a section's, the first one is left out.            *)
NamesIn(c) == [i \in 1..(Len(c.list) - 1) |-> c.list[i + 1].prop]
ini_get_section_list == NamesIn(cfg)
ini_get_attribute_list(p) ==
    LET names == NamesIn(secs[SectionOf(p)])
    IN  IF names = <<>> THEN <<>> ELSE Tail(names)

\* ini_config_parse filled the object with the sections of a file.
Load(l) ==
    LET before(s) == FoldLeft(LAMBDA n, r : n + Len(r.keys), 0, SubSeq(l, 1, s - 1))
    IN  /\ cfg = Holding(ConfigName, [s \in DOMAIN l |-> Ref(Addresses[s], l[s].name, s)])
        /\ secs = [s \in DOMAIN l |->
                      Holding(l[s].name, [i \in DOMAIN l[s].keys |->
                                  Value(Addresses[before(s) + i], l[s].keys[i])])]
        /\ heap = [v \in {Addresses[n] : n \in 1..before(Len(l) + 1)} |-> Writing(0, NULL)]

Init == /\ \E l \in Loaded : Load(l)
        /\ search = NULL
        /\ fault = NULL
        /\ changes = 0

\* The arguments <<position, other, idx>> that a position reads.
Places == {a \in Positions \X (Keys \cup {NULL}) \X Indexes :
              a[1] \in {"BEFORE", "AFTER"} \/ a[2] = NULL}
SectionPlaces == {a \in (Positions \ Dups) \X (Names \cup {NULL}) \X Indexes :
                     /\ a[1] \in {"BEFORE", "AFTER"} <=> a[2] # NULL
                     /\ a[1] = "INDEX" \/ a[3] = 0}

Modify ==
    \/ \E s \in Names, k \in Keys, a \in Places, f \in INI_VA :
          ini_config_add_str_value(s, k, a[1], a[2], a[3], f)
    \/ \E s \in Names, k \in Keys : AddFails(s, k)
    \/ \E s \in Names, d \in Positions, k \in Keys, i \in Indexes :
          ini_config_delete_value(s, d, k, i)
    \/ \E s \in Names, k \in Keys, i \in Indexes : ini_config_update_comment(s, k, i)
    \/ \E s \in Names, a \in SectionPlaces : ini_config_add_section(s, a[1], a[2], a[3])
    \/ \E s \in Names : ini_config_comment_section(s)
    \/ \E s, n \in Names : ini_config_rename_section(s, n)
    \/ \E d \in Positions, s \in Names, i \in Indexes :
          ini_config_delete_section_by_position(d, s, i)
    \/ \E s \in Names : ini_config_delete_section_by_name(s)

Search ==
    \/ \E s \in Names, k \in Keys, m \in {"FIRST", "NEXT", "LAST"} :
          ini_get_config_valueobj(s, k, m)
    \/ SearchFails

Next ==
    \/ Search /\ UNCHANGED changes
    \/ changes < MaxChanges /\ Modify /\ changes' = changes + 1

Spec == Init /\ [][Next]_vars
-----------------------------------------------------------------------------
(* Every value that can be reached, from a section of the configuration or *)
(* from one that only the search still refers to, is allocated and in one  *)
(* place: whatever the calls did, and wherever they failed, no value is    *)
(* destroyed under the configuration and none would be destroyed twice.    *)
(* And the list in each section is sound.                                  *)
ValuesOwned ==
    /\ Referenced \cup (IF search = NULL THEN {} ELSE {search.sec}) = DOMAIN secs
    /\ \A s \in DOMAIN secs :
          /\ ValuesOf(secs[s]) \subseteq DOMAIN heap
          /\ Cardinality(ValuesOf(secs[s])) = Len(secs[s].list) - 1
          /\ secs[s].count = Len(secs[s].list)
          /\ secs[s].last = secs[s].list[Len(secs[s].list)].id
    /\ \A s, t \in DOMAIN secs : s # t => ValuesOf(secs[s]) \cap ValuesOf(secs[t]) = {}

(* A search by FIRST and NEXT misses nothing and repeats nothing, whatever *)
(* is added, changed, renamed or deleted between the calls, as long as it  *)
(* does not stand on a deleted item: each value of the key that was there  *)
(* when it began and is still there was returned or lies ahead, and none   *)
(* that it returned lies ahead.                                            *)
SearchComplete ==
    search # NULL /\ search.next # FREED =>
        LET c == secs[search.sec]
            at(ids) == {p \in DOMAIN c.list : c.list[p].id \in ids}
        IN  /\ Cardinality(at(search.due)) = Cardinality(search.due)
            /\ at(search.due) \subseteq Ahead(c, search.next)
            /\ at(search.seen) \cap Ahead(c, search.next) = {}

(* The lists name every section in order, and every key of a section that  *)
(* begins with its line; of one that does not, like the default section of *)
(* a file, the first key is missing: ini_get_section_list,                 *)
(* ini_get_attribute_list.                                                 *)
ListsMean ==
    /\ Len(ini_get_section_list) = cfg.count - 1
    /\ \A p \in 2..Len(cfg.list) :
          LET sec == secs[SectionOf(p)]
              keys == SelectSeq(sec.list, LAMBDA i : i.prop # SectionKey /\ i.type = BINARY)
          IN  /\ ini_get_section_list[p - 1] = sec.list[1].prop
              /\ Len(sec.list) > 1 /\ sec.list[2].prop = SectionKey =>
                    ini_get_attribute_list(p) = [k \in DOMAIN keys |-> keys[k].prop]

(* The validators see all of a configuration: what ini_rules_check says of *)
(* it is what each rule says of its sections and keys, if every section    *)
(* begins with its line and has a name of its own.                         *)
AttributesOf(name) == ini_get_attribute_list(CHOOSE p \in Reference(name) : TRUE)
Listed == [i \in DOMAIN ini_get_section_list |->
             [name |-> ini_get_section_list[i],
              attributes |-> AttributesOf(ini_get_section_list[i])]]
Contents == [p \in 1..(Len(cfg.list) - 1) |->
               LET sec == secs[SectionOf(p + 1)]
               IN  [name |-> sec.list[1].prop,
                    attributes |-> [i \in 1..(Len(sec.list) - 2) |-> sec.list[i + 2].prop]]]
Regular == /\ \A s \in Referenced : Len(secs[s].list) > 1 /\ secs[s].list[2].prop = SectionKey
           /\ \A p, q \in DOMAIN Contents :
                 p # q => ~Alike(Contents[p].name, Contents[q].name)
Validated == Regular => \A r \in RuleFiles : RulesMean(r, Listed, Contents, Validators)

(* A caller finds all that is there, by a search, by the lists and by      *)
(* validators.                                                             *)
FoundAll == SearchComplete /\ ListsMean /\ Validated

(* What ini_configmod.h says of the flags of the add functions, for a key  *)
(* that is not named like its section: which of the values is replaced,    *)
(* whether one is added and which error is returned.  The value to replace *)
(* is only found if it is spelled as the caller spells the key, in a search*)
(* that is otherwise without regard to case; with an index that is too big *)
(* MOD and MODADD may crash in col_get_dup_item.  In particular the flag   *)
(* does nothing when it reaches the collection library.                    *)
Nth(S, n) == CHOOSE p \in S : Cardinality({q \in S : q < p}) = n
Means(f, c, key, idx, S, r, placed, others) ==
    CASE f = "NOCHECK" -> r.sec = placed.col /\ r.error = placed.error
      [] f = "CLEAN" -> /\ r.sec.list = others \/ r.error = "EOK"
                        /\ r.error = "EOK" => /\ Valued(r.sec, key) # {}
                                              /\ Len(r.sec.list) = 1 + Len(others)
      [] f = "DUPERROR" /\ S # {} -> r.error = "EEXIST" /\ r.sec = c
      [] f \in {"DUPERROR", "MODADD", "MODADD_E"} /\ S = {} ->
            r.sec = placed.col /\ r.error = placed.error
      [] f \in {"MOD", "MOD_E"} /\ S = {} -> r.error = "ENOENT" /\ r.sec = c
      [] /\ f \in {"MOD", "MOD_E", "MODADD", "MODADD_E"} /\ idx < Cardinality(S)
         /\ c.list[Nth(S, idx)].prop = key ->
            r.error = "EOK" /\ r.sec = c /\ r.replaced = {c.list[Nth(S, idx)].id}
      [] f \in {"MOD_E", "MODADD_E"} /\ S # {} /\ idx >= Cardinality(S) ->
            r.error \in {"ENOENT", "CRASH"} /\ r.sec = c
      [] OTHER -> TRUE
FlagsMean ==
    \A s \in DOMAIN secs, key \in Keys, a \in Places, f \in INI_VA :
        ~Alike(secs[s].list[1].prop, key) =>
            Means(f, secs[s], key, a[3], Valued(secs[s], key),
                  Added(secs[s], Value("new", key), a[1], a[2], a[3], f),
                  Inserted(secs[s], Value("new", key), a[1], a[2], a[3], "NOCHECK"),
                  SelectSeq(secs[s].list, LAMBDA i : ~Alike(i.prop, key)))

(* A change keeps every other section, and in the section that it changes  *)
(* the values of every other key, as they are and in their order, also when*)
(* it fails; only deleting takes away sections.  The one exception is the  *)
(* value before one whose name is spelled in another case than the caller  *)
(* spells it: that one may be replaced instead.                            *)
Others(c, key) == SelectSeq(Tail(c.list), LAMBDA i : ~Alike(i.prop, key))
Mistaken(c, key) ==
    {c.list[p].id : p \in {q \in 1..(Len(c.list) - 1) :
                             Alike(c.list[q + 1].prop, key) /\ c.list[q + 1].prop # key}}
Same(ids) == \A i \in ids : heap'[i] = heap[i]
IsFor(s, key) == \A i \in ValuesOf(secs'[s]) : heap'[i].change = changes' => heap'[i].key = key
Kept(s, key) == /\ Others(secs[s], key) = Others(secs'[s], key)
                /\ Same(IdsOf(Range(Others(secs[s], key))) \ Mistaken(secs[s], key))
Untouched(s) == Tail(secs[s].list) = Tail(secs'[s].list) /\ Same(ValuesOf(secs[s]))
OthersKept ==
    [][LET both == DOMAIN secs \cap DOMAIN secs'
       IN  \E s \in both \cup {0} :
              /\ \A o \in both \ {s} : Untouched(o)
              /\ s # 0 => \E k \in Keys \cup {SectionKey} : IsFor(s, k) /\ Kept(s, k)]_vars
=============================================================================
