-------------------------- MODULE MCCollectionUse --------------------------
(* An instance of CollectionUse: two names of which one begins the other. *)
EXTENDS CollectionUse

a == 97
b == 98
In(prop, type, data, length) == [prop |-> prop, type |-> type, data |-> data, length |-> length]

\* Strings that are whole, cut and empty, binary data of lengths down to 0, and
\* numbers of every type; a name and lengths that are refused.
TypedInputs ==
    {In(<<a>>, "STRING", <<a, b>>, l) : l \in {-1, 0, 1, 2}}
    \cup {In(<<a>>, "STRING", <<>>, 0), In(<<a, 33>>, "STRING", <<a>>, 0)}
    \cup {In(<<a>>, "BINARY", <<a, b>>, l) : l \in 0 .. 2}
    \cup {In(<<a>>, "INTEGER", <<n>>, 0) : n \in {-1, 1}}
    \cup {In(<<a>>, t, <<1>>, 0) : t \in {"UNSIGNED", "LONG", "ULONG", "DOUBLE", "BOOL"}}
MCNames == {<<a>>, <<b>>, <<33>>}

\* Items to be sorted by their names, their data and the lengths of both.
SortInputs ==
    {In(<<a>>, "INTEGER", <<2>>, 0), In(<<a, b>>, "INTEGER", <<1>>, 0), In(<<b>>, "INTEGER", <<1>>, 0),
     In(<<b, DOT, a>>, "STRING", <<b>>, 0)}

BASE == "COL_CLASS_DEFAULT"
TREE == "COL_CLASS_INI_BASE"
SECTION == "COL_CLASS_INI_SECTION"
CONFIG == "COL_CLASS_INI_CONFIG"
MCClasses == {QUEUE, STACK, SECTION, BASE, TREE, CONFIG}
Of(queue, section, base, tree, config) ==
    [class \in MCClasses |-> CASE class \in {QUEUE, STACK} -> queue
                               [] class = SECTION -> section
                               [] class = BASE -> base
                               [] class = TREE -> tree
                               [] class = CONFIG -> config]
Numbers(names) == {In(name, "INTEGER", <<1>>, 0) : name \in names}
MCInputs == Of(TypedInputs, TypedInputs, SortInputs, Numbers({<<a>>}), Numbers({<<a>>, <<b>>}))
MCChanges == Of({}, TypedInputs, {}, {}, {})
MCSorts == {{}, {"DESC"}, {"SUB"}, {"DESC", "SUB", "MYSUB"}}
MCMaxItems == Of(3, 2, 3, 3, 3)
MCEmbeds == Of({}, {}, {"s1", "s4"}, {"s1", "s3"}, {"s1", "s4"})
MCCompares ==
    Of({}, {}, {{"PROP_EQU"}, {"PROP_LEN"}, {"DATA_LEN"}, {"DATA"}, {"PROP_EQU", "DATA"}, {"PROP_MID", "PROP_DOT"},
            {"PROP_BEG", "TYPE"}, {"PROP_END", "PROP_DOT"}}, {}, {})
MCWalks == Of({}, {}, {}, {shape \cup limit \cup ends : shape \in {{}, {"FLAT"}, {"SHOWSUB"}, {"ONLYSUB"}},
                          limit \in {{}, {"ONELEVEL"}, {"IGNORE"}}, ends \in {{}, {"END"}}}, {})

\* Paths of up to four parts, right and wrong, with a name that ends in another.
MCSearches ==
    Of({}, {}, {}, {}, {<<>>, <<<<a>>>>, <<<<b>>>>, <<<<a, b>>>>, <<<<99>>, <<a>>>>, <<<<99>>, <<a, a>>>>,
       <<<<a, b>>, <<b>>>>, <<<<b>>, <<a>>>>, <<<<a, a>>, <<a, b>>, <<a>>>>, <<<<a, a>>, <<b>>>>,
       <<<<99>>, <<a, b>>, <<a>>>>, <<<<99>>, <<a, a>>, <<a, b>>, <<a>>>>})

\* Collections to embed: one with another in it, which is known there by another
\* name than its own, an empty one, and one that is referred to from elsewhere, too.
Item(id, prop, n) == NewItem(id, prop, "INTEGER", 4, <<n>>, NULL)
Ready(name, items, refs) ==
    [list |-> <<Header(name)>> \o items, class |-> BASE, refs |-> refs, count |-> Len(items) + 1,
     last |-> IF items = <<>> THEN HEADER ELSE Last(items).id]
MCSubs ==
    [s1 |-> Ready(<<a, a>>, <<Item("x1", <<b>>, 2), NewItem("x2", <<a, b>>, REF, 8, <<>>, "s2"),
                              Item("x3", <<a>>, 1)>>, 1),
     s2 |-> Ready(<<b, b>>, <<Item("x4", <<b>>, 1), Item("x5", <<a>>, 1)>>, 2),
     s3 |-> Ready(<<b, b>>, <<>>, 1),
     s4 |-> Ready(<<b, a>>, <<Item("x6", <<a, b>>, 1), Item("x7", <<a>>, 2)>>, 2)]
=============================================================================
