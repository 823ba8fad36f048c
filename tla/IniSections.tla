----------------------------- MODULE IniSections -----------------------------
(***************************************************************************)
(* Sections of a configuration and what becomes of a value that is offered *)
(* to one: complete_value_processing of ini/ini_parse.c, which the parser  *)
(* uses, and merge_section_handler of ini/ini_configobj.c, which merges    *)
(* configurations, resolve collisions of keys in the same way.  A section  *)
(* is a collection of values and, unless it is the implicit default one,   *)
(* of an item that stands for the line that opened it.                     *)
(***************************************************************************)
EXTENDS Integers, SequencesExt

CONSTANT SectionKey  \* INI_SECTION_KEY, the key that stands for a section

EOK == "EOK"
Modes == {"overwrite", "error", "preserve", "allow", "detect"}

NewSection(name) == [name |-> name, items |-> <<>>]

Named(sec, key) == {i \in DOMAIN sec.items : sec.items[i].key = key}

\* COL_INSERT_DUPERROR.  The search of the collection library begins at the
\* section's own header: one that bears the name ends the search, unfound.
DupFound(sec, key) == key # sec.name /\ Named(sec, key) # {}

Append1(sec, item) == [sec EXCEPT !.items = Append(@, item)]

\* col_modify_binary_item: the first value with the key is replaced.
Replace1(sec, item) ==
    [sec EXCEPT !.items[Min(Named(sec, item.key))] = item]

\* A section after a value was offered to it, whether there was a duplicate,
\* whether it is logged, and the error: the collision modes for values.
Offered(sec, item, mode, dup) ==
    [sec    |-> CASE ~dup \/ mode \in {"allow", "detect"} -> Append1(sec, item)
                  [] dup /\ mode = "overwrite" -> Replace1(sec, item)
                  [] dup /\ mode \in {"error", "preserve"} -> sec,
     dup    |-> dup,
     logged |-> dup /\ mode \in {"error", "detect"},
     error  |-> IF dup /\ mode = "error" THEN "EEXIST" ELSE EOK]

Offer(sec, item, mode) ==
    Offered(sec, item, mode,
            IF mode \in {"error", "preserve"} THEN DupFound(sec, item.key)
                                              ELSE Named(sec, item.key) # {})

\* empty_section: all items go but the one that stands for the section, which
\* is put back in the end; a section without one makes the call fail.
Emptied(sec) ==
    [sec EXCEPT !.items = SelectSeq(sec.items, LAMBDA i : i.key = SectionKey)]
EmptyError(sec) == IF Emptied(sec).items = <<>> THEN "EINVAL" ELSE EOK

=============================================================================
