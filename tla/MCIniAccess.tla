----------------------------- MODULE MCIniAccess -----------------------------
(* Instances of IniAccess for TLC. *)
EXTENDS IniAccess

MCIndexes == {0, 1}
MCPrefixOf == {}
MCRespelled == {<<"a", "A">>, <<"A", "a">>}
MCAddresses == <<"i1", "i2", "i3", "i4", "i5">>
\* A file with keys before its first section, one whose section has the values
\* of a key apart, and one that spells the key in two ways, the first of them
\* right after the line of the section.
MCLoaded == {<<[name |-> "s", keys |-> <<"a", "a">>], [name |-> "t", keys |-> <<"[", "A">>]>>,
             <<[name |-> "t", keys |-> <<"[", "a", "b", "a">>]>>,
             <<[name |-> "t", keys |-> <<"A", "b", "A">>]>>}

\* Rules: names and patterns for sections in both orders, with and without
\* regard to case, options, and rules that are wrong; the validators of the
\* application are two of one name.
Item(key, value) == [key |-> key, spelled |-> TRUE, value |-> value]
Section(name, same) == Item("section", [name |-> name, same |-> same])
Regex(good, names, icase) ==
    Item("section_re", [good |-> good, empty |-> FALSE, names |-> names, icase |-> icase])
Empty == Item("section_re", [good |-> TRUE, empty |-> TRUE, names |-> Names, icase |-> Names])
By(v) == Item("validator", v)
SectionRules ==
    LET by == By("ini_allowed_sections")
    IN  {<<by>>, <<Section("s", TRUE), Regex(TRUE, {"t"}, {"t"}), by>>,
         <<by, Section("s", FALSE), Section("t", TRUE)>>, <<by, Regex(FALSE, {}, {})>>,
         <<Regex(TRUE, {}, {"s"}), Section("t", FALSE), by, Item("case_insensitive", TRUE)>>,
         <<Item("case_insensitive", FALSE), Regex(TRUE, {}, {"s"}), by, Regex(TRUE, {"t"}, {"t"})>>}
OptionRules ==
    LET by == By("ini_allowed_options")
    IN  {<<by>>, <<by, Empty>>, <<by, Regex(FALSE, {}, {})>>,
         <<Item("option", "a"), by, Regex(TRUE, {"s"}, {}), Item("option", "b"),
           Regex(TRUE, {"t"}, {})>>,
         <<Item("option", "a"), Regex(TRUE, Names, {}), by>>}
OtherRules == {<<>>, <<By("own")>>, <<By("other")>>,
               <<By("ini_dummy_error")>>, <<By("ini_dummy_noerror")>>}
MCValidators == <<[name |-> "NULL", ret |-> "EOK", msgs |-> <<<<"nobody">>>>],
                  [name |-> "own", ret |-> "EIO", msgs |-> <<<<"one">>, <<"two">>>>],
                  [name |-> "own", ret |-> "EOK", msgs |-> <<<<"three">>>>]>>
All == SetToSeq(SectionRules) \o SetToSeq(OptionRules) \o SetToSeq(OtherRules)
\* One file with all of them, each a rule of its own, and with a section that is none.
MCRuleFiles == {[i \in DOMAIN All |-> [name |-> i, isrule |-> TRUE, items |-> All[i]]]
                  \o <<[name |-> 0, isrule |-> FALSE, items |-> <<By("ini_dummy_error")>>]>>}

=============================================================================
