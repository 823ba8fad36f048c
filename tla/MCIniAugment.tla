---------------------------- MODULE MCIniAugment ----------------------------
(* Instances of IniAugment: the files and the flags. *)
EXTENDS IniAugment

Sec(name, items) == [name |-> name, items |-> items]
Headed(name, items) == Sec(name, <<SectionKey>> \o items)
File(state, boundary, comment, cfg) ==
    [state |-> state, boundary |-> boundary, comment |-> comment, cfg |-> cfg]

\* A base with a section for each of two names, and one whose keys are in the
\* implicit default section; the first is wrapped at a boundary of its own.
MCBases == {File("good", 40, TRUE, <<Headed("A", <<"k">>), Headed("B", <<"m">>)>>),
            File("good", INI_WRAP_BOUNDARY, FALSE, <<Sec("default", <<"k">>)>>)}

\* Snippets that collide with the base and each other in sections, in keys and
\* within themselves, and those that cannot be used.
Snippet(state, comment, cfg) == File(state, INI_WRAP_BOUNDARY, comment, cfg)
MCSnippets ==
    {Snippet("good", TRUE, <<Headed("C", <<"k">>), Headed("A", <<"k", "m">>)>>),
     Snippet("good", FALSE, <<Headed("B", <<"m">>), Headed("C", <<"m">>)>>),
     Snippet("good", TRUE, <<Headed("default", <<"k">>), Headed("A", <<"m">>)>>),
     Snippet("detected", FALSE, <<Headed("A", <<"n", "n">>), Headed("B", <<"k">>)>>),
     Snippet("good", TRUE, <<>>),
     Snippet("malformed", TRUE, <<Headed("A", <<"k">>)>>),
     Snippet("refused", FALSE, <<Headed("B", <<"m">>)>>),
     Snippet("unreadable", FALSE, <<>>)}

\* Every combination of merge flags.  The sections that are allowed matter at the
\* level that stops at no errors, an empty list of them with one mode only.
MCFlagSets ==
    {f \in [level : {"any", "none"}, sections : {ALL, {}, {"A", "B", "C"}},
            ms : {"merge", "error", "overwrite", "preserve"}, msdetect : BOOLEAN, mv2s : Modes] :
        f.sections # ALL => f.level = "none" /\ (f.sections = {} => f.ms = "preserve")}

\* Directories: with three snippets for every combination of flags, and for one
\* of them with files of all kinds and patterns of which some are wrong.
Directory(resolves, opens, kinds, patterns, check) ==
    [resolves |-> resolves, opens |-> opens, patterns |-> patterns, check |-> check,
     entries |-> [n \in 0 .. 3 |-> IF n = 0 THEN "." ELSE kinds[n]]]
Pattern(good, names) == [good |-> good, names |-> names]
Plain == Directory(TRUE, EOK, <<"file", "file", "file">>, <<>>, FALSE)
Strange ==
    {Directory(TRUE, EOK, kinds, patterns, check) :
        kinds \in [1 .. 3 -> Kinds], check \in BOOLEAN,
        patterns \in {<<Pattern(FALSE, {})>>, <<Pattern(FALSE, {1}), Pattern(TRUE, {2, 3})>>,
                      <<Pattern(TRUE, {1}), Pattern(TRUE, {1, 3})>>}}
    \cup {Directory(FALSE, EOK, Plain.entries, <<>>, TRUE)}
    \cup {Directory(TRUE, opens, Plain.entries, <<Pattern(FALSE, {})>>, TRUE) : opens \in {"ENOENT", "ENOMEM"}}
Simple == CHOOSE f \in MCFlagSets :
    f = [level |-> "none", sections |-> ALL, ms |-> "preserve", msdetect |-> FALSE, mv2s |-> "preserve"]
MCDirs == [f \in MCFlagSets |-> {Plain} \cup IF f = Simple THEN Strange ELSE {}]

=============================================================================
