------------------------------ MODULE IniMerge ------------------------------
(***************************************************************************)
(* ini_config_merge (ini/ini_configobj.c): the second configuration is     *)
(* merged, section by section, into a copy of the first.  The code runs in *)
(* one call and is a function of its arguments here; what is kept of its   *)
(* order is which sections and values were dealt with when it stops.       *)
(*                                                                         *)
(* A configuration object has its sections (cfg), the boundary at which    *)
(* its values are wrapped, and the comment at its end.  Each value carries *)
(* its own boundary.  The number of value objects allocated and not yet    *)
(* destroyed goes through all of it, as "objs".                            *)
(***************************************************************************)
EXTENDS IniSections

CONSTANT NULL

\* The value objects of a configuration, each of which it owns.
Objects(co) ==
    IF co = NULL THEN 0
    ELSE FoldLeft(LAMBDA n, sec : n + Len(sec.items), 0, co.cfg)

\* Mutant: a value that is preserved over the copy leaves the copy behind.
Taken_leak(acc, r, mode) ==
    [sec |-> r.sec, ret |-> r.error,
     error |-> IF r.logged THEN "EEXIST" ELSE acc.error,
     objs |-> acc.objs + 1 - (IF r.dup /\ mode \in {"overwrite", "error"} THEN 1 ELSE 0)]

\* After a copy of a value was offered: the value it replaces is destroyed, or
\* the copy itself if it is refused.
Taken(acc, r, mode) ==
    [sec |-> r.sec, ret |-> r.error,
     error |-> IF r.logged THEN "EEXIST" ELSE acc.error,
     objs |-> acc.objs + 1
              - (IF r.dup /\ mode \in {"overwrite", "error", "preserve"} THEN 1 ELSE 0)]

merge_section_handler(mode, acc, item) ==
    IF acc.ret # EOK \/ item.key = SectionKey THEN acc
    ELSE Taken(acc, Offer(acc.sec, item, mode), mode)

\* Its error is that of the traversal or the one that was recorded.
SectionMerged(acc) ==
    [sec |-> acc.sec, objs |-> acc.objs,
     error |-> IF acc.ret # EOK THEN acc.ret ELSE acc.error]

merge_two_sections(donor, acceptor, mode, objs) ==
    SectionMerged(FoldLeft(LAMBDA acc, item : merge_section_handler(mode, acc, item),
                           [sec |-> acceptor, error |-> EOK, ret |-> EOK, objs |-> objs],
                           donor.items))

\* The section, and the error of the traversal, after a merge by INI_MS_MERGE (a
\* collision of values is the section's) and INI_MS_OVERWRITE (it ends all).
Detected(flags) == IF flags.msdetect THEN "EEXIST" ELSE EOK
AfterMerge(flags, m, ret) ==
    [sec |-> m.sec, objs |-> m.objs, ret |-> ret,
     error |-> IF m.error # EOK THEN m.error ELSE Detected(flags)]
Overwritten(flags, m) == AfterMerge(flags, m, m.error)

\* acceptor_handler: the section that both configurations have.
acceptor_handler(flags, donor, acceptor, objs) ==
    LET left == objs - (Len(acceptor.items) - Len(Emptied(acceptor).items))
        kept == [sec |-> acceptor, objs |-> objs, ret |-> EOK, error |-> Detected(flags)]
    IN  CASE flags.ms = "error" -> [kept EXCEPT !.error = "EEXIST"]
          [] flags.ms = "preserve" -> kept
          [] flags.ms = "overwrite" /\ EmptyError(acceptor) # EOK ->
                [kept EXCEPT !.sec = Emptied(acceptor), !.objs = left,
                             !.ret = EmptyError(acceptor)]
          [] flags.ms = "overwrite" /\ EmptyError(acceptor) = EOK ->
                Overwritten(flags, merge_two_sections(donor, Emptied(acceptor), flags.mv2s, left))
          [] flags.ms = "merge" ->
                AfterMerge(flags, merge_two_sections(donor, acceptor, flags.mv2s, objs), EOK)

\* donor_handler after acceptor_handler: whether an error ends the traversal
\* (st.stop is its *dummy) depends on the flags.
Accepted(flags, st, m, a) ==
    [cfg   |-> [st.cfg EXCEPT ![m] = a.sec],
     objs  |-> a.objs,
     ret   |-> a.ret,
     error |-> IF a.ret = EOK /\ a.error # EOK THEN a.error ELSE st.error,
     stop  |-> /\ a.ret = EOK /\ a.error # EOK
               /\ ~(flags.msdetect \/ (flags.ms # "error" /\ flags.mv2s = "detect"))]

SameName(cfg, name) == {m \in DOMAIN cfg : cfg[m].name = name}

\* donor_handler: a section of the second configuration.
donor_handler(flags, st, donor) ==
    IF st.ret # EOK \/ st.stop THEN st
    ELSE IF SameName(st.cfg, donor.name) = {}
    THEN [st EXCEPT !.cfg = Append(@, donor), !.objs = @ + Len(donor.items)]
    ELSE LET m == Min(SameName(st.cfg, donor.name))
         IN  Accepted(flags, st, m, acceptor_handler(flags, donor, st.cfg[m], st.objs))

\* ini_config_set_wrap: every value is wrapped anew.
ini_config_set_wrap(co, boundary) ==
    [co EXCEPT !.boundary = boundary,
               !.cfg = [s \in DOMAIN @ |-> [@[s] EXCEPT
                   !.items = [i \in DOMAIN @ |-> [@[i] EXCEPT !.boundary = boundary]]]]]

\* Mutant: the values that came from the second configuration keep its boundary.
Aligned_never(co, donor) == co

\* The values are wrapped as the first configuration says.
Aligned(co, donor) ==
    IF co.boundary = donor.boundary THEN co ELSE ini_config_set_wrap(co, co.boundary)

merge_comment(co, donor) == [co EXCEPT !.last_comment = @ \o donor.last_comment]

\* merge_configs after the traversal of the sections.
Joined(flags, donor, co, st) ==
    IF st.ret # EOK THEN [co |-> co, error |-> st.ret, objs |-> st.objs]
    ELSE IF st.error # EOK /\ (flags.ms = "error" \/ flags.mv2s = "error")
    THEN [co |-> co, error |-> st.error, objs |-> st.objs]
    ELSE [co |-> merge_comment(Aligned(co, donor), donor), objs |-> st.objs,
          error |-> IF flags.msdetect \/ flags.mv2s = "detect" THEN st.error ELSE EOK]

SectionsJoined(flags, donor, acceptor, st) ==
    Joined(flags, donor, [acceptor EXCEPT !.cfg = st.cfg], st)

merge_configs(flags, donor, acceptor, objs) ==
    SectionsJoined(flags, donor, acceptor,
        FoldLeft(LAMBDA acc, sec : donor_handler(flags, acc, sec),
                 [cfg |-> acceptor.cfg, error |-> EOK, ret |-> EOK, stop |-> FALSE,
                  objs |-> objs], donor.cfg))

\* The errors with which ini_config_merge hands out a result all the same.
Tolerated(flags, error) ==
    /\ error = "EEXIST"
    /\ \/ flags.msdetect /\ flags.mv2s # "error"
       \/ flags.ms # "error" /\ flags.mv2s = "detect"

HandedOut(flags, r) ==
    IF r.error = EOK \/ Tolerated(flags, r.error) THEN r
    ELSE [co |-> NULL, error |-> r.error, objs |-> r.objs - Objects(r.co)]

\* ini_config_merge, when memory suffices: ini_config_copy of the first, and the
\* second merged into the copy, which is destroyed if that fails.
ini_config_merge(flags, first, second, objs) ==
    HandedOut(flags, merge_configs(flags, second, first, objs + Objects(first)))

=============================================================================
