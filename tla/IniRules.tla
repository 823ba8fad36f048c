------------------------------ MODULE IniRules ------------------------------
(***************************************************************************)
(* Checking a configuration against a file of rules: the validators and    *)
(* the error object of ini/ini_configobj.c.                                *)
(*                                                                         *)
(* A configuration is the list of its sections, each with its name and its *)
(* list of attributes.  The rules are such an object too, of which the     *)
(* values matter: a rule has items [key, spelled, value], where spelled    *)
(* says whether the key is written in the letters the validator expects.   *)
(* A name in a rule is [name, same], where same says that it is written as *)
(* in the configuration; a regular expression is [good, empty, names,      *)
(* icase]: whether it compiles, whether it is the empty text, and what it  *)
(* matches, also without regard to case.  No allocation fails.             *)
(***************************************************************************)
EXTENDS Integers, Sequences, SequencesExt, FiniteSets, FiniteSetsExt

-----------------------------------------------------------------------------
(* struct ini_errobj: the messages and the current one, 0 for NULL.        *)

ini_errobj_create == [msgs |-> <<>>, cur |-> 0]
ini_errobj_add_msg(e, msg) ==
    [msgs |-> Append(e.msgs, msg), cur |-> IF e.msgs = <<>> THEN 1 ELSE e.cur]
ini_errobj_reset(e) == [e EXCEPT !.cur = Min({1, Len(e.msgs)})]
ini_errobj_get_msg(e) == e.msgs[e.cur]
ini_errobj_next(e) == [e EXCEPT !.cur = IF @ = Len(e.msgs) THEN 0 ELSE @ + 1]
ini_errobj_no_more_msgs(e) == e.cur = 0

\* The loop that hands the messages of the rule's own object to the caller's.
HandedOn(errobj, rule, localerr) ==
    LET Step(p, i) == IF ini_errobj_no_more_msgs(p.from) THEN p
                      ELSE [to |-> ini_errobj_add_msg(p.to, <<rule, ini_errobj_get_msg(p.from)>>),
                            from |-> ini_errobj_next(p.from)]
    IN  FoldLeft(Step, [to |-> errobj, from |-> ini_errobj_reset(localerr)], localerr.msgs).to

-----------------------------------------------------------------------------
(* Reading the rule, by searches of which each goes on where the last one  *)
(* stopped if it is for the same key, and begins at the top otherwise      *)
(* (ini_get_config_valueobj; IniAccess is about it).                       *)

NoSearch == [key |-> "", next |-> 1]
Searched(items, key, cur) ==
    LET hits == {i \in (IF cur.key = key THEN cur.next ELSE 1)..Len(items) : items[i].key = key}
    IN  IF hits = {} THEN [at |-> 0, cur |-> NoSearch]
        ELSE [at |-> Min(hits), cur |-> [key |-> key, next |-> Min(hits) + 1]]

\* Values are counted by their spelling and then searched without regard to it.
Counted(items, key) == Cardinality({i \in DOMAIN items : items[i].key = key /\ items[i].spelled})
Collected(items, key, cur) ==
    LET Step(c, n) == LET found == Searched(items, key, c.cur)
                      IN  [vals |-> Append(c.vals, items[found.at].value), cur |-> found.cur]
    IN  FoldLeft(Step, [vals |-> <<>>, cur |-> cur], [n \in 1..Counted(items, key) |-> n])

-----------------------------------------------------------------------------
(* The validators: what they return and the messages they add.             *)

Verdict(ret, msgs) == [ret |-> ret, err |-> FoldLeft(ini_errobj_add_msg, ini_errobj_create, msgs)]

is_allowed_section(tested, allowed, allowed_re, case_insensitive) ==
    \/ \E i \in DOMAIN allowed :
          allowed[i].name = tested /\ (case_insensitive \/ allowed[i].same)
    \/ \E i \in DOMAIN allowed_re :
          tested \in IF case_insensitive THEN allowed_re[i].icase ELSE allowed_re[i].names

ini_allowed_sections(items, cur, config) ==
    LET setting == Searched(items, "case_insensitive", cur)
        case_insensitive == setting.at # 0 /\ items[setting.at].value
        names == Collected(items, "section", setting.cur)
        regexes == Collected(items, "section_re", names.cur)
        forbidden == SelectSeq(config, LAMBDA s : ~is_allowed_section(s.name, names.vals,
                                                       regexes.vals, case_insensitive))
    IN  CASE names.vals \o regexes.vals = <<>> -> Verdict("EOK", <<<<"no sections">>>>)
          [] \E i \in DOMAIN regexes.vals : ~regexes.vals[i].good ->
                Verdict("EINVAL", <<<<"bad regex">>>>)
          [] OTHER -> Verdict("EOK", [i \in DOMAIN forbidden |-> <<"section", forbidden[i].name>>])

check_if_allowed(attr, allowed) == attr \in Range(allowed)

ini_allowed_options(items, config) ==
    LET found == Searched(items, "section_re", NoSearch)
        regex == items[found.at].value
        allowed == Collected(items, "option", found.cur)
        Forbidden(s) == SelectSeq(s.attributes, LAMBDA a : ~check_if_allowed(a, allowed.vals))
        Messages(msgs, s) ==
            IF s.name \notin regex.names THEN msgs
            ELSE msgs \o [i \in DOMAIN Forbidden(s) |-> <<"attribute", s.name, Forbidden(s)[i]>>]
    IN  CASE found.at = 0 -> Verdict("EINVAL", <<<<"no section_re">>>>)
          [] found.at # 0 /\ regex.empty -> Verdict("EINVAL", <<<<"no section_re">>>>)
          [] found.at # 0 /\ ~regex.empty /\ ~regex.good -> Verdict("EINVAL", <<<<"bad regex">>>>)
          [] OTHER -> Verdict("EOK", FoldLeft(Messages, <<>>, config))

ini_dummy_noerror == Verdict("EOK", <<>>)
ini_dummy_error == Verdict("EOK", <<<<"Error">>>>)

Internal == {"ini_dummy_noerror", "ini_dummy_error", "ini_allowed_options", "ini_allowed_sections"}

\* 0 for a validator of the library; of the application's the first of that
\* name, where one without a name is passed over.
get_validator(name, validators) ==
    IF name \in Internal THEN {0}
    ELSE {i \in DOMAIN validators : /\ validators[i].name = name
                                    /\ \A j \in 1..(i - 1) : validators[j].name # name}

\* What a validator of the application returns and says is its own affair.
Run(name, v, validators, items, cur, config) ==
    CASE v # 0 -> Verdict(validators[v].ret, validators[v].msgs)
      [] v = 0 /\ name = "ini_dummy_noerror" -> ini_dummy_noerror
      [] v = 0 /\ name = "ini_dummy_error" -> ini_dummy_error
      [] v = 0 /\ name = "ini_allowed_options" -> ini_allowed_options(items, config)
      [] v = 0 /\ name = "ini_allowed_sections" -> ini_allowed_sections(items, cur, config)

-----------------------------------------------------------------------------
Reported(errobj, rule, verdict) ==
    HandedOn(IF verdict.ret = "EOK" THEN errobj
             ELSE ini_errobj_add_msg(errobj, <<rule, <<"returned", verdict.ret>>>>),
             rule, verdict.err)

\* One rule; a section that is no rule is passed over.
Checked(errobj, rule, config, validators) ==
    LET found == Searched(rule.items, "validator", NoSearch)
        vname == rule.items[found.at].value
        vfunc == get_validator(vname, validators)
    IN  CASE ~rule.isrule -> errobj
          [] rule.isrule /\ found.at = 0 ->
                ini_errobj_add_msg(errobj, <<rule.name, <<"no validator">>>>)
          [] rule.isrule /\ found.at # 0 /\ vfunc = {} ->
                ini_errobj_add_msg(errobj, <<rule.name, <<"unknown validator">>>>)
          [] OTHER -> Reported(errobj, rule.name,
                               Run(vname, Min(vfunc), validators, rule.items, found.cur, config))

ini_rules_check(rules, config, validators) ==
    FoldLeft(LAMBDA e, rule : Checked(e, rule, config, validators), ini_errobj_create, rules)

-----------------------------------------------------------------------------
(* What the rules say of a configuration, read without searches.           *)

ValuesFor(rule, key) ==
    {rule.items[i].value : i \in {j \in DOMAIN rule.items : rule.items[j].key = key}}
FirstFor(rule, key) ==
    rule.items[Min({i \in DOMAIN rule.items : rule.items[i].key = key})].value

Allows(rule, name) ==
    LET icase == ValuesFor(rule, "case_insensitive") # {} /\ FirstFor(rule, "case_insensitive")
    IN  \/ \E v \in ValuesFor(rule, "section") : v.name = name /\ (v.same \/ icase)
        \/ \E v \in ValuesFor(rule, "section_re") : name \in IF icase THEN v.icase ELSE v.names
SectionsSaid(rule, config) ==
    CASE ValuesFor(rule, "section") \cup ValuesFor(rule, "section_re") = {} -> {<<"no sections">>}
      [] \E v \in ValuesFor(rule, "section_re") : ~v.good ->
            {<<"bad regex">>, <<"returned", "EINVAL">>}
      [] OTHER -> {<<"section", s.name>> : s \in {c \in Range(config) : ~Allows(rule, c.name)}}
OptionsSaid(rule, config) ==
    CASE ValuesFor(rule, "section_re") = {} -> {<<"no section_re">>, <<"returned", "EINVAL">>}
      [] OTHER ->
            LET regex == FirstFor(rule, "section_re")
                bad(s) == Range(s.attributes) \ ValuesFor(rule, "option")
            IN  CASE regex.empty -> {<<"no section_re">>, <<"returned", "EINVAL">>}
                  [] ~regex.empty /\ ~regex.good -> {<<"bad regex">>, <<"returned", "EINVAL">>}
                  [] OTHER -> UNION {{<<"attribute", s.name, a>> : a \in bad(s)} :
                                       s \in {c \in Range(config) : c.name \in regex.names}}
ApplicationSaid(v) == Range(v.msgs) \cup (IF v.ret = "EOK" THEN {} ELSE {<<"returned", v.ret>>})
Said(rule, config, validators) ==
    CASE ValuesFor(rule, "validator") = {} -> {<<"no validator">>}
      [] OTHER ->
            LET name == FirstFor(rule, "validator")
                own == {i \in DOMAIN validators : validators[i].name = name}
            IN  CASE name = "ini_dummy_noerror" -> {}
                  [] name = "ini_dummy_error" -> {<<"Error">>}
                  [] name = "ini_allowed_sections" -> SectionsSaid(rule, config)
                  [] name = "ini_allowed_options" -> OptionsSaid(rule, config)
                  [] name \notin Internal /\ own = {} -> {<<"unknown validator">>}
                  [] OTHER -> ApplicationSaid(validators[Min(own)])

(* ini_rules_check of a configuration, as its lists show it, has a message *)
(* for each section and attribute that a rule does not allow and for each  *)
(* rule that is wrong, and no other: whatever the order of the items in a  *)
(* rule, whose values are read by searches that share one position.  (For  *)
(* keys in the letters expected: otherwise values are counted by one and   *)
(* searched by another notion of equality.)                                *)
RulesMean(rules, listed, config, validators) ==
    Range(ini_rules_check(rules, listed, validators).msgs) =
        UNION {{<<r.name, m>> : m \in Said(r, config, validators)} :
                 r \in {q \in Range(rules) : q.isrule}}
=============================================================================
