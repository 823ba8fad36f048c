----------------------------- MODULE IniAugment -----------------------------
(***************************************************************************)
(* ini_config_augment (ini/ini_augment.c): the snippets in a directory are *)
(* listed and read in order, and those that can be used are merged, one    *)
(* after the other, into a copy of the base configuration.                 *)
(*                                                                         *)
(* A snippet is known by its number in the list.  What opening and parsing *)
(* it gives is part of the snippet (IniParse is about that); a value is    *)
(* known by the snippet it is from (0 for the base) and its place there.   *)
(***************************************************************************)
EXTENDS IniMerge, IniSnippets

CONSTANTS Bases,        \* configurations to augment
          Snippets,     \* snippet files
          FlagSets,     \* error level, sections and merge flags of a caller
          ALL,          \* no list of sections: any will do
          Dirs,         \* Dirs[f]: directories of a caller that passes flags f
          MaxLeak,      \* bound: values that an abandoned copy leaks
          CanFail       \* whether an allocation may fail

VARIABLES base,   \* base_cfg
          flags,  \* error_level, sections, merge_flags
          dir,    \* the directory, patterns and check_perm
          unread, \* the names in it that readdir has still to return
          ra_list, \* the names of the snippets
          files,  \* the snippets considered so far
          res,    \* res_cfg, then out_cfg
          error,  \* the variable of that name
          ra_err, \* what has a message in the list of errors
          ra_ok,  \* snippets that were merged, in order
          objs,   \* value objects that are allocated
          ret     \* what was returned, or "calling", "reading", "listed", "running"

listing == <<dir, unread, ra_list>>
vars == <<base, flags, listing, files, res, error, ra_err, ra_ok, objs, ret>>

\* A file that cannot be opened; one that ini_config_parse refuses, with errors
\* in the list or without; one in which it detected duplicates; a good one.
States == {"unreadable", "malformed", "refused", "detected", "good"}

\* The boundary of a new object; a caller may have set another one for the base.
INI_WRAP_BOUNDARY == 80

ASSUME SnippetsAssumption ==
    \A s \in Snippets : /\ s.state \in States /\ s.boundary = INI_WRAP_BOUNDARY
                        /\ s.cfg \in Seq([name : STRING, items : Seq(STRING)])
ASSUME FlagsAssumption ==
    \A f \in FlagSets : /\ f.level \in {"any", "none"}
                        /\ f.ms \in {"merge", "error", "overwrite", "preserve"}
                        /\ f.msdetect \in BOOLEAN /\ f.mv2s \in Modes
                        /\ f.sections = ALL \/ f.sections \subseteq STRING
ASSUME DirsAssumption ==
    \A f \in FlagSets : \A d \in Dirs[f] :
        /\ d.resolves \in BOOLEAN /\ d.check \in BOOLEAN /\ d.opens \in {EOK, "ENOENT", "ENOMEM"}
        /\ Dots \subseteq DOMAIN d.entries /\ \A n \in DOMAIN d.entries \ Dots : d.entries[n] \in Kinds
ASSUME AugmentBounds == MaxLeak \in Nat /\ CanFail \in BOOLEAN

-----------------------------------------------------------------------------
(* Configurations from files.                                              *)

Value(key, n, i, boundary) == [key |-> key, from |-> <<n, i>>, boundary |-> boundary]

\* What ini_config_parse makes of file n, with its values wrapped at the boundary.
Parsed(file, n) ==
    [boundary |-> file.boundary,
     last_comment |-> IF file.comment THEN <<n>> ELSE <<>>,
     cfg |-> [s \in DOMAIN file.cfg |->
                [name |-> file.cfg[s].name,
                 items |-> [i \in DOMAIN file.cfg[s].items |->
                              Value(file.cfg[s].items[i], n, i, file.boundary)]]]]

\* The object after ini_config_parse.  One that fails leaves it without sections,
\* though with the comment at the end of the file, which it got before that.
SnipCfg(s, n) ==
    IF s.state \in {"malformed", "refused"} THEN [Parsed(s, n) EXCEPT !.cfg = <<>>]
    ELSE Parsed(s, n)

ParseFailed(s) == s.state \in {"malformed", "refused", "detected"}

\* ini_aug_match_sec: every section has to match a pattern, if there are any.
Matched(cfg) == flags.sections = {} \/ \A i \in DOMAIN cfg : cfg[i].name \in flags.sections

-----------------------------------------------------------------------------
(* ini_aug_preprare: the list of snippets.                                 *)

Init ==
    /\ \E b \in Bases : base = Parsed(b, 0)
    /\ flags \in FlagSets
    /\ dir \in Dirs[flags] /\ unread = {} /\ ra_list = <<>>
    /\ files = <<>> /\ res = NULL /\ error = EOK
    /\ ra_err = {} /\ ra_ok = <<>>
    /\ objs = Objects(base)
    /\ ret = "calling"

\* Without a list the call returns, with nothing for the caller.
NoList(err) == ret' = err /\ ra_list' = <<>> /\ ra_err' = {} /\ UNCHANGED unread

BadPatterns == {<<"pattern", i>> : i \in {j \in DOMAIN dir.patterns : ~dir.patterns[j].good}}

\* A directory that cannot be opened makes an empty list.
ini_aug_construct_list ==
    \/ dir.opens = "ENOMEM" /\ NoList("ENOMEM")
    \/ /\ dir.opens = "ENOENT" /\ ret' = "listed"
       /\ ra_err' = BadPatterns \union {<<"dir">>} /\ UNCHANGED <<unread, ra_list>>
    \/ /\ dir.opens = EOK /\ ret' = "reading"
       /\ ra_err' = BadPatterns /\ unread' = DOMAIN dir.entries /\ UNCHANGED ra_list

\* So does a path that cannot be made absolute.
ini_aug_preprare ==
    /\ ret = "calling"
    /\ \/ /\ ~dir.resolves /\ ret' = "listed"
          /\ ra_err' = {<<"path">>} /\ UNCHANGED <<unread, ra_list>>
       \/ dir.resolves /\ ini_aug_construct_list
    /\ UNCHANGED <<base, flags, dir, files, res, error, ra_ok, objs>>

\* readdir returns the names in any order.
ReadEntry(name) ==
    /\ ret = "reading" /\ name \in unread
    /\ unread' = unread \ {name}
    /\ IF name \in Dots \/ ~ini_aug_match_name(name, ini_aug_regex_prepare(dir.patterns))
       THEN UNCHANGED <<ra_list, ra_err>>
       ELSE IF ini_check_file_perm(dir.entries[name], dir.check)
            THEN ra_list' = Append(ra_list, name) /\ UNCHANGED ra_err
            ELSE ra_err' = ra_err \union {<<"file", name>>} /\ UNCHANGED ra_list
    /\ UNCHANGED <<base, flags, dir, files, res, error, ra_ok, objs, ret>>

\* readdir fails, or there is no memory for the name.
ReadFails ==
    /\ CanFail /\ ret = "reading"
    /\ NoList("EIO")
    /\ UNCHANGED <<base, flags, dir, files, res, error, ra_ok, objs>>

ListDone ==
    /\ ret = "reading" /\ unread = {}
    /\ ra_list' = ini_aug_sort_list(ra_list) /\ ret' = "listed"
    /\ UNCHANGED <<base, flags, dir, unread, files, res, error, ra_err, ra_ok, objs>>

-----------------------------------------------------------------------------
(* ini_aug_apply.                                                          *)

\* The base is copied; a copy that fails leaks the values copied so far.
Begin ==
    /\ ret = "listed"
    /\ \/ /\ res' = base /\ objs' = objs + Objects(base) /\ ret' = "running"
       \/ /\ CanFail /\ res' = NULL /\ ret' = "ENOMEM"
          /\ \E leaked \in 0..MaxLeak : objs' = objs + leaked
    /\ UNCHANGED <<base, flags, listing, files, error, ra_err, ra_ok>>

\* The snippet is left out.
Skip(n, told, err) ==
    /\ ra_err' = IF told THEN ra_err \union {<<"snippet", n>>} ELSE ra_err
    /\ error' = err
    /\ UNCHANGED <<res, ra_ok, objs>>

\* The snippet's configuration was merged, and the old result is destroyed; if
\* it could not be merged the old result stays.  The snippet's object goes.
Merged(n, snip, told, m) ==
    LET done == m.error = EOK \/ Tolerated(flags, m.error)
    IN  /\ ra_err' = IF told \/ m.error # EOK THEN ra_err \union {<<"snippet", n>>} ELSE ra_err
        /\ error' = m.error
        /\ ra_ok' = IF done THEN Append(ra_ok, n) ELSE ra_ok
        /\ res' = IF done THEN m.co ELSE res
        /\ objs' = m.objs - Objects(snip) - (IF done THEN Objects(res) ELSE 0)

Merge(n, snip, told) ==
    Merged(n, snip, told, ini_config_merge(flags, res, snip, objs + Objects(snip)))

\* One round of the loop.  After a parse error the error is forgotten when the
\* errors could be copied, and an empty snippet is left out without a message.
Apply(s) ==
    LET n == Len(files) + 1
        snip == SnipCfg(s, n)
    IN  /\ ret = "running" /\ n <= Len(ra_list)
        /\ files' = Append(files, s)
        /\ \/ s.state = "unreadable" /\ Skip(n, TRUE, "ENOENT")
           \/ /\ ParseFailed(s) /\ flags.level = "any"
              /\ Skip(n, TRUE, IF s.state = "malformed" THEN EOK ELSE "EPARSE")
           \/ /\ s.state # "unreadable" /\ (ParseFailed(s) => flags.level = "none")
              /\ LET told == s.state = "malformed"
                 IN  IF flags.sections # ALL /\ (snip.cfg = <<>> \/ ~Matched(snip.cfg))
                     THEN Skip(n, told \/ snip.cfg # <<>>, EOK)
                     ELSE Merge(n, snip, told)
        /\ UNCHANGED <<base, flags, listing, ret>>

\* "goto err" for want of memory: the caller gets a copy of the base, or nothing
\* if that cannot be made either.  Half-made copies leak their values.
NoMemory ==
    /\ CanFail /\ ret = "running" /\ Len(files) < Len(ra_list)
    /\ ret' = "ENOMEM"
    /\ \E leaked \in 0..MaxLeak :
          \/ res' = base /\ objs' = objs - Objects(res) + leaked + Objects(base)
          \/ res' = NULL /\ objs' = objs - Objects(res) + leaked
    /\ UNCHANGED <<base, flags, listing, files, error, ra_err, ra_ok>>

\* The end of the list: what is returned is the error of the last snippet.
Return ==
    /\ ret = "running" /\ Len(files) = Len(ra_list)
    /\ ret' = error
    /\ UNCHANGED <<base, flags, listing, files, res, error, ra_err, ra_ok, objs>>

Next ==
    \/ ini_aug_preprare \/ ReadFails \/ ListDone
    \/ \E name \in unread : ReadEntry(name)
    \/ Begin \/ NoMemory \/ Return
    \/ \E s \in Snippets : Apply(s)

Spec == Init /\ [][Next]_vars

-----------------------------------------------------------------------------
(* What the snippets mean, all of them together.                           *)

\* The configurations that a result is made of: the base and the snippets.
Input(n) == IF n = 0 THEN base ELSE SnipCfg(files[n], n)
Used == {0} \union Range(ra_ok)
UsedBefore(n) == {m \in Used : m < n}

SectionsOf(co) == {co.cfg[s].name : s \in DOMAIN co.cfg}
Section(co, name) == co.cfg[CHOOSE s \in DOMAIN co.cfg : co.cfg[s].name = name]
ValuesOf(sec) == SelectSeq(sec.items, LAMBDA v : v.key # SectionKey)
KeysOf(co, name) == {v.key : v \in Range(ValuesOf(Section(co, name)))}
Having(name) == {m \in Used : name \in SectionsOf(Input(m))}

\* A section with two values for one key.
SelfDup(sec) == Cardinality({v.key : v \in Range(ValuesOf(sec))}) # Len(ValuesOf(sec))
HasSelfDup(co) == \E s \in DOMAIN co.cfg : SelfDup(co.cfg[s])

\* Files that are consistent with the merge flags, as the code assumes, and not
\* the mode in which a section is overwritten and its duplicates detected.
Consistent ==
    \/ \A n \in {0} \union DOMAIN files : ~HasSelfDup(Input(n))
    \/ flags.mv2s = "allow" \/ (flags.mv2s = "detect" /\ flags.ms # "overwrite")

\* Value v of input n is in the result, by the flags and all inputs.
Survives(v, n, name) ==
    CASE flags.ms = "overwrite" -> \A m \in Having(name) : m <= n
      [] flags.ms \in {"preserve", "error"} -> \A m \in Having(name) : m >= n
      [] flags.ms = "merge" ->
            CASE flags.mv2s = "overwrite" ->
                    \A m \in Having(name) : m > n => v.key \notin KeysOf(Input(m), name)
              [] flags.mv2s \in {"preserve", "error"} ->
                    \A m \in Having(name) : m < n => v.key \notin KeysOf(Input(m), name)
              [] flags.mv2s \in {"allow", "detect"} -> TRUE
Survivors(name) ==
    UNION {{v.from : v \in {w \in Range(ValuesOf(Section(Input(n), name))) : Survives(w, n, name)}}
             : n \in Having(name)}

\* Whether snippet n collides with what was merged before, in a way that the
\* flags say is to be reported.
Collides(n) ==
    LET shared(m) == SectionsOf(Input(n)) \cap SectionsOf(Input(m))
    IN  \E m \in UsedBefore(n) : \E name \in shared(m) :
          \/ flags.msdetect \/ flags.ms = "error"
          \/ /\ flags.ms = "merge" /\ flags.mv2s \in {"error", "detect"}
             /\ \/ KeysOf(Input(n), name) \cap KeysOf(Input(m), name) # {}
                \/ SelfDup(Section(Input(n), name))

\* INI_MS_OVERWRITE of a section that no line opened.
CannotEmpty(n) ==
    /\ flags.ms = "overwrite"
    /\ \E name \in SectionsOf(Input(n)) :
          /\ \E m \in UsedBefore(n) : name \in SectionsOf(Input(m))
          /\ LET first == Min({m \in UsedBefore(n) : name \in SectionsOf(Input(m))})
             IN  Named(Section(Input(first), name), SectionKey) = {}

Unusable(n) ==
    \/ files[n].state = "unreadable"
    \/ ParseFailed(files[n]) /\ flags.level = "any"
    \/ flags.sections # ALL /\ ~Matched(Input(n).cfg)
Empty(n) == flags.sections # ALL /\ Input(n).cfg = <<>>

-----------------------------------------------------------------------------
(* Properties.                                                             *)

\* The configuration after any number of snippets is what the merge flags say of
\* the base and the snippets listed as merged, taken together: sections, values,
\* the comments at the ends, one boundary for all values; a snippet that was not
\* merged, although it may have been refused halfway (donor_handler), has left
\* no trace, and after a lack of memory the caller has the base or nothing.
ResultMeansMerged ==
    /\ ret = "ENOMEM" => res \in {base, NULL}
    /\ res # NULL /\ ret # "ENOMEM" /\ Consistent =>
          /\ SectionsOf(res) = UNION {SectionsOf(Input(n)) : n \in Used}
          /\ Cardinality(SectionsOf(res)) = Len(res.cfg)
          /\ \A name \in SectionsOf(res) :
                LET values == ValuesOf(Section(res, name))
                IN  /\ {v.from : v \in Range(values)} = Survivors(name)
                    /\ Len(values) = Cardinality(Survivors(name))
          /\ ~(flags.ms = "error" /\ flags.msdetect) =>
                /\ res.last_comment =
                      SelectSeq(<<0>> \o ra_ok, LAMBDA n : Input(n).last_comment # <<>>)
                /\ \A s \in DOMAIN res.cfg : \A v \in Range(res.cfg[s].items) :
                      v.boundary = base.boundary

\* Every snippet is accounted for: the list of errors names exactly those that
\* could not be used and those that collide in a way the flags ask to be told
\* of, judged by all files before them; the others, and no more than the flags
\* tolerate of the colliding ones, are listed as merged.
SnippetsAccounted ==
    Consistent =>
      \A n \in DOMAIN files :
         LET merged == ~Unusable(n) /\ ~Empty(n) /\ ~CannotEmpty(n)
                          /\ (Collides(n) => Tolerated(flags, "EEXIST"))
         IN  /\ n \in Range(ra_ok) <=> merged
             /\ <<"snippet", n>> \in ra_err <=>
                   \/ Unusable(n) \/ files[n].state = "malformed"
                   \/ ~Empty(n) /\ (CannotEmpty(n) \/ Collides(n))

\* Between two snippets the value objects that exist are those of the caller's
\* base and of the result: each merge destroys the values it replaces or
\* refuses, the snippet's and those of the old result, once.  A lack of memory
\* may leak some, and never destroys one that is in use.
ValuesAccounted ==
    LET owned == Objects(base) + Objects(res)
    IN  objs >= owned /\ (ret # "ENOMEM" => objs = owned)

\* The snippets are all files of the directory that the patterns and the check
\* of permissions let through, each once and in the order of their names,
\* whatever order readdir has; every other file that matches has a message, and
\* so have the patterns that are wrong and the directory that cannot be read.
\* A list of patterns of which none can be compiled lets every file through.
Matches(name) ==
    \/ \A i \in DOMAIN dir.patterns : ~dir.patterns[i].good
    \/ \E i \in DOMAIN dir.patterns : dir.patterns[i].good /\ name \in dir.patterns[i].names
Usable(name) == dir.entries[name] = "file" \/ (~dir.check /\ dir.entries[name] = "denied")
Candidates == {name \in DOMAIN dir.entries \ Dots : Matches(name)}
ListMeans ==
    ret \in {"listed", "running"} =>
        LET opened == dir.resolves /\ dir.opens = EOK
        IN  /\ \A i, j \in DOMAIN ra_list : i < j => ra_list[i] < ra_list[j]
            /\ Range(ra_list) = IF opened THEN {n \in Candidates : Usable(n)} ELSE {}
            /\ \A n \in DOMAIN dir.entries :
                  <<"file", n>> \in ra_err <=> opened /\ n \in Candidates /\ ~Usable(n)
            /\ opened <=> {<<"path">>, <<"dir">>} \cap ra_err = {}
            /\ \A i \in DOMAIN dir.patterns :
                  <<"pattern", i>> \in ra_err <=> dir.resolves /\ ~dir.patterns[i].good

\* No file, no snippet and no value object is lost on the way: ini_aug_preprare
\* and ini_aug_apply.
NothingLost == ListMeans /\ SnippetsAccounted /\ ValuesAccounted
=============================================================================
