------------------------------ MODULE IniParse ------------------------------
(***************************************************************************)
(* The INI parser of ini/ini_parse.c: the loop of parser_run, which takes  *)
(* one action at a time from a queue (read a line, inspect it, finish the  *)
(* file, handle an error), and ini_config_parse around it.                 *)
(*                                                                         *)
(* A line is what the parser tells apart: the blank characters it starts   *)
(* with, what follows them, and the name of its key or section.  A value   *)
(* is known by the number of the line its key is on, so a configuration    *)
(* says of each value which line it came from, which lines were folded     *)
(* into it and which comment lines it carries.  Names that the collection  *)
(* library holds equal (it ignores case) are one name.                     *)
(***************************************************************************)
EXTENDS IniSections, FiniteSets

CONSTANTS Configs,    \* the error levels and flags a caller may pass, and which
                      \* kind of input is read with them
          Lines,      \* Lines[k]: the lines a file of the kind k may consist of
          Default,    \* INI_DEFAULT_SECTION
          NULL,
          MaxLines,   \* bound: MaxLines[k], lines in such a file
          CanFail     \* CanFail[k]: whether reading or allocating may fail

VARIABLES file,   \* the lines read so far
          ended,  \* what getline() met after them: "no", "eof" or "failure"
          flags,  \* error_level, collision_flags and parse_flags
          po,     \* struct parser_obj
          co,     \* struct ini_cfgobj: cfg, last_comment, error_list, count
          result  \* what ini_config_parse returned, or RUNNING

vars == <<file, ended, flags, po, co, result>>

RUNNING == "running"
SectionErrors == {"NOCLOSESEC", "NOSECTION", "SECTIONLONG"}
Bodies == {"comment", "slashes", "oneline", "open", "close", "bareclose", "blank",
           "section", "kvp", "NOKEY", "NOEQUAL", "LONGKEY"} \union SectionErrors

ASSUME LinesAssumption ==
    \A k \in DOMAIN Lines : \A l \in Lines[k] :
        /\ l.lead \in {"none", "space", "tab", "special"}
        /\ l.body \in Bodies
        /\ l.name \notin {SectionKey, NULL}
        /\ l.body = "blank" => l.lead # "none"

ASSUME ConfigsAssumption ==
    \A c \in Configs : /\ c.level \in {"any", "none", "error"}
                       /\ c.ms \in {"merge", "error", "overwrite", "preserve"}
                       /\ {c.mv1s, c.mv2s} \subseteq Modes
                       /\ {c.msdetect, c.wrap, c.ignore, c.ccomments} \subseteq BOOLEAN
                       /\ c.forbidden \subseteq {"space", "tab"}
                       /\ c.input \in DOMAIN Lines

ASSUME BoundsAssumption ==
    MaxLines \in [DOMAIN Lines -> Nat] /\ CanFail \in [DOMAIN Lines -> BOOLEAN]

-----------------------------------------------------------------------------
(* Lines.                                                                  *)

\* A line whose end closes a comment that is open.  The end of comment alone at
\* the start of a line ("bareclose") is not taken for one.
Closes(l) == l.body \in {"close", "oneline"}

\* check_for_comment, outside of a comment.
StartsComment(l) ==
    /\ l.lead = "none"
    /\ \/ l.body = "comment"
       \/ flags.ccomments /\ l.body \in {"slashes", "oneline", "open"}

check_for_comment(l, inside) == inside \/ StartsComment(l)

\* *inside_comment after the line.
StillInside(l, inside) ==
    IF inside THEN ~Closes(l) ELSE StartsComment(l) /\ l.body = "open"

\* The blank characters that is_allowed_spaces refuses, and their error.
is_allowed_spaces(l) == l.lead \notin flags.forbidden \union {"special"}
SpaceError == [space |-> "SPACE", tab |-> "TAB", special |-> "SPECIAL"]

\* What handle_kvp finds wrong with a line; no equal sign unless it says so.
KvpError(l) == IF l.body \in {"NOKEY", "LONGKEY"} THEN l.body ELSE "NOEQUAL"

-----------------------------------------------------------------------------
(* Values and sections.                                                    *)

\* Errors that a step adds to the error list.
Logged(cond, line, code) == IF cond THEN <<[line |-> line, error |-> code]>> ELSE <<>>

\* The state of the parser inside a handler: the parser object, the error list
\* and the error that ends the handler.
Step(p, errors, error) == [po |-> p, errors |-> errors, error |-> error]
Current == Step(po, co.error_list, EOK)

\* The element of a set of one: its value is computed once.
The(S) == CHOOSE x \in S : TRUE

\* Mutant: the duplicate is reported at the line that was read last.
complete_value_processing_line(st) ==
    LET p == st.po
        item == [key |-> p.key.key, line |-> p.key.line, folds |-> p.key.folds,
                 comment |-> p.ic]
        r == Offer(IF p.sec = NULL THEN NewSection(Default) ELSE p.sec, item,
                   flags.mv1s)
    IN  Step([p EXCEPT !.sec = r.sec,
                       !.ic = <<>>,
                       !.key = IF r.error = EOK THEN NULL ELSE @,
                       !.merge_error = @ \/ (r.logged /\ r.error = EOK)],
             st.errors \o Logged(r.logged, Len(file), "DUPKEY"),
             r.error)

\* complete_value_processing for the pending key: the value goes into the open
\* section, the default one if none is open, with the comment read before it.
complete_value_processing(st) ==
    LET p == st.po
        item == [key |-> p.key.key, line |-> p.key.line, folds |-> p.key.folds,
                 comment |-> p.ic]
        r == Offer(IF p.sec = NULL THEN NewSection(Default) ELSE p.sec, item,
                   flags.mv1s)
    IN  Step([p EXCEPT !.sec = r.sec,
                       !.ic = <<>>,
                       !.key = IF r.error = EOK THEN NULL ELSE @,
                       !.merge_error = @ \/ (r.logged /\ r.error = EOK)],
             st.errors \o Logged(r.logged, p.key.line, "DUPKEY"),
             r.error)

\* The previous value, if any, is complete.
CompletePending(st) == IF st.po.key = NULL THEN st ELSE complete_value_processing(st)

\* Mutant: values of two sections are merged by the flags for one section.
merge_section_mv1s(st, m) ==
    LET Taken(acc, r) ==
            Step([acc.po EXCEPT !.top[m] = r.sec,
                                !.merge_error = @ \/ (r.logged /\ r.error = EOK)],
                 acc.errors \o Logged(r.logged, acc.po.seclinenum, "DUPKEYSEC"),
                 r.error)
        Take(acc, item) ==
            The({IF a.error # EOK \/ item.key = SectionKey THEN a
                 ELSE The({Taken(a, r) : r \in {Offer(a.po.top[m], item, flags.mv1s)}})
                 : a \in {acc}})
        done == FoldLeft(Take, st, st.po.sec.items)
    IN  The({IF d.error # EOK THEN d ELSE [d EXCEPT !.po.sec = NULL] : d \in {done}})

\* merge_section: the values of the open section are offered, in order, to the
\* section of the same name, until one is refused.
merge_section(st, m) ==
    LET Taken(acc, r) ==
            Step([acc.po EXCEPT !.top[m] = r.sec,
                                !.merge_error = @ \/ (r.logged /\ r.error = EOK)],
                 acc.errors \o Logged(r.logged, acc.po.seclinenum, "DUPKEYSEC"),
                 r.error)
        Take(acc, item) ==
            The({IF a.error # EOK \/ item.key = SectionKey THEN a
                 ELSE The({Taken(a, r) : r \in {Offer(a.po.top[m], item, flags.mv2s)}})
                 : a \in {acc}})
        done == FoldLeft(Take, st, st.po.sec.items)
    IN  The({IF d.error # EOK THEN d ELSE [d EXCEPT !.po.sec = NULL] : d \in {done}})

\* empty_section, for the section of the same name.
empty_section(st, m) ==
    [st EXCEPT !.po.top[m] = Emptied(@), !.error = EmptyError(st.po.top[m])]

\* check_section_collision: the places of the sections with the same name.
Collisions(p) == {i \in DOMAIN p.top : p.top[i].name = p.sec.name}

\* INI_MS_DETECT: the duplicate section is logged.
DetectSection(st) ==
    IF ~flags.msdetect THEN st
    ELSE Step([st.po EXCEPT !.merge_error = TRUE],
              st.errors \o Logged(TRUE, st.po.seclinenum, "DUPSECTION"), EOK)

\* The collision modes of parser_save_section, against section m.
SaveDuplicate(st, m) ==
    CASE flags.ms = "error" ->
            Step(st.po, st.errors \o Logged(TRUE, st.po.seclinenum, "DUPSECTION"), "EEXIST")
      [] flags.ms = "preserve" -> DetectSection([st EXCEPT !.po.sec = NULL])
      [] flags.ms = "merge" -> merge_section(DetectSection(st), m)
      [] flags.ms = "overwrite" ->
            LET emptied == empty_section(st, m)
            IN  IF emptied.error # EOK THEN emptied
                ELSE merge_section(DetectSection(emptied), m)

parser_save_section(st) ==
    IF st.po.sec = NULL THEN st
    ELSE IF Collisions(st.po) # {} THEN SaveDuplicate(st, Min(Collisions(st.po)))
    ELSE [st EXCEPT !.po.top = Append(@, st.po.sec), !.po.sec = NULL]

\* A step is done only when the one before it succeeded.
Then(st, Op(_)) == IF st.error = EOK THEN Op(st) ELSE st

-----------------------------------------------------------------------------
(* The parser's actions.                                                   *)

linenum == Len(file) + (IF ended = "no" THEN 0 ELSE 1)
line == Last(file)

Init ==
    /\ file = <<>> /\ ended = "no" /\ result = RUNNING
    /\ flags \in Configs
    /\ po = [action |-> "READ", top |-> <<>>, sec |-> NULL, ic |-> <<>>, key |-> NULL,
             last_error |-> NULL, inside_comment |-> FALSE, seclinenum |-> 0,
             merge_error |-> FALSE, ret |-> EOK]
    /\ co = [cfg |-> <<>>, last_comment |-> <<>>, error_list |-> <<>>, count |-> 0]

\* A collision that the flags ask to be told of and not to be stopped by: the
\* configuration is kept although ini_config_parse returns the error.
Detected(error) ==
    /\ error = "EEXIST"
    /\ \/ flags.msdetect /\ "error" \notin {flags.ms, flags.mv1s, flags.mv2s}
       \/ flags.mv1s = "detect" /\ "error" \notin {flags.ms, flags.mv2s}
       \/ flags.mv2s = "detect" /\ "error" \notin {flags.ms, flags.mv1s}

\* ini_config_parse after parser_run: the new configuration is taken over, or
\* dropped with the parser object and the errors are counted.
Return(st, c) ==
    /\ po' = st.po
    /\ co' = IF st.error = EOK \/ Detected(st.error)
             THEN [c EXCEPT !.cfg = st.po.top]
             ELSE [c EXCEPT !.count = Len(c.error_list)]
    /\ result' = st.error
    /\ UNCHANGED <<file, ended, flags>>

\* The end of a handler: the next action is put on the queue, unless an error
\* ends the parsing.
FinishWith(st, c, action) ==
    \E end \in {st}, logged \in {[c EXCEPT !.error_list = st.errors]} :
        IF end.error # EOK THEN Return(end, logged)
        ELSE /\ po' = [end.po EXCEPT !.action = action]
             /\ co' = logged
             /\ UNCHANGED <<file, ended, flags, result>>

Finish(st, action) == FinishWith(st, co, action)

\* A malformed line: last_error is set and the error action follows.
Malformed(code) == Finish([Current EXCEPT !.po.last_error = code], "ERROR")

ReadLine ==
    /\ ended = "no" /\ Len(file) < MaxLines[flags.input]
    /\ \E l \in Lines[flags.input] : file' = Append(file, l)
    /\ po' = [po EXCEPT !.action = "INSPECT"]
    /\ UNCHANGED ended

\* Mutant: at the end of the file inside of a comment the parser reads on.
ReadEnd_loop ==
    /\ ended' \in {"eof"} \union IF CanFail[flags.input] THEN {"failure"} ELSE {}
    /\ ended # "no" => ended' = ended
    /\ po' = CASE ended' = "failure" -> [po EXCEPT !.action = "ERROR", !.last_error = "READ"]
               [] ended' = "eof" /\ po.inside_comment -> [po EXCEPT !.action = "READ"]
               [] OTHER -> [po EXCEPT !.action = "POST"]
    /\ UNCHANGED file

ReadEnd ==
    /\ ended' \in {"eof"} \union IF CanFail[flags.input] THEN {"failure"} ELSE {}
    /\ ended # "no" => ended' = ended
    /\ po' = CASE ended' = "failure" -> [po EXCEPT !.action = "ERROR", !.last_error = "READ"]
               [] ended' = "eof" /\ po.inside_comment ->
                     [po EXCEPT !.action = "ERROR", !.last_error = "BADCOMMENT"]
               [] OTHER -> [po EXCEPT !.action = "POST"]
    /\ UNCHANGED file

parser_read ==
    /\ result = RUNNING /\ po.action = "READ"
    /\ ReadLine \/ ReadEnd
    /\ UNCHANGED <<flags, co, result>>

AddComment(st) == [st EXCEPT !.po.ic = Append(@, Len(file))]

\* Mutant: the value before a comment is not completed.
handle_comment_pending(st) == Finish(AddComment(st), "READ")

handle_comment(st) == Finish(Then(CompletePending(st), AddComment), "READ")

NewKey(st) ==
    [st EXCEPT !.po.key = [key |-> line.name, line |-> Len(file), folds |-> <<>>]]

handle_kvp ==
    \/ line.body = "kvp" /\ Finish(Then(CompletePending(Current), NewKey), "READ")
    \/ /\ line.body # "kvp"
       /\ IF flags.ignore /\ KvpError(line) # "LONGKEY"
          THEN Finish(Current, "READ")
          ELSE Malformed(KvpError(line))

\* Lines that start with a blank: with wrapping on they continue a value.
handle_space ==
    \/ /\ flags.wrap /\ po.key # NULL
       /\ Finish([Current EXCEPT !.po.key.folds = Append(@, Len(file))], "READ")
    \/ /\ flags.wrap /\ po.key = NULL
       /\ IF line.body = "blank" THEN handle_comment(Current) ELSE Malformed("SPACE")
    \/ /\ ~flags.wrap
       /\ CASE line.body = "blank" -> handle_comment(Current)
            [] line.body # "blank" /\ ~is_allowed_spaces(line) ->
                  Malformed(SpaceError[line.lead])
            [] line.body # "blank" /\ is_allowed_spaces(line) -> handle_kvp

\* A new section is opened, and its special key completed at once.
OpenSection(st) ==
    complete_value_processing(
        [st EXCEPT !.po.sec = NewSection(line.name),
                   !.po.key = [key |-> SectionKey, line |-> Len(file), folds |-> <<>>],
                   !.po.seclinenum = Len(file)])

handle_section ==
    \/ line.body \in SectionErrors /\ Malformed(line.body)
    \/ /\ line.body = "section"
       /\ \E complete \in {CompletePending(Current)} :
             \E saved \in {Then(complete, parser_save_section)} :
                Finish(Then(saved, OpenSection), "READ")

parser_inspect ==
    /\ result = RUNNING /\ po.action = "INSPECT"
    /\ \/ /\ check_for_comment(line, po.inside_comment)
          /\ handle_comment([Current EXCEPT !.po.inside_comment = StillInside(line, @)])
       \/ /\ ~check_for_comment(line, po.inside_comment)
          /\ \/ line.lead # "none" /\ handle_space
             \/ line.lead = "none" /\ line.body \in {"section"} \union SectionErrors
                /\ handle_section
             \/ line.lead = "none" /\ line.body \notin {"section"} \union SectionErrors
                /\ handle_kvp

\* The comment at the end of the file goes to the configuration object, the
\* pending value and the open section are saved.
parser_post ==
    /\ result = RUNNING /\ po.action = "POST"
    /\ LET last == po.ic # <<>> /\ po.key = NULL
           c == IF last THEN [co EXCEPT !.last_comment = @ \o po.ic] ELSE co
           st == IF last THEN [Current EXCEPT !.po.ic = <<>>] ELSE Current
       IN  \E complete \in {CompletePending(st)} :
             FinishWith(Then(complete, parser_save_section), c, "DONE")

\* Whether the parser goes on after an error (no error is a warning).
GoesOn == flags.level = "none" /\ po.last_error \notin {"BADCOMMENT", "READ"}

\* The pending value is not completed when the parsing stops, and an error of
\* saving the section is ignored if duplicate sections are an error.
parser_error ==
    /\ result = RUNNING /\ po.action = "ERROR"
    /\ LET st == [Current EXCEPT !.errors = @ \o Logged(TRUE, linenum, po.last_error),
                                 !.po.ret = "EIO"]
           saved == parser_save_section(st)
           ignored == flags.ms = "error" /\ saved.error = "EEXIST"
       IN  IF GoesOn THEN Finish(st, "READ")
           ELSE Finish(IF ignored THEN [saved EXCEPT !.error = EOK] ELSE saved, "DONE")

\* The end of parser_run: a collision detected earlier is reported, unless there
\* was an error.
Done ==
    /\ result = RUNNING /\ po.action = "DONE"
    /\ LET ret == IF po.ret = EOK /\ po.merge_error THEN "EEXIST" ELSE po.ret
       IN  Return([Current EXCEPT !.error = ret], co)

\* An allocation of a handler fails: ENOMEM ends the parsing.
NoMemory ==
    /\ CanFail[flags.input] /\ result = RUNNING /\ po.action # "DONE"
    /\ Return([Current EXCEPT !.error = "ENOMEM"], co)

parser_run == parser_read \/ parser_inspect \/ parser_post \/ parser_error \/ Done

Next == parser_run \/ NoMemory

Spec == Init /\ [][Next]_vars

\* One thread runs the loop, which nothing blocks; no allocation has to fail.
FairSpec == Spec /\ WF_vars(parser_run)

-----------------------------------------------------------------------------
(* What a file means, read as a whole.                                     *)

Positions == DOMAIN file
Between(i, j) == (i + 1) .. (j - 1)

\* Line i is inside of a comment that an earlier line opened.
Inside(i) ==
    /\ flags.ccomments
    /\ \E j \in 1 .. i - 1 : /\ file[j].lead = "none" /\ file[j].body = "open"
                             /\ \A m \in Between(j, i) : ~Closes(file[m])

KeyLine(i) ==
    /\ file[i].body = "kvp"
    /\ file[i].lead = "none" \/ (~flags.wrap /\ is_allowed_spaces(file[i]))
    /\ ~Inside(i)

SectionLine(i) == file[i].lead = "none" /\ file[i].body = "section" /\ ~Inside(i)

\* A blank-led line that continues the value of a key: since the key, there was
\* no comment and no new key or section.
FoldOf(i, k) ==
    /\ flags.wrap /\ k < i /\ file[i].lead # "none" /\ KeyLine(k) /\ ~Inside(i)
    /\ \A m \in Between(k, i) :
          ~(StartsComment(file[m]) \/ KeyLine(m) \/ SectionLine(m) \/ Inside(m))
Folded(i) == \E k \in 1 .. i - 1 : FoldOf(i, k)

CommentLine(i) ==
    \/ StartsComment(file[i]) \/ Inside(i)
    \/ file[i].body = "blank" /\ ~Folded(i)

\* A comment line belongs to the next line that has a key or a section.
CommentOf(i, k) ==
    i < k /\ CommentLine(i) /\ \A m \in Between(i, k) : ~(KeyLine(m) \/ SectionLine(m))

\* Lines that are neither of these, and are not ignored either.
Ignorable(i) ==
    /\ flags.ignore
    /\ file[i].lead = "none" \/ (~flags.wrap /\ is_allowed_spaces(file[i]))
    /\ file[i].lead # "none" \/ file[i].body \notin SectionErrors
    /\ file[i].body # "LONGKEY"
MalformedLine(i) ==
    ~(Ignorable(i) \/ KeyLine(i) \/ SectionLine(i) \/ CommentLine(i) \/ Folded(i))

\* The section a line is in, by the line that opened it; 0 for the default one.
BlockOf(i) == Max({0} \union {j \in 1 .. i : SectionLine(j)})
Blocks == {BlockOf(i) : i \in {j \in Positions : KeyLine(j) \/ SectionLine(j)}}
BlockName(b) == IF b = 0 THEN Default ELSE file[b].name

SameKey(i, j) == KeyLine(i) /\ KeyLine(j) /\ file[i].name = file[j].name
SameSection(b, c) == BlockName(b) = BlockName(c)

\* The values for the same key in the same stretch of a section, before line i.
EarlierInBlock(i) == {j \in 1 .. i - 1 : SameKey(i, j) /\ BlockOf(i) = BlockOf(j)}
LaterInBlock(i) == {j \in i + 1 .. Len(file) : SameKey(i, j) /\ BlockOf(i) = BlockOf(j)}

\* The values for the same key in another stretch of the same section.
Elsewhere(i) == {j \in Positions : /\ SameKey(i, j) /\ BlockOf(i) # BlockOf(j)
                                   /\ SameSection(BlockOf(i), BlockOf(j))}

\* A value survives the collisions within its stretch, of stretches of the
\* section, and with values of other stretches.
SurvivesOne(i) ==
    CASE flags.mv1s = "overwrite" -> LaterInBlock(i) = {}
      [] flags.mv1s \in {"preserve", "error"} -> EarlierInBlock(i) = {}
      [] flags.mv1s \in {"allow", "detect"} -> TRUE
SurvivesTwo(i) ==
    CASE flags.mv2s = "overwrite" -> \A j \in Elsewhere(i) : j < i
      [] flags.mv2s \in {"preserve", "error"} -> \A j \in Elsewhere(i) : j > i
      [] flags.mv2s \in {"allow", "detect"} -> TRUE
BlockSurvives(b) ==
    CASE flags.ms = "overwrite" -> \A c \in Blocks : SameSection(b, c) => c <= b
      [] flags.ms = "preserve" -> \A c \in Blocks : SameSection(b, c) => c >= b
      [] flags.ms \in {"merge", "error"} -> TRUE
Survivors(name) ==
    {i \in Positions : /\ KeyLine(i) /\ BlockName(BlockOf(i)) = name
                       /\ BlockSurvives(BlockOf(i)) /\ SurvivesOne(i)
                       /\ flags.ms = "merge" => SurvivesTwo(i)}

\* Modes that say what becomes of several values for a key in one stretch when
\* stretches are merged.
Unambiguous == flags.mv1s \notin {"allow", "detect"} \/ flags.mv2s \in {"allow", "detect"}

Installed == result = EOK \/ (result # RUNNING /\ Detected(result))
Values(sec) == SelectSeq(sec.items, LAMBDA i : i.key # SectionKey)
LinesOf(items) == {items[i].line : i \in DOMAIN items}
InOrder(seq, set) == Range(seq) = set /\ \A i, j \in DOMAIN seq : i < j => seq[i] < seq[j]
Reported(code) == {e.line : e \in {x \in Range(co.error_list) : x.error = code}}

-----------------------------------------------------------------------------
(* Properties.                                                             *)

\* A configuration that ini_config_parse hands out has one section for each name
\* in the file, and in each section exactly the values that the collision flags
\* let survive, judged by the whole file: complete_value_processing,
\* parser_save_section and merge_section get there by one line after the other.
ConfigMeansFile ==
    Installed =>
        /\ {co.cfg[i].name : i \in DOMAIN co.cfg} = {BlockName(b) : b \in Blocks}
        /\ Cardinality({BlockName(b) : b \in Blocks}) = Len(co.cfg)
        /\ Unambiguous =>
              \A i \in DOMAIN co.cfg :
                 LET values == Values(co.cfg[i])
                 IN  /\ LinesOf(values) = Survivors(co.cfg[i].name)
                     /\ Len(values) = Cardinality(LinesOf(values))

\* Every value carries the lines that continue it and the comment lines right
\* before it, each of them and in order, and the comment at the end of the file
\* is the configuration's last comment (po->ic, po->raw_lines and po->key live
\* across lines, and a value is completed only when a later line shows it ended).
NothingMisattached ==
    Installed =>
        /\ \A i \in DOMAIN co.cfg : \A v \in Range(co.cfg[i].items) :
              /\ InOrder(v.folds, {l \in Positions : FoldOf(l, v.line)})
              /\ InOrder(v.comment, {l \in Positions : CommentOf(l, v.line)})
        /\ InOrder(co.last_comment, {l \in Positions : CommentOf(l, Len(file) + 1)})

\* Every malformed line that was read is in the error list under its own number,
\* no other line is, and the parser has not read on after the first one unless
\* it was told to (parser_error).
MalformedReported ==
    result \notin {RUNNING, "ENOMEM"} =>
        /\ {i \in Positions : MalformedLine(i)} =
              {e.line : e \in {x \in Range(co.error_list) :
                    x.error \notin {"DUPKEY", "DUPKEYSEC", "DUPSECTION", "READ", "BADCOMMENT"}}}
        /\ flags.level # "none" =>
              \A i \in Positions : MalformedLine(i) => i = Len(file)

\* A detected duplicate is reported at the line of the second of the two keys or
\* sections and nowhere else, although it is found lines later, when the value
\* is completed or the section is saved.
DuplicatesReported ==
    Installed =>
        /\ flags.mv1s = "detect" =>
              Reported("DUPKEY") = {i \in Positions : KeyLine(i) /\ EarlierInBlock(i) # {}}
        /\ flags.msdetect =>
              Reported("DUPSECTION") = {b \in Blocks : \E c \in Blocks : c < b /\ SameSection(b, c)}
        /\ flags.mv2s = "detect" /\ flags.mv1s \notin {"allow", "detect"} /\ flags.ms = "merge" =>
              Reported("DUPKEYSEC") =
                 {BlockOf(i) : i \in {j \in Positions :
                       KeyLine(j) /\ \E e \in Elsewhere(j) : e < j}}

\* The parsing of a file comes to an end: at the end of the file inside of a
\* comment and after a read error, too, where the parser could read for ever.
ParseReturns == <>(result # RUNNING)

\* The error list says of each line what is wrong with it, once, whatever lines
\* later it is found out: parser_error, complete_value_processing and
\* parser_save_section.
ErrorsReported == MalformedReported /\ DuplicatesReported
=============================================================================
