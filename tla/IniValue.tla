------------------------------ MODULE IniValue ------------------------------
(***************************************************************************)
(* Value objects and their comments: ini/ini_valueobj.c, ini_comment.c and *)
(* ini_serialize.c.                                                        *)
(*                                                                         *)
(* A value keeps its text and the lines it is folded into.  A comment is   *)
(* an array of lines; it belongs to the value that points to it, or to the *)
(* caller that made it or took it out of a value.  Two values stand for a  *)
(* configuration, in the order they are saved in.                          *)
(***************************************************************************)
EXTENDS IniFold, TLC

CONSTANTS
    NULL,
    Slots,       \* places for values, numbered in the order of the file
    FoldTexts,   \* texts to fold
    Texts,       \* texts for a new value or a new text
    FileValues,  \* the lines that a value in a file may have
    KeyLens,     \* lengths of keys
    Boundaries,  \* folding boundaries of values
    MaxBoundary, \* bound: boundaries that FoldTexts are folded at
    LineTexts,   \* lines of a comment
    CommentIds,  \* addresses of comments
    MaxLines,    \* bound: lines of a comment
    MaxCalls,    \* bound: calls after the first value is there
    CanFail      \* whether allocating may fail

ASSUME ValueAssumption ==
    /\ Slots = 1..Cardinality(Slots) /\ NULL \notin CommentIds
    /\ KeyLens \subseteq Nat /\ Boundaries \subseteq Nat /\ MaxLines \in Nat /\ MaxCalls \in Nat
    /\ MaxBoundary \in Nat /\ \A t \in FoldTexts : t \in Seq(ToSet(t))

VARIABLES
    values,    \* the value objects, by slot
    comments,  \* the comments that are allocated, by address
    held,      \* the comments that the caller owns
    fault,     \* the memory error a call ran into, or NULL
    calls      \* how many calls there have been

vars == <<values, comments, held, fault, calls>>

EmptyLine == <<>>
Unset == <<"unset">>    \* a line whose buffer was never filled: it prints as nothing
-----------------------------------------------------------------------------
(* Comments.                                                               *)

Modes == {"BUILD", "APPEND", "INSERT", "REPLACE", "REMOVE", "CLEAR"}
NewComment(lines) == [lines |-> lines, state |-> IF lines = <<>> THEN "EMPTY" ELSE "READ"]
Without(f, x) == [y \in DOMAIN f \ {x} |-> f[y]]
With(f, x, v) == [y \in DOMAIN f \cup {x} |-> IF y = x THEN v ELSE f[y]]

\* A line past the end of the comment: the gap is filled with lines that have no
\* buffer, as the empty string goes to the line that is being inserted.
Inserted(lines, idx, line) ==
    IF idx > Len(lines) THEN Append(lines \o [k \in 1..(idx - Len(lines)) |-> Unset], line)
    ELSE SubSeq(lines, 1, idx) \o <<line>> \o SubSeq(lines, idx + 1, Len(lines))

Refuses(c, mode, idx) ==
    \/ mode = "BUILD" /\ c.state \notin {"EMPTY", "READ"}
    \/ mode \in {"REPLACE", "CLEAR"} /\ idx > Len(c.lines)
    \/ mode = "REMOVE" /\ idx >= Len(c.lines)

\* ref_array_replace takes the index after the last: an unused slot is freed.
Overruns(c, mode, idx) == mode \in {"REPLACE", "CLEAR"} /\ idx = Len(c.lines)

\* ini_comment_modify, when it succeeds.  The state is always READ after it.
Modified(c, mode, idx, line) ==
    [state |-> "READ",
     lines |-> CASE mode \in {"BUILD", "APPEND"} -> Append(c.lines, line)
                 [] mode = "INSERT" -> Inserted(c.lines, idx, line)
                 [] mode \in {"REPLACE", "CLEAR"} ->
                       [c.lines EXCEPT ![idx + 1] = IF mode = "CLEAR" THEN EmptyLine ELSE line]
                 [] mode = "REMOVE" -> RemoveAt(c.lines, idx + 1)]

\* Inserting far out may fail after some of the gap is filled.
Failed(c, mode, idx) ==
    {c} \cup (IF mode = "INSERT"
              THEN {[c EXCEPT !.lines = @ \o [k \in 1..n |-> Unset]] : n \in 1..(idx - Len(c.lines))}
              ELSE {})

Calling == fault = NULL /\ calls < MaxCalls /\ calls' = calls + 1

ini_comment_modify(id, mode, idx, line) ==
    /\ Calling /\ id \in held
    /\ IF id \notin DOMAIN comments THEN fault' = "dangling" /\ UNCHANGED comments
       ELSE LET c == comments[id]
            IN  /\ ~Refuses(c, mode, idx) /\ Len(Modified(c, "INSERT", idx, line).lines) <= MaxLines
                /\ \/ /\ Overruns(c, mode, idx) /\ fault' = "slot" /\ UNCHANGED comments
                   \/ /\ ~Overruns(c, mode, idx) /\ UNCHANGED fault
                      /\ \/ comments' = [comments EXCEPT ![id] = Modified(c, mode, idx, line)]
                         \/ /\ CanFail
                            /\ \E d \in Failed(c, mode, idx) : comments' = [comments EXCEPT ![id] = d]
    /\ UNCHANGED <<values, held>>

ini_comment_build(id, line) == ini_comment_modify(id, "BUILD", 0, line)
ini_comment_append(id, line) == ini_comment_modify(id, "APPEND", 0, line)
ini_comment_insert(id, idx, line) == ini_comment_modify(id, "INSERT", idx, line)
ini_comment_remove(id, idx) == ini_comment_modify(id, "REMOVE", idx, EmptyLine)
ini_comment_clear(id, idx) == ini_comment_modify(id, "CLEAR", idx, EmptyLine)
ini_comment_replace(id, idx, line) == ini_comment_modify(id, "REPLACE", idx, line)

ini_comment_reset(id) ==
    /\ Calling /\ id \in held \cap DOMAIN comments /\ comments[id].state # "EMPTY"
    /\ comments' = [comments EXCEPT ![id] = [lines |-> <<>>, state |-> "CHANGED"]]
    /\ UNCHANGED <<values, held, fault>>

ini_comment_swap(id, i, j) ==
    /\ Calling /\ id \in held \cap DOMAIN comments /\ i # j
    /\ LET c == comments[id]
       IN  /\ {i, j} \subseteq 0..(Len(c.lines) - 1)
           /\ comments' = [comments EXCEPT ![id] = [state |-> "CHANGED",
                              lines |-> [c.lines EXCEPT ![i + 1] = c.lines[j + 1], ![j + 1] = c.lines[i + 1]]]]
    /\ UNCHANGED <<values, held, fault>>

\* ini_comment_create and ini_comment_construct
ini_comment_construct(id, lines) ==
    /\ Calling /\ id \notin DOMAIN comments \cup held
    /\ comments' = With(comments, id, NewComment(lines)) /\ held' = held \cup {id}
    /\ UNCHANGED <<values, fault>>

\* The caller frees a comment that it owns.
ini_comment_destroy(id) ==
    /\ Calling /\ id \in held
    /\ IF id \in DOMAIN comments THEN comments' = Without(comments, id) /\ UNCHANGED fault
       ELSE fault' = "freed twice" /\ UNCHANGED comments
    /\ held' = held \ {id}
    /\ UNCHANGED values

\* ini_comment_add: copies of all lines of one go to the end of the other, or of
\* some of them; its state stays.
Joined(c, d, n) == [c EXCEPT !.lines = @ \o SubSeq(d.lines, 1, n)]
-----------------------------------------------------------------------------
(* Values.                                                                 *)

\* A value whose lines are what the text folds into.
Folded(text, keylen, boundary, ic) ==
    [text |-> text, lines |-> Fold(text, keylen, boundary), keylen |-> keylen,
     boundary |-> boundary, ic |-> ic, whole |-> TRUE]

\* Folding fails: there are fewer lines, and the last may have no length.
Broken(v, text, keylen, boundary) ==
    LET all == Fold(text, keylen, boundary)
        part == {SubSeq(all, 1, n) : n \in 0..(Len(all) - 1)} \cup
                {Append(SubSeq(all, 1, n), EmptyLine) : n \in 0..(Len(all) - 1)}
    IN  {[v EXCEPT !.text = text, !.keylen = keylen, !.boundary = boundary,
                   !.lines = p, !.whole = FALSE] : p \in part}

Live == DOMAIN values
\* A comment that the caller may pass on, or none.
Passed == (held \cap DOMAIN comments) \cup {NULL}

\* The parser has the lines of a value, and passes the arrays and the comment on.
\* If unfolding fails the object is destroyed before its text is set.
value_create_from_refarray(s, lines, keylen, boundary, ic) ==
    /\ Calling /\ s \notin Live
    /\ \/ /\ values' = With(values, s,
                [text |-> Unfold(TrimLast(lines)), lines |-> TrimLast(lines), keylen |-> keylen,
                 boundary |-> boundary, ic |-> ic, whole |-> TRUE])
          /\ held' = held \ {ic} /\ UNCHANGED fault
       \/ CanFail /\ fault' = "unset buffer" /\ UNCHANGED <<values, held>>
    /\ UNCHANGED comments

\* Once the object is allocated a failure destroys it, the comment with it, and
\* the caller, which is told of the failure, still has the comment.
value_create_new(s, text, keylen, boundary, ic) ==
    /\ Calling /\ s \notin Live
    /\ \/ /\ values' = With(values, s, Folded(text, keylen, boundary, ic))
          /\ held' = held \ {ic} /\ UNCHANGED comments
       \/ CanFail /\ comments' = Without(comments, ic) /\ UNCHANGED <<values, held>>
    /\ UNCHANGED fault

\* Mutant: the copy has the comment of the original.
Copied_shared(v, ids) == {[value |-> Folded(v.text, v.keylen, v.boundary, v.ic), comments |-> comments]}

\* The copy, which is folded anew, and a copy of the comment.
Copied(v, ids) ==
    IF v.ic = NULL THEN {[value |-> Folded(v.text, v.keylen, v.boundary, NULL), comments |-> comments]}
    ELSE {[value |-> Folded(v.text, v.keylen, v.boundary, id),
           comments |-> With(comments, id, comments[v.ic])] : id \in ids}

value_copy(from, to) ==
    /\ Calling /\ from \in Live /\ to \notin Live
    /\ \E c \in Copied(values[from], CommentIds \ (DOMAIN comments \cup held)) :
          values' = With(values, to, c.value) /\ comments' = c.comments
    /\ UNCHANGED <<held, fault>>

\* Mutant: the lines are left as they were.
Refolded_not(s, text, keylen, boundary) ==
    values' = [values EXCEPT ![s] = [@ EXCEPT !.text = text, !.keylen = keylen, !.boundary = boundary]]

Refolded(s, text, keylen, boundary) ==
    \/ values' = [values EXCEPT ![s] = Folded(text, keylen, boundary, @.ic)]
    \/ /\ CanFail
       /\ \E v \in Broken(values[s], text, keylen, boundary) : values' = [values EXCEPT ![s] = v]

value_set_keylen(s, keylen) ==
    /\ Calling /\ s \in Live
    /\ Refolded(s, values[s].text, keylen, values[s].boundary)
    /\ UNCHANGED <<comments, held, fault>>

\* Also ini_config_set_wrap, for every value of a configuration in turn.
value_set_boundary(s, boundary) ==
    /\ Calling /\ s \in Live
    /\ Refolded(s, values[s].text, values[s].keylen, boundary)
    /\ UNCHANGED <<comments, held, fault>>

value_update(s, text, boundary) ==
    /\ Calling /\ s \in Live
    /\ Refolded(s, text, values[s].keylen, boundary)
    /\ UNCHANGED <<comments, held, fault>>

value_extract_comment(s) ==
    /\ Calling /\ s \in Live /\ values[s].ic # NULL
    /\ held' = held \cup {values[s].ic} /\ values' = [values EXCEPT ![s].ic = NULL]
    /\ UNCHANGED <<comments, fault>>

value_put_comment(s, ic) ==
    /\ Calling /\ s \in Live
    /\ comments' = Without(comments, values[s].ic)
    /\ values' = [values EXCEPT ![s].ic = ic] /\ held' = held \ {ic}
    /\ UNCHANGED fault

\* The comment of the donor is added to the comment of the value, or copied.
value_merge_comment(donor, s) ==
    /\ Calling /\ {donor, s} \subseteq Live /\ donor # s /\ values[donor].ic # NULL
    /\ LET d == comments[values[donor].ic]
       IN  IF values[s].ic # NULL
           THEN /\ Len(comments[values[s].ic].lines) + Len(d.lines) <= MaxLines /\ UNCHANGED values
                /\ \E n \in (IF CanFail THEN 0..Len(d.lines) ELSE {Len(d.lines)}) :
                      comments' = [comments EXCEPT ![values[s].ic] = Joined(@, d, n)]
           ELSE \E id \in CommentIds \ (DOMAIN comments \cup held) :
                   comments' = With(comments, id, d) /\ values' = [values EXCEPT ![s].ic = id]
    /\ UNCHANGED <<held, fault>>

value_destroy(s) ==
    /\ Calling /\ s \in Live
    /\ comments' = Without(comments, values[s].ic) /\ values' = Without(values, s)
    /\ UNCHANGED <<held, fault>>
-----------------------------------------------------------------------------
(* Saving: the lines that go to the file.                                  *)

KeyOf(s) == <<"key", ToString(s)>>

ini_comment_serialize(ic) ==
    IF ic = NULL THEN <<>>
    ELSE [k \in DOMAIN comments[ic].lines |->
             LET l == comments[ic].lines[k] IN IF l = Unset THEN EmptyLine ELSE l]

\* The comment, the key with the first line, the other lines; at least one line.
value_serialize(s) ==
    ini_comment_serialize(values[s].ic) \o
       (IF values[s].lines = <<>> THEN <<KeyOf(s) \o <<"=", Space>>>>
        ELSE [k \in DOMAIN values[s].lines |-> IF k = 1 THEN KeyOf(s) \o <<"=", Space>> \o values[s].lines[1]
                                                ELSE values[s].lines[k]])

ini_config_serialize ==
    FlattenSeq([s \in Slots |-> IF s \in Live THEN value_serialize(s) ELSE <<>>])
-----------------------------------------------------------------------------
Init ==
    /\ values = <<>> /\ comments = <<>> /\ held = {} /\ fault = NULL /\ calls = 0

LineLists == {<<>>} \cup {<<l>> : l \in LineTexts}
Next ==
    \/ \E id \in CommentIds : \/ \E l \in LineLists : ini_comment_construct(id, l)
                              \/ ini_comment_destroy(id) \/ ini_comment_reset(id)
    \/ \E id \in CommentIds, l \in LineTexts :
          \/ ini_comment_build(id, l) \/ ini_comment_append(id, l)
          \/ \E idx \in 0..MaxLines : ini_comment_insert(id, idx, l) \/ ini_comment_replace(id, idx, l)
    \/ \E id \in CommentIds, idx \in 0..MaxLines : ini_comment_remove(id, idx) \/ ini_comment_clear(id, idx)
    \/ \E id \in CommentIds : ini_comment_swap(id, 0, 1)
    \/ \E s \in Slots, k \in KeyLens, b \in Boundaries, ic \in Passed :
          \/ \E t \in Texts : value_create_new(s, t, k, b, ic)
          \/ \E l \in FileValues : value_create_from_refarray(s, l, k, b, ic)
    \/ \E s, t \in Slots : value_copy(s, t) \/ value_merge_comment(s, t)
    \/ \E s \in Slots, k \in KeyLens : value_set_keylen(s, k)
    \/ \E s \in Slots, b \in Boundaries : \/ value_set_boundary(s, b)
                                          \/ \E t \in Texts : value_update(s, t, b)
    \/ \E s \in Slots : \/ value_extract_comment(s) \/ value_destroy(s)
                        \/ \E ic \in Passed : value_put_comment(s, ic)

Spec == Init /\ [][Next]_vars
-----------------------------------------------------------------------------
(* What must hold.                                                         *)

\* The key leaves no room: the value begins on a line of its own.
Added(text, lines) == lines # <<>> /\ lines[1] = <<>> /\ text # <<>> /\ ~Starts(text, Blank)

\* Folding loses nothing and adds one blank at most, when the key leaves no room
\* (value_fold, save_portion).  Every line but the first begins with a blank, so
\* that the parser goes on with the value.
FoldMeans ==
    calls = 0 => \A t \in FoldTexts, k \in KeyLens, b \in 0..MaxBoundary :
        LET lines == Fold(t, k, b)
        IN  /\ Unfold(lines) = IF Added(t, lines) THEN <<Space>> \o t ELSE t
            /\ \A n \in 2..Len(lines) : Starts(lines[n], Blank)

\* A line ends within the boundary, the first with the key and the equal sign
\* before it, unless there is no place in it to fold at: the blank that begins a
\* line is none (value_fold).
FoldFits ==
    calls = 0 => \A t \in FoldTexts, k \in KeyLens, b \in 1..MaxBoundary :
        LET lines == Fold(t, k, b)
        IN  \A n \in DOMAIN lines :
               \/ Len(lines[n]) + (IF n = 1 THEN k + INI_FOLDING_OVERHEAD ELSE 0) <= b
               \/ \A i \in 2..Len(lines[n]) : lines[n][i] \notin Blank

\* What the parser reads from the saved lines: the values in their order, a blank
\* or empty line and a comment ending the one before.
IsKey(l) == Starts(l, {"key"})
KeyLines(out) == {n \in DOMAIN out : IsKey(out[n])}
Continued(out, n) ==
    n..Max({m \in n..Len(out) : \A k \in (n + 1)..m : Starts(out[k], Blank)})
ReadBack(out, n) ==
    LET ls == [k \in Continued(out, n) |-> IF k = n THEN SubSeq(out[k], 4, Len(out[k])) ELSE out[k]]
    IN  [key |-> SubSeq(out[n], 1, 2), text |-> Reread([k \in 1..Cardinality(DOMAIN ls) |-> ls[n + k - 1]])]

\* A configuration that was saved is read back with the same values and their
\* comments before them, whatever was done to them (value_serialize,
\* ini_config_serialize, and the parser): provided the texts begin and end
\* without a blank, the keys leave room on their lines, and no call failed while
\* it folded a value, which leaves half of its lines.
Clean(v) == v.whole /\ ~Starts(v.text, Blank) /\ ~Starts(Reverse(v.text), Blank) /\ ~Added(v.text, v.lines)
SavedReads ==
    (fault = NULL /\ \A s \in Live : Clean(values[s])) =>
        LET out == ini_config_serialize
            keys == SetToSortSeq(KeyLines(out), <)
        IN  /\ Len(keys) = Cardinality(Live)
            /\ \A s \in Live : \E n \in DOMAIN keys :
                  /\ ReadBack(out, keys[n]) = [key |-> KeyOf(s), text |-> values[s].text]
                  /\ values[s].ic # NULL =>
                        LET c == comments[values[s].ic].lines
                        IN  \A k \in DOMAIN c :
                               out[keys[n] - Len(c) + k - 1] = IF c[k] = Unset THEN EmptyLine ELSE c[k]

\* A comment has one owner, and one that a value has is allocated; none is lost
\* (value_create_new, value_copy, value_put_comment, value_extract_comment,
\* value_merge_comment).
Owned(s) == IF s \in Live /\ values[s].ic # NULL THEN {values[s].ic} ELSE {}
OneOwner ==
    fault = NULL =>
        /\ \A s, t \in Slots : s # t => Owned(s) \cap Owned(t) = {}
        /\ \A s \in Slots : Owned(s) \subseteq DOMAIN comments \ held
        /\ DOMAIN comments \subseteq held \cup UNION {Owned(s) : s \in Slots}

(* A folded value is the value, and keeps to the boundary: value_fold.     *)
FoldSound == FoldMeans /\ FoldFits
=============================================================================
