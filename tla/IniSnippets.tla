---------------------------- MODULE IniSnippets ----------------------------
(***************************************************************************)
(* Which files of a directory are snippets, and in which order             *)
(* (ini/ini_augment.c).                                                    *)
(*                                                                         *)
(* A name is a number, in the order of strcoll().  A pattern is the set of *)
(* names that it matches, and whether it can be compiled.                  *)
(***************************************************************************)
EXTENDS Integers, Sequences, SequencesExt, FiniteSets

Dots == {0}     \* stands for the directory itself and its parent

\* A regular file, one that does not pass the check of its permissions,
\* something else than a file, and a file that was removed after its name was read.
Kinds == {"file", "denied", "other", "gone"}

\* The patterns that can be compiled; NULL and an empty list are the same.
ini_aug_regex_prepare(patterns) == SelectSeq(patterns, LAMBDA p : p.good)

\* With no pattern, be it that none could be compiled, every name matches.
ini_aug_match_name(name, regex) ==
    regex = <<>> \/ \E i \in DOMAIN regex : name \in regex[i].names

ini_check_file_perm(kind, check_perm) == kind = "file" \/ (kind = "denied" /\ ~check_perm)

\* Two neighbours change places if the first one is greater.
Swapped(list, j) ==
    IF list[j] > list[j + 1] THEN [list EXCEPT ![j] = list[j + 1], ![j + 1] = list[j]] ELSE list

\* One name after the other sinks through those before it to its place.
ini_aug_sort_list(list) ==
    LET Sink(l, k) == FoldLeft(Swapped, l, Reverse([j \in 1 .. k |-> j]))
    IN  FoldLeft(Sink, list, [k \in 1 .. Len(list) - 1 |-> k])
=============================================================================
