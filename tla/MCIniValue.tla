----------------------------- MODULE MCIniValue -----------------------------
(* Instances of IniValue for TLC. *)
EXTENDS IniValue

\* All texts of words and blanks up to a length.
MCFoldTexts == UNION {[1..n -> {"x", " "}] : n \in 0..7}
MCTexts == {<<>>, <<"x", " ", "x", "x", " ", "x">>}
MCFileValues == {<<<<"x", " ">>, <<" ", "x", " ">>>>}
MCLineTexts == {<<"#", "a">>, <<"#", "b">>}
MCSymmetry == Permutations(CommentIds)

=============================================================================
