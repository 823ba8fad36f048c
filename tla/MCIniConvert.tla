---------------------------- MODULE MCIniConvert ----------------------------
(* Instances of IniConvert for TLC. *)
EXTENDS IniConvert

TextsOver(S, n) == UNION {[1..k -> S] : k \in 0..n}
\* Texts for numbers, lists of strings, lists of numbers, bytes and Booleans.
MCTexts ==
    TextsOver({"0", "1", "-", " ", "."}, 4) \cup TextsOver({"a", " ", ","}, 4)
        \cup TextsOver({"1", "-", ","}, 5) \cup TextsOver({"'", "a", "1"}, 4)
        \cup {<<"y", "e">>, <<"y", "e", "s">>, <<"n", "o">>, <<"n", "o", "t">>, <<"t", "r", "u", "e">>}
MCSeparators == {{","}, {",", " "}}
MCLists == LET S == {<<>>, <<"a">>, <<"a", " ", "b">>, <<" ">>} IN S \X S \X S \cup S \X S \cup {<<s>> : s \in S}
MCDoubles == -17..17
MCBytes == {<<>>} \cup {<<16 * h + l>> : h, l \in {0, 1, 10}} \cup {<<1, 161>>}
MCNumbers == {<<-4>>, <<1, -1>>, <<0, -2, 1>>, <<3, 0, 2>>}

=============================================================================
