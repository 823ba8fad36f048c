----------------------------- MODULE MCIniParse -----------------------------
(* Instances of IniParse: the lines of the files and the flags of the calls. *)
EXTENDS IniParse

Line(lead, body, name) == [lead |-> lead, body |-> body, name |-> name]
Kvp(k) == Line("none", "kvp", k)
Sec(s) == Line("none", "section", s)
Config(level, ms, msdetect, mv1s, mv2s) ==
    [level |-> level, ms |-> ms, msdetect |-> msdetect, mv1s |-> mv1s, mv2s |-> mv2s,
     wrap |-> TRUE, forbidden |-> {}, ignore |-> FALSE, ccomments |-> TRUE,
     input |-> "collision"]

\* Files of two sections, one of them the default one, and of two keys; every
\* combination of collision flags.
CollisionLines == {Sec("A"), Sec("default"), Kvp("k")}
CollisionConfigs ==
    {Config("any", ms, d, m1, m2) : ms \in {"merge", "error", "overwrite", "preserve"},
                                    d \in BOOLEAN, m1 \in Modes, m2 \in Modes}

\* Files of every kind of line, and the flags that tell the parser how to read
\* them.
SyntaxLines ==
    {Line("none", b, "k") : b \in {"comment", "open", "close", "bareclose", "kvp", "NOKEY", "LONGKEY",
                                   "NOCLOSESEC"}}
    \union {Line("space", b, "k") : b \in {"blank", "kvp"}}
    \union {Line("tab", "NOEQUAL", "k"), Sec("A")}
Syntax(level, wrap, forbidden, ignore, ccomments) ==
    [Config(level, "merge", FALSE, "allow", "allow") EXCEPT
         !.input = "syntax", !.wrap = wrap, !.forbidden = forbidden, !.ignore = ignore, !.ccomments = ccomments]
SyntaxConfigs ==
    {Syntax("none", TRUE, {}, FALSE, TRUE), Syntax("any", TRUE, {"space"}, TRUE, TRUE),
     Syntax("none", FALSE, {"space"}, TRUE, TRUE), Syntax("error", FALSE, {"tab"}, FALSE, FALSE),
     Syntax("none", TRUE, {}, TRUE, FALSE), Syntax("none", FALSE, {"tab"}, FALSE, TRUE)}

\* Every question is asked of the files it is about: collisions of files of up to
\* five lines, syntax of files of up to three lines with reads that fail.
MCConfigs == CollisionConfigs \union SyntaxConfigs
MCLines == [collision |-> CollisionLines, syntax |-> SyntaxLines]
MCMaxLines == [collision |-> 5, syntax |-> 3]
MCCanFail == [collision |-> FALSE, syntax |-> TRUE]
=============================================================================
