----------------------------- MODULE MCIniFile -----------------------------
(* Instance of IniFile for TLC.                                            *)
EXTENDS IniFile

MCTexts == {<<>>, <<"a">>, <<"a", "euro", "a">>}
MCFiles == {Mark(b) \o Encoded(b, t) : b \in {"UTF32LE", NOBOM}, t \in {<<"a", "euro", "a">>}}
             \cup {<<>>}
MCTime == -1
MCMemTexts == {<<>>}
MCConfigs == {Encoded(NOBOM, <<"a", "euro", "a">>), <<97, 255>>}
MCBackups == <<"b1", "b2">>
\* One that is granted, of another group, and one that is refused.
MCAccesses == {NULL, [flags |-> {"MODE", "GID"}, mode |-> {"r"}, uid |-> 0, gid |-> 2],
                     [flags |-> {"MODE", "UID"}, mode |-> {"r"}, uid |-> 2, gid |-> 0]}
MCBackupAccesses == {NULL}
MCTemplates == {<<"x", "%", "%", "%", "d">>, <<"%", "%", "d">>}
MCModes == {{"w"}}
\* The device of the files, another one, and one that is no unsigned long.
MCDevices == {1, 2, 16}
=============================================================================
