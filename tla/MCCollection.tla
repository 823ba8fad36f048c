---------------------------- MODULE MCCollection ----------------------------
(* Instances of Collection for TLC. *)
EXTENDS Collection

MCIndexes == {-2, -1, 0, 1, 2}
\* Of the names the callers use one begins another, and two differ in case.
MCPrefixOf == {<<"fo", "foo">>}
MCRespelled == {<<"foo", "FOO">>, <<"FOO", "foo">>}

Symmetry == Permutations(Ids)

=============================================================================
