----------------------------- MODULE MCRefArray -----------------------------
(* Instances of RefArray for TLC. *)
EXTENDS RefArray

Symmetry == Permutations(Arrays) \cup Permutations(Elems)

=============================================================================
