-------------------------- MODULE MCCollectionRefs --------------------------
(* Instances of CollectionRefs for TLC. *)
EXTENDS CollectionRefs

Symmetry == Permutations(Cols)

=============================================================================
