-------------------------- MODULE MCCorrespondence --------------------------
(* TLC instances of Correspondence. *)
EXTENDS Correspondence, TLC

Symmetry == Permutations(Profiles) \cup Permutations(Dealers)
=============================================================================
