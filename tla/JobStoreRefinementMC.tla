------------------------ MODULE JobStoreRefinementMC ------------------------
(* Instances of JobStoreRefinement for TLC. *)
EXTENDS JobStoreRefinement, TLC

Connections == Permutations(Sessions)
=============================================================================
