----------------------------- MODULE JobStoreMC -----------------------------
(* Instances of JobStore for TLC: the symmetry of its connections. *)
EXTENDS JobStore, TLC

Connections == Permutations(Sessions)
=============================================================================
