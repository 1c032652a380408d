---------------------------- MODULE MCDocuments ----------------------------
(* Instances of Documents for TLC.                                         *)
EXTENDS Documents, TLC

Symmetry == Permutations(Reqs) \cup Permutations(DocIds) \cup Permutations(Owners)
=============================================================================
