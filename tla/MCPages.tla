------------------------------- MODULE MCPages -----------------------------
(* Instances of Pages for TLC.                                             *)
EXTENDS Pages, TLC

Symmetry == Permutations(DocIds)
=============================================================================
