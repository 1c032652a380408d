----------------------------- MODULE MCSessions ----------------------------
(* Instances of Sessions for TLC; no symmetry, the run checks liveness.    *)
EXTENDS Sessions, TLC
=============================================================================
