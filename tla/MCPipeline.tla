------------------------------ MODULE MCPipeline ---------------------------
(* Instances of Pipeline for TLC; no symmetry, the run checks liveness.    *)
EXTENDS Pipeline, TLC
=============================================================================
