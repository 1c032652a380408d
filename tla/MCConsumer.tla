----------------------------- MODULE MCConsumer ----------------------------
(* Instances of Consumer for TLC; no symmetry, one run checks liveness.    *)
EXTENDS Consumer, TLC
=============================================================================
