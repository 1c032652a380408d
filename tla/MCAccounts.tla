----------------------------- MODULE MCAccounts ----------------------------
(* Instances of Accounts for TLC; no symmetry, the runs check liveness.    *)
EXTENDS Accounts, TLC
=============================================================================
