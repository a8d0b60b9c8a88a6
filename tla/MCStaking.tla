------------------------------ MODULE MCStaking ------------------------------
(* Model-checking instances of Staking.                                      *)
EXTENDS Staking
=============================================================================
