---------------------------- MODULE MCSplitEscrow ----------------------------
(* Model-checking instances of SplitEscrow.                                  *)
EXTENDS SplitEscrow
=============================================================================
