------------------------- MODULE MCDisputeResolution -------------------------
(* Model-checking instance of DisputeResolution over SplitEscrow.            *)
EXTENDS DisputeResolution
=============================================================================
