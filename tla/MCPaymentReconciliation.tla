----------------------- MODULE MCPaymentReconciliation -----------------------
(* Model-checking instance of PaymentReconciliation.                         *)
EXTENDS PaymentReconciliation
=============================================================================
