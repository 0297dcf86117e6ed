-------------------------- MODULE MCPaymentChannel --------------------------
(* Instance of PaymentChannel for TLC.                                     *)
EXTENDS PaymentChannel

=============================================================================
