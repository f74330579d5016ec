---------------------------- MODULE MCPaymentDesk ----------------------------
(***************************************************************************)
(* Model-checking PaymentDesk with the values of MCPayments.               *)
(***************************************************************************)
EXTENDS MCPayments, PaymentDesk

=============================================================================
