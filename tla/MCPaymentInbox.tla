---------------------------- MODULE MCPaymentInbox ----------------------------
(* The instance of PaymentInbox for TLC, whose constants MCPaymentInbox.cfg gives. *)
EXTENDS PaymentInbox, TLC
=============================================================================
