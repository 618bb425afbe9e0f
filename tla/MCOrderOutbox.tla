---------------------------- MODULE MCOrderOutbox ----------------------------
(* The instance of OrderOutbox for TLC, whose constants MCOrderOutbox.cfg gives. *)
EXTENDS OrderOutbox, TLC
=============================================================================
