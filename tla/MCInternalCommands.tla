-------------------------- MODULE MCInternalCommands --------------------------
(* The instance of InternalCommands for TLC.                                  *)
EXTENDS InternalCommands, TLC

CONSTANTS ann, bob, first, second, kept, void

\* Ann places two orders; bob has one order and one that was cancelled.
CustomerOf == [o \in Orders |-> IF o \in {first, second} THEN ann ELSE bob]
=============================================================================
