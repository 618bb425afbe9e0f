------------------------------ MODULE MCReadCache ------------------------------
(* Instances of ReadCache for TLC.                                         *)
EXTENDS ReadCache, TLC

CONSTANT c1

\* One customer has every order.
OneCustomer == [o \in Orders |-> c1]

Symmetry == Permutations(Orders) \union Permutations(Readers)
=============================================================================
