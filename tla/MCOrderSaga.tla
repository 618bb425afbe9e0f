------------------------------ MODULE MCOrderSaga ------------------------------
(* Instances of OrderSaga for TLC.                                         *)
EXTENDS OrderSaga, TLC

\* Safety does not tell orders, instances, workers or copies apart.
Symmetry ==
  Permutations(Orders) \union Permutations(Instances)
    \union Permutations(Workers) \union Permutations(Sends) \union Permutations(Answers)
=============================================================================
