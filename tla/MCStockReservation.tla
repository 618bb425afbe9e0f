-------------------------- MODULE MCStockReservation --------------------------
(* Instances of StockReservation for TLC.                                  *)
EXTENDS StockReservation, TLC

CONSTANTS a, b, gone, twice, both, last, broken, k1, k2

BasketOf ==
  (twice  :> <<[product |-> a, quantity |-> 1], [product |-> a, quantity |-> 1]>>) @@
  (both   :> <<[product |-> a, quantity |-> 1], [product |-> b, quantity |-> 1]>>) @@
  (last   :> <<[product |-> b, quantity |-> 1]>>) @@
  (broken :> <<[product |-> b, quantity |-> 1], [product |-> gone, quantity |-> 1]>>)

\* One unit short of the demand for either product.
Seed == (a :> 2) @@ (b :> 1)

Baskets == [c \in Commands |-> BasketOf[c]]

Symmetry == Permutations(Consumers)
=============================================================================
