\* One query at a time, one order.
SPECIFICATION Spec
CONSTANTS
  c1 = c1
  Orders = {o1}
  Customers = {c1}
  Owner <- OneCustomer
  Readers = {r1}
  MaxVersion = 2
  ReadsFail = FALSE
SYMMETRY Symmetry
INVARIANT
  FoundOrderIsShown
