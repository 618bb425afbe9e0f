\* Two overlapping queries, two orders of one customer.
SPECIFICATION Spec
CONSTANTS
  c1 = c1
  Orders = {o1, o2}
  Customers = {c1}
  Owner <- OneCustomer
  Readers = {r1, r2}
  MaxVersion = 2
  ReadsFail = TRUE
SYMMETRY Symmetry
INVARIANTS
  TypeOK
  AnswerWasCurrent
  CachedWasStored
