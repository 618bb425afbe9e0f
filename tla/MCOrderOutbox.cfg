\* Two OrderApi processes with overlapping batches, two failures each.
SPECIFICATION FairSpec
CONSTANTS
  Orders = {o1, o2}
  Relays = {r1, r2}
  Times = {1, 2}
  MaxFaults = 2
INVARIANTS
  TypeOK
  ProcessedWasSent
  SendsBounded
  BatchInOrder
PROPERTIES
  EventuallyProcessed
  ImplementsDelivery
\* Every request may be answered and every row marked.
CHECK_DEADLOCK FALSE
