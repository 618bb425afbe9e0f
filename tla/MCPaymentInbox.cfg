\* Two copies at a time of two messages, each sent three times.
SPECIFICATION FairSpec
CONSTANTS
  Messages = {m1, m2}
  Consumers = {k1, k2}
  MaxCopies = 3
  MaxFaults = 2
INVARIANTS
  TypeOK
  RefusedHasTwin
PROPERTIES
  EveryCopyEnds
  ImplementsDelivery
\* Every copy may have ended.
CHECK_DEADLOCK FALSE
