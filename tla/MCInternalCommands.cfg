\* One process, four failures: enough for a command to fail for good.
SPECIFICATION FairSpec
CONSTANTS
  ann = ann
  bob = bob
  first = first
  second = second
  kept = kept
  void = void
  Customers = {ann, bob}
  Orders = {first, second, kept, void}
  Seeded = {second, kept, void}
  Cancelled = {void}
  Customer <- CustomerOf
  Commands = {c1, c2}
  Jobs = {j1}
  Requests = {h1}
  MaxFaults = 4
INVARIANTS
  TypeOK
  PaidOrdersApproved
  ApprovedWasPaid
PROPERTIES
  OutcomeIsFinal
  EveryCommandProcessed
\* Every request may be answered and every command recorded.
CHECK_DEADLOCK FALSE
