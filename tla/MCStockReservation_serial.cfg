\* One message at a time; restarts keep the table.
SPECIFICATION FairSpec
CONSTANTS
  a = a
  b = b
  gone = gone
  twice = twice
  both = both
  last = last
  broken = broken
  k1 = k1
  k2 = k2
  Products = {a, b}
  NoProduct = gone
  Commands = {twice, both, last, broken}
  Basket <- Baskets
  InitialStock <- Seed
  Consumers = {k1}
  Development = FALSE
  MaxCopies = 2
  MaxFaults = 1
INVARIANTS
  StockConserved
PROPERTIES
  ImplementsLedger
  EveryCommandSettles
\* Every command may be settled.
CHECK_DEADLOCK FALSE
