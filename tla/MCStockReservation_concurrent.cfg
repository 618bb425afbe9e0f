\* Two messages at a time, in Development: restarts seed the table.
SPECIFICATION Spec
CONSTANTS
  a = a
  b = b
  gone = gone
  twice = twice
  both = both
  last = last
  broken = broken
  k1 = k1
  k2 = k2
  Products = {a, b}
  NoProduct = gone
  Commands = {twice, both}
  Basket <- Baskets
  InitialStock <- Seed
  Consumers = {k1, k2}
  Development = TRUE
  MaxCopies = 2
  MaxFaults = 1
SYMMETRY Symmetry
INVARIANTS
  TypeOK
  StockNeverNegative
  StockCoversUngranted
  NoCommandLost
  GrantedIsDemand
\* Every command may be settled.
CHECK_DEADLOCK FALSE
