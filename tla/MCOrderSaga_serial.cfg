\* One message at a time; every command may be answered four times.
SPECIFICATION FairSpec
CONSTANTS
  Orders = {o1}
  Instances = {i1, i2}
  Workers = {w1}
  Sends = {s1, s2}
  Answers = {a1, a2}
  MaxFaults = 1
INVARIANTS
  OneInstancePerOrder
  OneOutcome
PROPERTIES
  EveryMessageSettles
\* Every message may be settled.
CHECK_DEADLOCK FALSE
