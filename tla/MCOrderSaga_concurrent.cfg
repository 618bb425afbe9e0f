\* Two messages at a time, one order whose message is sent twice.
SPECIFICATION Spec
CONSTANTS
  Orders = {o1}
  Instances = {i1, i2}
  Workers = {w1, w2}
  Sends = {s1, s2}
  Answers = {a1}
  MaxFaults = 1
SYMMETRY Symmetry
INVARIANTS
  TypeOK
  CommandsHaveInstance
  OneEffectPerMessage
  LostCheckIsTraceable
\* Every message may be settled.
CHECK_DEADLOCK FALSE
