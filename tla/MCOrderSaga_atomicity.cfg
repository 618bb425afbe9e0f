\* One order, sent once, and one failure.
SPECIFICATION FairSpec
CONSTANTS
  Orders = {o1}
  Instances = {i1}
  Workers = {w1}
  Sends = {s1}
  Answers = {a1}
  MaxFaults = 1
PROPERTIES
  StateChangeIsPublished
CHECK_DEADLOCK FALSE
