\* Two partitions, two events of one file.
CONSTANTS
  None = None
  Partitions = {p1, p2}
  Workers = {w1}
  Keys = {k1}
  Outcomes = {"ok", "error"}
  MaxLog = 1
CHECK_DEADLOCK FALSE
SPECIFICATION Spec
INVARIANTS KeyKeepsPartition
