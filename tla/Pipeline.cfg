CONSTANTS
  None = None
  Owners = {u1}
  Files = {f1}
  Names = {n1}
  DocIds = {d1}
  Reqs = {r1, r2}
  MaxParts = 2
  Counts = {2}
  Partitions = {p1}
  Workers = {w1}
  Outcomes = {"error"}
  MaxLog = 2
CHECK_DEADLOCK FALSE
SPECIFICATION ReliablePipelineSpec
INVARIANTS HeldEventIsTrue CompletePublished
PROPERTIES MergedIsSettled DeletedIsSettled RequestsEnd
