\* One partition, two workers that take it from each other; faults come to an
\* end.
CONSTANTS
  None = None
  Partitions = {p1}
  Workers = {w1, w2}
  Keys = {k1}
  Outcomes = {"ok", "error"}
  MaxLog = 2
CHECK_DEADLOCK FALSE
SPECIFICATION FairSpec
INVARIANTS TypeOK AtLeastOnce InOrder NothingSkipped
PROPERTIES DeliverySpec EventuallySettled StopsAfterSignal
