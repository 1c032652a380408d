\* Two users with the same file of two parts, two requests in flight.
CONSTANTS
  None = None
  Owners = {u1, u2}
  Files = {f1}
  Names = {n1}
  DocIds = {d1, d2}
  Reqs = {r1, r2}
  MaxParts = 2
  Counts = {2}
SYMMETRY Symmetry
SPECIFICATION Spec
INVARIANTS
  MergedBacked
  IngestEventBacked
  PartsExplained
PROPERTIES OnlyOwnerWrites
