\* A completion that states fewer parts than the file was cut into.
CONSTANTS
  None = None
  Owners = {u1}
  Files = {f1}
  Names = {n1}
  DocIds = {d1}
  Reqs = {r1}
  MaxParts = 2
  Counts = {1, 2}
SPECIFICATION Spec
INVARIANTS MergedWhole
