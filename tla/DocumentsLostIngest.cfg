\* A completion that stopped between the row and the event, and its retry.
CONSTANTS
  None = None
  Owners = {u1}
  Files = {f1}
  Names = {n1}
  DocIds = {d1}
  Reqs = {r1, r2}
  MaxParts = 2
  Counts = {2}
SPECIFICATION Spec
INVARIANTS CompletePublished
