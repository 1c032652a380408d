\* One user, one file cut into one part or two, three requests in flight.
CONSTANTS
  None = None
  Owners = {u1}
  Files = {f1}
  Names = {n1}
  DocIds = {d1, d2}
  Reqs = {r1, r2, r3}
  MaxParts = 2
  Counts = {1, 2}
SYMMETRY Symmetry
SPECIFICATION Spec
INVARIANTS
  TypeOK
  RowUnique
  IngestEventBacked
  DeleteAcked
  ResumeSound
PROPERTIES LifeSpec
