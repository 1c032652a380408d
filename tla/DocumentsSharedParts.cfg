\* Two users upload the same file; one completes while the other resumes.
CONSTANTS
  None = None
  Owners = {u1, u2}
  Files = {f1}
  Names = {n1}
  DocIds = {d1, d2}
  Reqs = {r1, r2}
  MaxParts = 2
  Counts = {2}
SPECIFICATION Spec
INVARIANTS ResumeSound
