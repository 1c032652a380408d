\* Two names, one of them too long for its tag, two requests in flight; faults
\* never stop.
CONSTANTS
  None = None
  Usernames = {u1, u2}
  LongNames = {u2}
  Teams = {t1}
  Reqs = {r1, r2}
SPECIFICATION FairSpec
INVARIANTS TypeOK OnePrimary RegisteredIsWhole
PROPERTIES DefaultSpec PrimaryKept RequestsEnd
