\* Nothing fails, but the name is longer than 56 characters.
CONSTANTS
  None = None
  Usernames = {u1}
  LongNames = {u1}
  Teams = {t1}
  Reqs = {r1}
SPECIFICATION ReliableSpec
INVARIANTS UserHasTenant
