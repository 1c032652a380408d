\* Two logins, two requests in flight; an access token lives for two units of
\* time, a refresh token for three.
CONSTANTS
  None = None
  Sessions = {j1, j2}
  Reqs = {r1, r2}
  AccessTTL = 2
  RefreshTTL = 3
SPECIFICATION FairSpec
INVARIANTS TypeOK LogoutFinal AccessBounded HonouredUntilExpiry
PROPERTIES SessionsEnd
