SPECIFICATION MCSpec
CONSTANTS
  Parts = {"pool"}
  Room = 1
  Bandwidth = 1
  Setups <- MCSetups
  Conn = {c1, c2}
  Request = {r1, r2}
  None = None
  MinConns = 1
  MaxConns = 2
  MaxTimers = 2
  Modes = {"plain"}
  OwnerReleases = {TRUE}
INVARIANT NoFreedPoolUsed
CHECK_DEADLOCK FALSE
