SPECIFICATION MCSpec
CONSTANTS
  Parts = {"connection", "pool"}
  Room = 1
  Bandwidth = 1
  Setups <- MCSetups
  Conn = {c1, c2}
  Request = {r1, r2}
  None = None
  MinConns = 1
  MaxConns = 1
  MaxTimers = 1
  Modes = {"plain", "tls", "tls_fails"}
  OwnerReleases = {TRUE, FALSE}
INVARIANTS TypesOK DataKept NoLostWakeup CloseIsClean PoolKept
PROPERTIES ConnectionsProgress
CHECK_DEADLOCK FALSE
