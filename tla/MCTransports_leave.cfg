SPECIFICATION MCSpec
CONSTANTS
  Parts = {"longpolling"}
  Conn = {c1, c2}
  None = None
  MaxMsg = 2
  Environments <- ClientLeaves
  Peer = {p1}
  MaxSources = 1
  Modes = {"regular"}
  MAX_LEN7 = 1
  MAXUINT16 = 3
  MAX_FRAGMENT_SIZE = 4
  Keys <- MCKeys
  Setups <- MCSetups
INVARIANT ClosedRemoved
CHECK_DEADLOCK FALSE
