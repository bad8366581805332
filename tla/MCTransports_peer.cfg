SPECIFICATION MCSpec
CONSTANTS
  Parts = {"websocket"}
  Conn = {c1, c2}
  None = None
  MaxMsg = 2
  Environments <- ClientLeaves
  Peer = {p1}
  MaxSources = 1
  Modes = {"regular"}
  MAX_LEN7 = 1
  MAXUINT16 = 3
  MAX_FRAGMENT_SIZE = 4
  Keys <- MCKeys
  Setups <- MCSetups
INVARIANT MessageHasPeer
CHECK_DEADLOCK FALSE
