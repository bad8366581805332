SPECIFICATION MCSpec
CONSTANTS
  Parts = {"peers"}
  Conn = {c1}
  None = None
  MaxMsg = 1
  Environments <- ClientLeaves
  Peer = {p1, p2}
  MaxSources = 2
  Modes = {"slow"}
  MAX_LEN7 = 1
  MAXUINT16 = 3
  MAX_FRAGMENT_SIZE = 4
  Keys <- MCKeys
  Setups <- MCSetups
INVARIANT NoFreedPeerUsed
CHECK_DEADLOCK FALSE
