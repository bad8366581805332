SPECIFICATION MCSpec
CONSTANTS
  Parts = {"longpolling", "peers", "websocket"}
  Conn = {c1, c2, c3}
  None = None
  MaxMsg = 3
  Environments <- EveryEnvironment
  Peer = {p1, p2}
  MaxSources = 2
  Modes = {"regular", "early", "borrow", "again"}
  MAX_LEN7 = 1
  MAXUINT16 = 3
  MAX_FRAGMENT_SIZE = 4
  Keys <- MCKeys
  Setups <- MCSetups
INVARIANTS TypesOK MessagesKept PeersKept ClosingKept
PROPERTIES LogOnlyGrows IsMessageChannel TransportsProgress
CHECK_DEADLOCK FALSE
