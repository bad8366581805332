SPECIFICATION MCSpec
CONSTANTS
  Parts = {"services", "http", "filter"}
  Conn = {c1}
  Requests <- MCRequests
  Autostart = {"sel"}
  DenyCross = {"web"}
  MaxRequests = 3
  MaxMoves = 1
  NULL = NULL
  MAX_DEPTH = 4
  Chars <- MCChars
  MaxBuffer = 2
  MaxText = 6
  Streams <- MCStreams
  HEADER_BLOCK_SIZE = 17
  MAX_HEADERS_SIZE = 40
  CONTENT_BLOCK_SIZE = 3
  OUTBUF_SIZE = 2
  Pieces = {1, 2, 5}
  Setups <- MCSetups
INVARIANTS TypesOK OwnersKept RequestsKept AdmissionKept MessagesWhole FilterExact
PROPERTIES ExchangesEnd
CHECK_DEADLOCK FALSE
