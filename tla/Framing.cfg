SPECIFICATION TcpSpec
CONSTANTS
  QLens <- MCQLens
  MinSize = 2
  MaxSize = 3
  MaxChunk = 12
  Overlap = FALSE
INVARIANTS
  TcpTypeOK
  QueriesIntact
  NothingLost
PROPERTY AllAnswered
CHECK_DEADLOCK FALSE
