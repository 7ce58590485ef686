SPECIFICATION TcpSpec
CONSTANTS
  QLens <- MCQLens
  MinSize = 2
  MaxSize = 3
  MaxChunk = 12
  Overlap = TRUE
INVARIANTS
  QueriesIntact
CHECK_DEADLOCK FALSE
