SPECIFICATION Spec
CONSTANTS
  Queries = {1, 2}
  Sockets = {s1, s2}
  PoolSize = 1
  MaxSweep = 1
  Ttl = 1
  SweepGap = 1
  MaxCopies = 1
  NoSocket = nosocket
  NoReply = noreply
  Failure = failure
INVARIANTS
  RefusedTcpTimesOut
CHECK_DEADLOCK FALSE
