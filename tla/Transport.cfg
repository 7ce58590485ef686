SPECIFICATION LiveSpec
CONSTANTS
  Queries = {1, 2, 3, 4}
  Sockets = {s1, s2, s3, s4}
  PoolSize = 2
  MaxSweep = 3
  Ttl = 1
  SweepGap = 1
  MaxCopies = 1
  NoSocket = nosocket
  NoReply = noreply
  Failure = failure
INVARIANTS
  TypeOK
  ExclusiveUse
  NoneWrittenToClosed
  NoSocketLeaks
  AnswersOwnQuery
PROPERTIES
  ImplementsResolution
  EverySettled
CHECK_DEADLOCK FALSE
