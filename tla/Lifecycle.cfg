SPECIFICATION Spec
CONSTANTS
  TlsServers = {dot1}
  ClearServers = {dotct}
  PlainServers = {hcheck}
  Sockets = {c1, c2}
  Addrs = {a1, a2}
  PortReuse = FALSE
  MinConns = 2
  MaxConns = 10
  Breakpoint = 3
  Stresspoint = 2
  Averages = {70, 110}
  IsCloud = TRUE
  OneMin = 1
  SixMin = 3
  OneDay = 3
  MaxAttempts = 1
  MaxTimer = 3
  MaxLatency = 1
  FirstCerts = {2}
  Lifetime = 4
  MaxNow = 3
INVARIANTS
  TypeOK
  DrainLeavesNone
  RetriesInTime
CHECK_DEADLOCK FALSE
