SPECIFICATION Spec
CONSTANTS
  Requests = {r1, r2}
  Ttl = 1
  CacheTtl = 1
  MaxTime = 3
  None = none
  Blocked = blocked
  Failed = failed
INVARIANTS
  NoImmortalAnswers
  VerdictsAreOwn
CHECK_DEADLOCK FALSE
