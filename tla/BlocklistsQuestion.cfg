SPECIFICATION Spec
CONSTANTS
  Requests = {r1}
  Commands = {c1}
  Timeout = 1
INVARIANTS
  BlockedRegardless
CHECK_DEADLOCK FALSE
