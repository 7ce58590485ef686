SPECIFICATION Spec
CONSTANTS
  Requests = {r1}
  Commands = {c1, c2}
  Timeout = 2
INVARIANTS
  TypeOK
  NeverWedged
  OneConstruction
  CloakedAreBlocked
  CachedUnderOwnFilter
PROPERTIES
  WaitersReturn
CHECK_DEADLOCK FALSE
