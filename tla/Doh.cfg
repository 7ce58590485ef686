SPECIFICATION ServerSpec
INVARIANTS
  AlwaysAResponse
  LoggedIsSent
PROPERTIES
  EveryRequestAnswered
CHECK_DEADLOCK FALSE
