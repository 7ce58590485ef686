SPECIFICATION Spec
CONSTANTS
  StickyEvents = {prepare, go}
  Events = {stop}
  NoEvent = none
  r1 = r1
  r2 = r2
  r3 = r3
  r4 = r4
  r5 = r5
  Requests <- MCRequests
  Packets <- MCPackets
  PacketOf <- MCPacketOf
  NormalName <- MCNormalName
  NoReply = noreply
  Failure = failure
  Nothing = nothing
INVARIANTS
  TypeOK
  LeaderInFlight
  RepliesToSameQuestion
  OneQueryPerQuestion
PROPERTIES
  EveryRequestReplied
  ImplementsResolution
CHECK_DEADLOCK FALSE
