SPECIFICATION Spec
CONSTANTS
  StickyEvents = {ready}
  Events = {stop}
  NoEvent = none
  Names = {eid}
  Waiters = {w1, w2}
  Listeners = {l1, l2}
  TimedListeners = {l2}
  Parcels = {p1, p2}
  NoParcel = np
  MaxPubs = 3
INVARIANTS
  TypeOK
  BusConsistent
  NoStrandedWaiter
  StickyAgreement
  ListenersRunOnce
CHECK_DEADLOCK FALSE
