CONSTANTS
  Events = {e1}
  Sockets = {s1, s2}
  Fetches = {f1, f2}
  None = None
  MaxLogins = 2
  MaxFaults = 1
SPECIFICATION FairSpec
INVARIANTS
  TypeOK
  OneSocket
  LoopsPerLogin
PROPERTIES
  EventuallyFresh
  Settles
  KioskIsAnswered
CHECK_DEADLOCK FALSE
