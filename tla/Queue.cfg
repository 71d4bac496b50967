CONSTANTS
  Frames = {f1, f2, f3}
  Flushes = {k1, k2}
  Poison = {f1}
  LocalCooldown = 2
  MaxTime = 3
  MaxLosses = 2
  MaxReloads = 1
SPECIFICATION FairSpec
INVARIANTS
  TypeOK
  QueuedUntilServed
PROPERTIES
  QueueIsFifo
  EventuallyFlushed
  BackToIdle
CHECK_DEADLOCK FALSE
