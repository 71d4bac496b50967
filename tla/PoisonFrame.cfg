CONSTANTS
  Frames = {f1, f2}
  Flushes = {k1}
  Poison = {f1}
  LocalCooldown = 2
  MaxTime = 2
  MaxLosses = 1
  MaxReloads = 0
SPECIFICATION FairSpec
PROPERTIES
  QueueDrains
CHECK_DEADLOCK FALSE
