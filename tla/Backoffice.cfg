CONSTANTS
  Devices = {d1}
  RateLimit = 1
  RateWindow = 2
  Registrations = {g1, g2}
  Rotations = {t1, t2}
  Requests = {r1, r2}
  Patience = 1
  MaxFaults = 1
  Employees = {e1}
  Submissions = {s1, s2, s3}
  Keys = {k1}
  DayLength = 2
  Latency = 1
  MaxRestarts = 1
  Models = 2
  Unit = 10
  Threshold = 9
  Frames = {f1, f2}
  Flushes = {u1, u2}
  Poison = {}
  LocalCooldown = 1
  MaxLosses = 2
  MaxReloads = 1
  Cooldown = 2
  None = None
  MaxTime = 3
SPECIFICATION Spec
INVARIANTS
  TypeOK
  WithinRateLimit
  WorkingKeyIsKnown
  LastSeenKeepsUp
  DurationsBounded
  Unanimous
  NothingIsLost
PROPERTIES
  ReplacedKeyIsDead
  SettledDaysKeepRows
  FramesStayReadable
CHECK_DEADLOCK FALSE
