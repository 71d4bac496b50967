CONSTANTS
  Employees = {e1}
  Entrances = {entrance}
  Exits = {exit1, exit2}
  Requests = {r1, r2, r3}
  None = None
  Frames = {"known"}
  CooldownSeconds = 1
  Prompt = TRUE
  MaxTime = 1
  MaxFaults = 1
  MaxEdits = 0
SPECIFICATION FairSpec
VIEW WithoutLastSeen
PROPERTIES
  EventuallyAnswered
  ImplementsDoorLedger
