CONSTANTS
  Employees = {e1}
  Entrances = {entrance1, entrance2}
  Exits = {}
  Requests = {r1, r2}
  None = None
  Frames = {"known"}
  CooldownSeconds = 1
  Prompt = TRUE
  MaxTime = 3
  MaxFaults = 0
  MaxEdits = 0
SPECIFICATION Spec
SYMMETRY Symmetry
INVARIANTS
  OneOpenSession
