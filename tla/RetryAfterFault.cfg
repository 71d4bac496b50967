CONSTANTS
  Employees = {e1}
  Entrances = {entrance}
  Exits = {exit}
  Requests = {r1, r2}
  None = None
  Frames = {"known"}
  CooldownSeconds = 1
  Prompt = TRUE
  MaxTime = 3
  MaxFaults = 1
  MaxEdits = 0
SPECIFICATION Spec
SYMMETRY Symmetry
INVARIANTS
  SwallowedIsRegistered
