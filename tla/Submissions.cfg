CONSTANTS
  Employees = {e1}
  Entrances = {entrance}
  Exits = {exit}
  Requests = {r1, r2}
  None = None
  Frames = {"empty", "spoof", "stranger", "blurred", "known"}
  CooldownSeconds = 1
  Prompt = TRUE
  MaxTime = 3
  MaxFaults = 1
  MaxEdits = 1
SPECIFICATION Spec
SYMMETRY Symmetry
INVARIANTS
  TypeOK
  FramesMatchLog
  FeedIsCommitted
