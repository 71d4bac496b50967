CONSTANTS
  Employees = {e1, e2}
  Entrances = {entrance}
  Exits = {exit}
  Requests = {r1, r2, r3}
  None = None
  Frames = {"known"}
  CooldownSeconds = 1
  Prompt = TRUE
  MaxTime = 3
  MaxFaults = 1
  MaxEdits = 0
SPECIFICATION Spec
SYMMETRY Symmetry
VIEW WithoutLastSeen
INVARIANTS
  OneOpenSession
  OneTransactionPerKey
  RowsAreLogged
  LogsHaveRows
  SwallowedWithoutFaults
  PipelineInvariant
PROPERTIES
  FinishedRowsStay
  ImplementsLedger
