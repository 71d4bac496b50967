CONSTANTS
  Codes = {c1}
  Enrols = {n1}
  Patches = {}
  Deletes = {}
  None = None
  MaxPhotos = 2
  MaxFaults = 1
SPECIFICATION Spec
SYMMETRY Symmetry
INVARIANTS
  NoHalfRegistered
CHECK_DEADLOCK FALSE
