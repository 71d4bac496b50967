CONSTANTS
  Codes = {c1}
  Enrols = {n1}
  Patches = {}
  Deletes = {x1}
  None = None
  MaxPhotos = 2
  MaxFaults = 0
SPECIFICATION Spec
SYMMETRY Symmetry
INVARIANTS
  DeletionCompletes
CHECK_DEADLOCK FALSE
