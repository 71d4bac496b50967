CONSTANTS
  Codes = {c1}
  Enrols = {n1, n2, n3}
  Patches = {p1}
  Deletes = {x1, x2}
  None = None
  MaxPhotos = 2
  MaxFaults = 1
SPECIFICATION Spec
SYMMETRY Symmetry
INVARIANTS
  TypeOK
  ErasedStaysErased
  RowsHavePhotos
  FacesMatchRows
PROPERTIES
  PatchTakesEffect
CHECK_DEADLOCK FALSE
