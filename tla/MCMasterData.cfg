SPECIFICATION Spec
CONSTANTS
  None = None
  Keep = Keep
  Workers = {w1, w2}
  Rows <- OneOfEach
  MaxRows = 3
SYMMETRY Symmetry
INVARIANTS
  ReferencesInv
  NothingDangles
