SPECIFICATION Spec
CONSTANTS
  None = None
  Gone = Gone
  TripIds = {t1, t2, t3}
  Years = {2026, 2027}
  Base = 3
  Width = 1
  Workers = {w1, w2}
SYMMETRY Symmetry
INVARIANTS
  NumbersInv
  NextNumberIsFree
PROPERTY
  NumbersOfReportsAreForGood
