SPECIFICATION Spec
CONSTANTS
  None = None
  Keep = Keep
  Users = {u1, u2, u3}
  Admins = {}
  TripIds = {t1}
  Workers = {w1, w2}
  LastDay = 1
  MaxLog = 5
  Isolated = FALSE
SYMMETRY Symmetry
INVARIANTS
  StepsByTheirActor
  DecidersWereAsked
PROPERTIES
  StatusChangesAreRecorded
