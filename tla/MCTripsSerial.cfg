SPECIFICATION Spec
CONSTANTS
  None = None
  Keep = Keep
  Users = {u1, u2, u3}
  Admins = {}
  TripIds = {t1}
  Workers = {w1}
  LastDay = 2
  MaxLog = 8
  Isolated = TRUE
SYMMETRY Symmetry
INVARIANTS
  TypeOK
  TimelineChain
  ColumnsMatchStatus
  TripsEndAfterTheyStart
PROPERTIES
  ImplementsLifecycle
