SPECIFICATION Spec
CONSTANTS
  None = None
  Keep = Keep
  Users = {u1}
  Admins = {u1}
  KeyIds = {k1, k2, k3}
  Workers = {w1, w2}
  MAX_ACTIVE_KEYS = 1
  ScopeChoices <- SomeScopes
  Lifetimes = {1}
  MaxTime = 1
SYMMETRY Symmetry
INVARIANTS
  TypeOK
  ActiveKeysAreLimited
  UsesAreRecorded
PROPERTIES
  RevokedForGood
  KeysKeepToTheirScopes
