SPECIFICATION Spec
CONSTANTS
  None = None
  u1 = u1
  u2 = u2
  k1 = k1
  k2 = k2
  Tabs = {b1, b2}
  Users = {u1, u2}
  Tokens = {k1, k2}
  Owner <- OwnerOf
  Requests = {q1, q2}
INVARIANTS
  TypeOK
  UserIsOfTheToken
PROPERTIES
  RemovedTokensStayRemoved
  WaitingEnds
  ExpiredSessionsEnd
