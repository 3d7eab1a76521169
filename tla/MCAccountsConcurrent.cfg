SPECIFICATION Spec
CONSTANTS
  None = None
  Keep = Keep
  Accounts = {e1, e2}
  FirstAdmin = e1
  EmployeeNumbers = {n1, n2, n3}
  Workers = {w1, w2}
SYMMETRY Symmetry
INVARIANTS
  ActiveAccountsAreComplete
  SessionsWereApproved
CHECK_DEADLOCK FALSE
