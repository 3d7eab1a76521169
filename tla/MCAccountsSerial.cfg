SPECIFICATION Spec
CONSTANTS
  None = None
  Keep = Keep
  Accounts = {e1, e2, e3}
  FirstAdmin = e1
  EmployeeNumbers = {n1, n2, n3, n4}
  Workers = {w1}
SYMMETRY Symmetry
INVARIANTS
  TypeOK
  AdminRemains
  SessionsOfActiveAccounts
PROPERTIES
  ImplementsSignup
