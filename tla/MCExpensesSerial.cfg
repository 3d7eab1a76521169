SPECIFICATION ExpenseSpec
CONSTANTS
  None = None
  Keep = Keep
  Gone = Gone
  Users = {u1, u2}
  Admins = {}
  TripIds = {t1}
  Workers = {w1}
  ReportWorkers = {r1}
  ItemIds = {i1, i2}
  Amounts = {1, 2}
  MAX_REPORT_TOTAL = 3
  LastDay = 1
  MaxLog = 6
  MaxReportLog = 6
  Isolated = TRUE
SYMMETRY Symmetry
INVARIANTS
  ReportTypeOK
  TotalIsSumOfItems
  SubmittedReportsAreComplete
  ReportColumnsMatchStatus
PROPERTIES
  SubmittedReportsAreFrozen
  ImplementsSettlement
