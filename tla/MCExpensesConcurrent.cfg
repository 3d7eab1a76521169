SPECIFICATION ExpenseSpec
CONSTANTS
  None = None
  Keep = Keep
  Gone = Gone
  Users = {u1, u2}
  Admins = {}
  TripIds = {t1}
  Workers = {w1}
  ReportWorkers = {r1, r2}
  ItemIds = {i1}
  Amounts = {1}
  MAX_REPORT_TOTAL = 1
  LastDay = 1
  MaxLog = 4
  MaxReportLog = 6
  Isolated = FALSE
SYMMETRY Symmetry
INVARIANTS
  ReportDecidersWereAsked
  ApprovalsSettleCompletedTrips
