\* Two requests at a time in each component, one in the reports.
SPECIFICATION MCSpec
CONSTANTS
  adm = adm
  x1 = x1
  x2 = x2
  small = small
  Small = Small
  big = big
  huge = huge
  ours = ours
  theirs = theirs
  Requests = {r1, r2}
  Emails = {small, Small, big}
  Lower <- LowerCase
  MaxBusinesses = 3
  Users = {adm, sam}
  Admins = {adm}
  Outlets = {x1}
  Expenses = {e1}
  Categories = {k1}
  Headings = {n1}
  Amounts = {few, many}
  MaxExpenseVersion = 2
  Perfumes = {p1, p2}
  Services = {s1, s2}
  Customers = {c1}
  Names = {small, Small}
  Units = {kg}
  MaxVersion = 3
  Templates = {1, 2, 3}
  Titles = {small, big, huge}
  Rows <- ListedRows
  Branches = {x1, x2}
  Business = ours
  PageSizes = {1, 2}
  MaxToday = 2
  MaxChanges = 1
  Orders = {1, 2}
  Customer <- CustomerOf
  Total <- TotalOf
  Payments = {1, 2}
  Methods = {cash, qris}
  Receipts = {1}
  DayLength = 2
  Offset = 1
  MaxClock = 2
  MaxReportRangeDays = 3
  Keys = {small, big, huge}
  Capacity = 2
  Limit = 2
  Window = 2
  MaxTime = 2
SYMMETRY RequestAndAmountSymmetry
INVARIANTS
  NothingMissed
  ReportsBalance
  TenantsWhole
  LimiterHolds
PROPERTIES
  ExpensesRecorded
  CatalogsKept
  TemplatesServed
  ClosedDaysOnlyLose
