\* Two requests of one owner on one order: every interleaving of payments,
\* retries, voids, transitions and cancellation.
SPECIFICATION Spec
CONSTANTS
  r1 = r1
  r2 = r2
  o1 = o1
  o2 = o2
  adm = adm
  staff = staff
  x1 = x1
  x2 = x2
  k1 = k1
  k2 = k2
  Requests = {r1, r2}
  Orders = {o1}
  Outlets = {x1}
  OutletOf <- OneOutlet
  Users = {adm}
  Admins = {adm}
  MaxAmount = 3
  MaxPayments = 2
  Keys = {k1, k2}
  Methods = {"CASH", "QRIS"}
  Tenders = {2, 4}
  MaxTime = 0
SYMMETRY RequestAndKeySymmetry
INVARIANTS
  TypeOK
  LedgerBalanced
  CancelledHoldsNoMoney
  RetriesAgree
  ReadsStayCurrent
PROPERTIES
  ReceiptsArePermanent
  ImplementsAccount
