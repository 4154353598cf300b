\* An owner and a staff member act on one order while owners deactivate users,
\* move assignments and close outlets.
SPECIFICATION Spec
CONSTANTS
  r1 = r1
  r2 = r2
  o1 = o1
  o2 = o2
  adm = adm
  staff = staff
  x1 = x1
  x2 = x2
  k1 = k1
  k2 = k2
  Requests = {r1, r2}
  Orders = {o1}
  Outlets = {x1, x2}
  OutletOf <- OneOutlet
  Users = {adm, staff}
  Admins = {adm}
  MaxAmount = 1
  MaxPayments = 1
  Keys = {k1}
  Methods = {"QRIS"}
  Tenders = {1}
  MaxTime = 1
SYMMETRY RequestSymmetry
INVARIANTS
  HistoryIsPath
PROPERTIES
  AuthorityInForce
