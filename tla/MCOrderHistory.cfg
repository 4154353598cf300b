\* Two transitions of one order, the first of which waited for the second.
SPECIFICATION Spec
CONSTANTS
  r1 = r1
  r2 = r2
  o1 = o1
  o2 = o2
  adm = adm
  staff = staff
  x1 = x1
  x2 = x2
  k1 = k1
  k2 = k2
  Requests = {r1, r2}
  Orders = {o1}
  Outlets = {x1}
  OutletOf <- OneOutlet
  Users = {adm}
  Admins = {adm}
  MaxAmount = 0
  MaxPayments = 0
  Keys = {k1}
  Methods = {"QRIS"}
  Tenders = {1}
  MaxTime = 1
SYMMETRY RequestSymmetry
INVARIANTS
  ListedInOrder
