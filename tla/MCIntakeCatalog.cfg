\* A call of the owner or of a staff member that reads a service twice and a
\* perfume, while prices, units and names are rewritten, rows deleted, outlets
\* closed and the assignment moved at every point of it.
SPECIFICATION Spec
CONSTANTS
  r1 = r1
  r2 = r2
  x1 = x1
  x2 = x2
  adm = adm
  staff = staff
  k1 = k1
  k2 = k2
  c1 = c1
  f1 = f1
  s1 = s1
  n1 = n1
  n2 = n2
  Requests = {r1}
  Customers = {c1}
  Services = {s1}
  Outlets = {x1, x2}
  Users = {adm, staff}
  Admins = {adm}
  Keys = {k1}
  Perfumes = {f1}
  Names = {n1, n2}
  Offers <- ThreeOffers
  Payloads <- PerfumedLines
  DayLength = 1
  MaxTime = 0
  MaxTotal = 7
SYMMETRY OutletAndNameSymmetry
INVARIANTS
  TypeOK
PROPERTIES
  AcceptedAsOffered
