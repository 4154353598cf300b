\* Two calls under two keys across midnight, with fairness: numbers, replays,
\* conflicts, and an end to every call.
SPECIFICATION FairSpec
CONSTANTS
  r1 = r1
  r2 = r2
  x1 = x1
  x2 = x2
  adm = adm
  staff = staff
  k1 = k1
  k2 = k2
  c1 = c1
  f1 = f1
  s1 = s1
  n1 = n1
  n2 = n2
  Requests = {r1, r2}
  Customers = {c1}
  Services = {s1}
  Outlets = {x1}
  Users = {adm}
  Admins = {adm}
  Keys = {k1, k2}
  Perfumes = {}
  Names = {n1}
  Offers <- OneOffer
  Payloads <- PlainAndUrgent
  DayLength = 1
  MaxTime = 1
  MaxTotal = 2
INVARIANTS
  NumbersGapless
  OneOrderPerKey
  ReadsStayCurrent
PROPERTIES
  ImplementsBook
  EveryCallEnds
