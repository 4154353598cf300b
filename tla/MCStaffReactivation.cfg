\* An administrator and a staff member of one outlet, one request at a time.
\* Suspension, closure, resumption.
SPECIFICATION Spec
CONSTANTS
  r1 = r1
  r2 = r2
  ann = ann
  bob = bob
  sam = sam
  tia = tia
  x1 = x1
  x2 = x2
  x3 = x3
  p1 = p1
  p2 = p2
  Requests = {r1}
  Users = {ann, sam}
  Owners = {ann}
  Staff = {sam}
  Outlets = {x1}
  First = x1
  Permissions = {}
  Ops = {"UpdateStaff", "UpdateOutlet"}
INVARIANTS
  ActiveStaffHasOutlet
