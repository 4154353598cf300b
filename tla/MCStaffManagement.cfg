\* Two administrators and one who may be hired, an outlet and one that may be
\* opened: two requests at a time, of any of the operations, while the platform
\* switches the business off and on.
SPECIFICATION Spec
CONSTANTS
  r1 = r1
  r2 = r2
  ann = ann
  bob = bob
  sam = sam
  tia = tia
  x1 = x1
  x2 = x2
  x3 = x3
  p1 = p1
  p2 = p2
  Requests = {r1, r2}
  Users = {ann, bob, sam}
  Owners = {ann, bob}
  Staff = {}
  Outlets = {x1, x2}
  First = x1
  Permissions = {}
  Ops = {"UpdateStaff", "CreateStaff", "ReplaceStaffOutlets", "ReplaceStaffPermissions", "CreateOutlet", "UpdateOutlet"}
INVARIANTS
  OwnerRemains
  ReadsStayCurrent
PROPERTIES
  AuditIsChain
  NobodyStranded
  ImplementsRoster
