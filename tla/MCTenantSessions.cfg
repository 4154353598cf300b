\* Two requests for one family of three tokens: refreshes, replays whose clients
\* hang up, logins and logouts race, and the business and the staff member
\* are switched off and on and moved between outlets.
SPECIFICATION FairSpec
CONSTANTS
  r1 = r1
  r2 = r2
  ann = ann
  sam = sam
  f1 = f1
  f2 = f2
  here = here
  nowhere = nowhere
  Requests = {r1, r2}
  Users = {sam}
  Owners = {}
  Families = {f1}
  MaxTokens = 3
  Assignments = {here, nowhere}
  NoOutlet = nowhere
INVARIANTS
  OneLiveToken
PROPERTIES
  ImplementsLineage
  ReplayContained
