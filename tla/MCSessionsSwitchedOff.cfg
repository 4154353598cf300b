\* A login under way while the platform switches the business off.
SPECIFICATION Spec
CONSTANTS
  r1 = r1
  r2 = r2
  ann = ann
  sam = sam
  f1 = f1
  f2 = f2
  here = here
  nowhere = nowhere
  Requests = {r1}
  Users = {sam}
  Owners = {}
  Families = {f1}
  MaxTokens = 2
  Assignments = {here, nowhere}
  NoOutlet = nowhere
PROPERTIES
  NoLoginWhileOff
