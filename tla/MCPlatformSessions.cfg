\* Two requests at a time with two families of two tokens.
SPECIFICATION Spec
CONSTANTS
  r1 = r1
  r2 = r2
  f1 = f1
  f2 = f2
  Requests = {r1, r2}
  Families = {f1, f2}
  MaxTokens = 2
SYMMETRY Symmetry
INVARIANTS
  OneAdministrator
  PrivilegedWhileLive
PROPERTIES
  ImplementsLineage
