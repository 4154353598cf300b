\* Two requests at a time on one consent of one tick or two; the tenant edits the
\* perfume and the administrator has two families.
SPECIFICATION Spec
CONSTANTS
  r1 = r1
  r2 = r2
  c1 = c1
  c2 = c2
  f1 = f1
  f2 = f2
  t1 = t1
  t2 = t2
  Requests = {r1, r2}
  Consents = {c1}
  Families = {f1, f2}
  Texts = {t1, t2}
  MaxTime = 2
  Hour = 2
  MaxVersion = 2
SYMMETRY RequestSymmetry
INVARIANTS
  OperationsCovered
  NoBlindEdit
PROPERTIES
  OverIsOver
