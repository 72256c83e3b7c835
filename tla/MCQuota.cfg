SPECIFICATION Spec
CONSTANTS
  n1 = n1  n2 = n2  d1 = d1  d2 = d2  w1 = w1  w2 = w2  f1 = f1  f2 = f2
  Namespace = {n1, n2}
  Key = {k}
  Size = {1, 2}
  Limit = 2
  Writer = {w1, w2}
  Folder = {f1, f2}
  DeltaId = {d1, d2}
  None = None

CONSTRAINT InScope
SYMMETRY Interchangeable
INVARIANTS TypeOK UsageIsExact WithinQuota
PROPERTIES RefusalsAreJust
