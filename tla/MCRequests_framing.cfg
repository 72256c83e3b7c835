SPECIFICATION MCSpec
CONSTANTS
  Parts = {"framing"}
  u1 = u1  u2 = u2  t1 = t1  t2 = t2  r1 = r1  r2 = r2  b1 = b1
  User = {u1, u2}
  TenantId = {t1}
  Name = {x}
  Namespace = {b1}
  Key = {k1}
  Request = {r1, r2}
  Unowned = Unowned
  All = All
  None = None
  Scopes <- MCScopes

INVARIANT BodiesAreWhole
