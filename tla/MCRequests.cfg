SPECIFICATION MCSpec
CONSTANTS
  Parts = {"teams", "listing", "framing", "keys", "signing"}
  u1 = u1  u2 = u2  t1 = t1  t2 = t2  r1 = r1  r2 = r2  b1 = b1
  User = {u1, u2}
  TenantId = {t1}
  Name = {x}
  Namespace = {b1}
  Key = {k1}
  Request = {r1, r2}
  Unowned = Unowned
  All = All
  None = None
  Scopes <- MCScopes

SYMMETRY Interchangeable
INVARIANTS TenantsHaveOwners NothingOutlivesItsTeam AuditReplays DeadlocksExpected
           PartsTypeOK ListsWhatStays BodiesMeetTheirClaims
           KeysOnRecord StoredIsReadable EndedStaysEnded
PROPERTIES DeletionIsRecordedLast MembersJoinByInvitation
