SPECIFICATION Spec
CONSTANTS
  b1 = b1  b2 = b2  b3 = b3  k1 = k1  k2 = k2  r1 = r1  r2 = r2  g1 = g1  g2 = g2  sk1 = sk1  sk2 = sk2
  Content = {b1, b2}
  Chunk = {1, 2}
  ChunksOf <- Nested
  Key = {k1}
  Committer = {r1}
  Collector = {g1}
  Calls = {"put", "delete"}
  Jobs = {"blobs", "xorbs", "orphans", "compact"}
  SealKey = {sk1}
  KeyOf <- OneKey
  BlobOrder <- MCBlobOrder
  XorbOrder <- MCXorbOrder
  GroupForXorbs <- OneXorb
  CommitAttempts = 1
  MaxRot = 1
  None = None
  NoProc = NoProc
PROPERTY NewBlobsAvoidDamage
