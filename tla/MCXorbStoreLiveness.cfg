SPECIFICATION MCSpec
CONSTANTS
  b1 = b1  b2 = b2  k1 = k1  k2 = k2  r1 = r1  r2 = r2  g1 = g1  sk1 = sk1
  Content = {b1, b2}
  Chunk = {1}
  ChunksOf <- Repeated
  Key = {k1}
  Committer = {r1, r2}
  Collector = {g1}
  Calls = {"put", "delete"}
  Jobs = {"blobs", "xorbs", "orphans"}
  SealKey = {sk1}
  KeyOf <- OneKey
  BlobOrder <- MCBlobOrder
  XorbOrder <- MCXorbOrder
  GroupForXorbs <- XorbEach
  CommitAttempts = 1
  MaxRot = 0
  None = None
  NoProc = NoProc
  MaxFailures = 1
PROPERTIES RequestsEnd GarbageIsCollected
