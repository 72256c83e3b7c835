SPECIFICATION Spec
CONSTANTS
  b1 = b1  b2 = b2  b3 = b3  k1 = k1  k2 = k2  r1 = r1  r2 = r2  g1 = g1  g2 = g2  sk1 = sk1  sk2 = sk2
  Content = {b1, b2}
  Chunk = {1, 2}
  ChunksOf <- Pair
  Key = {k1}
  Committer = {r1, r2}
  Collector = {g1}
  Calls = {"put", "copy", "delete"}
  Jobs = {"blobs", "xorbs", "orphans"}
  SealKey = {sk1}
  KeyOf <- OneKey
  BlobOrder <- MCBlobOrder
  XorbOrder <- MCXorbOrder
  GroupForXorbs <- XorbEach
  CommitAttempts = 2
  MaxRot = 0
  None = None
  NoProc = NoProc
CONSTRAINT RetriesMeetOne
SYMMETRY Interchangeable
INVARIANTS TypeOK BytesBehindReferences RefcountsExact DeadlocksExpected
