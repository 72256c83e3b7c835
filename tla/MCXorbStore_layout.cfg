SPECIFICATION Spec
CONSTANTS
  b1 = b1  b2 = b2  b3 = b3  k1 = k1  k2 = k2  r1 = r1  r2 = r2  g1 = g1  g2 = g2  sk1 = sk1  sk2 = sk2
  Content = {b1}
  Chunk = {1}
  ChunksOf <- Single
  Key = {k1}
  Committer = {r1, r2}
  Collector = {g1}
  Calls = {"put"}
  Jobs = {}
  SealKey = {sk1, sk2}
  KeyOf <- TwoKeys
  BlobOrder <- MCBlobOrder
  XorbOrder <- MCXorbOrder
  GroupForXorbs <- OneXorb
  CommitAttempts = 2
  MaxRot = 0
  None = None
  NoProc = NoProc
INVARIANT RowsDescribeBytes
