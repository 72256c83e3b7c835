SPECIFICATION MCSpec
CONSTANTS
  Parts = {"committing"}
  c1 = c1  c2 = c2  g1 = g1  u1 = u1  f1 = f1  f2 = f2  f3 = f3
  Upload = {u1}
  Part = {1, 2}
  File = {f1, f2, f3}
  Body = {x}
  Client = {c1, c2}
  Sweeper = {g1}
  MaxFaults = 1
  None = None

INVARIANT RetriesWriteTheirOwn
