SPECIFICATION LiveSpec
CONSTANTS
  c1 = c1  c2 = c2  g1 = g1  u1 = u1  f1 = f1  f2 = f2  f3 = f3
  Upload = {u1}
  Part = {1}
  File = {f1, f2}
  Body = {x}
  Client = {c1}
  Sweeper = {g1}
  MaxFaults = 1
  None = None

PROPERTIES RequestsEnd StagingIsFreed
