CONSTANTS
  c1 = c1
  c2 = c2
  t1 = t1
  t2 = t2
  t3 = t3
  v1 = v1
  v2 = v2
  Keys = {1, 2}
  Values = {v1, v2}
  None = None
  ChunkSize = 1
  Clients = {c1, c2}
  Tasks = {t1, t2, t3}
  ClientOf <- MCClientOf
  RequestsOf <- TwoRanges
  MaxConnects <- MCMaxConnects
  MaxFaults = 2
SPECIFICATION Spec
INVARIANT RangesComplete
CHECK_DEADLOCK FALSE
