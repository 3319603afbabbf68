CONSTANTS
  k1 = k1
  k2 = k2
  v1 = v1
  v2 = v2
  Keys = {k1, k2}
  Values = {v1, v2}
  Tombstone = Tombstone
  None = None
  SizeOf <- MCSizeOf
  MaxSize = 2
  RecordLen <- MCRecordLen
  L0Threshold = 0
  ClockSteps = {1}
  MaxFailures = 1
  Writers = {w1, w2}
  Readers = {}
  Batches <- SmallBatches
  Overhead = 0
  KeyLen = 0
  KeyOrder <- MCKeyOrder
  MaxCalls = 3
SPECIFICATION MergesSpec
INVARIANTS ViewConsistent MergeKeepsNewest
PROPERTY DurableBeforeCleared
CHECK_DEADLOCK FALSE
