CONSTANTS
  k1 = k1
  k2 = k2
  v1 = v1
  v2 = v2
  Keys = {k1, k2}
  Values = {v1, v2}
  Tombstone = Tombstone
  None = None
  SizeOf <- MCSizeOf
  MaxSize = 2
  RecordLen <- MCRecordLen
  L0Threshold = 9
  ClockSteps = {1}
  MaxFailures = 0
  Writers = {w1}
  Readers = {}
  Batches <- NoBatches
  Overhead = 0
  KeyLen = 1
  MaxCalls = 3
SPECIFICATION Spec
INVARIANT NoDataLoss
CHECK_DEADLOCK FALSE
