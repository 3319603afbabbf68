CONSTANTS
  k1 = k1
  k2 = k2
  v1 = v1
  v2 = v2
  Keys = {k1, k2}
  Values = {v1, v2}
  Tombstone = Tombstone
  None = None
  SizeOf <- MCSizeOf
  MaxSize = 5
  RecordLen <- MCRecordLen
  L0Threshold = 2
  ClockSteps = {1}
  MaxFailures = 0
  Writers = {w1}
  Readers = {}
  Batches <- ExactBatches
  Overhead = 0
  KeyLen = 1
  MaxCalls = 2
SPECIFICATION FairSpec
PROPERTY FlushAllTerminates
CHECK_DEADLOCK FALSE
