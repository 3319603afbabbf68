CONSTANTS
  k1 = k1
  k2 = k2
  v1 = v1
  v2 = v2
  Keys = {k1, k2}
  Values = {v1, v2}
  Tombstone = Tombstone
  None = None
  SizeOf <- MCSizeOf
  MaxSize = 3
  RecordLen <- MCRecordLen
  L0Threshold = 9
  ClockSteps = {1}
  MaxFailures = 0
  Writers = {w1}
  Readers = {r1}
  Batches <- SmallBatches
  Overhead = 0
  KeyLen = 0
  Spans <- AllKeys
  MaxCalls = 3
SPECIFICATION RangesSpec
INVARIANT RangesAreRegular
PROPERTY ImplementsKVStore
CHECK_DEADLOCK FALSE
