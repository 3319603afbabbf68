CONSTANTS
  k1 = k1
  k2 = k2
  v1 = v1
  v2 = v2
  Keys = {k1, k2}
  Values = {v1, v2}
  Tombstone = Tombstone
  None = None
  SizeOf <- MCSizeOf
  MaxSize = 2
  RecordLen <- MCTwoCells
  L0Threshold = 1
  ClockSteps = {1}
  MaxFailures = 0
  Writers = {w1}
  Readers = {}
  Batches <- OneBatch
  Overhead = 0
  KeyLen = 0
  MaxCalls = 3
  MaxCrashes = 2
  TornPairs <- MCTornPairs
SPECIFICATION RecoverySpec
INVARIANT ViewConsistent
PROPERTIES RestartKeepsWrites TruncationLosesNothing
CHECK_DEADLOCK FALSE
