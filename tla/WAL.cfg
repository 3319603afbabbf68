CONSTANTS
  RecordLen <- MCRecordLen
  MaxRecords = 5
  MaxCrashes = 2
SPECIFICATION Spec
INVARIANTS TypeOK ReplayInOrder NoLossWithoutDamage OffsetIsWhereRecordIs
CHECK_DEADLOCK FALSE
