CONSTANTS
  Size = 5
  MaxRequest = 2
  Coalescing = FALSE
SPECIFICATION WalkSpec
INVARIANTS NoFalseAlarm DamageIsFound
PROPERTIES CompactMergesAll NothingMissed
