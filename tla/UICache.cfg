SPECIFICATION CacheSpec
CONSTANTS
  Lifetime = 2
  StayBegin = 1
  StayEnd = 2
  MaxAge = 4
INVARIANTS
  ServedInTurn
PROPERTIES
  NeverOlder
  CallersReturn
  LeavesAlone
CHECK_DEADLOCK FALSE
