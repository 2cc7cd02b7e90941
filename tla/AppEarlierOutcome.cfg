SPECIFICATION SlowSpec
CONSTANTS
  MaxAttempts = 2
  MaxOthers = 0
PROPERTIES NeverStale
CHECK_DEADLOCK FALSE
