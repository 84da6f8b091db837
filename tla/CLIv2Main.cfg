SPECIFICATION MainSpec
CONSTANT ExitCodes = {1, 2, 3}
INVARIANTS
  LegacyOnce
  ExitIsHonest
CHECK_DEADLOCK FALSE
