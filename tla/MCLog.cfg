SPECIFICATION LogSpec
CONSTANTS
  MaxSize = 2
  MaxBackups = 3
  Sizes = {1, 2}
  MaxLogs = 6
  MaxLength = 4
INVARIANT KeepsRecent
CHECK_DEADLOCK FALSE
