SPECIFICATION SessionSpec
CONSTANTS
  MaxCalls = 3
  AuthRequired = FALSE
INVARIANT RepliesExact
CHECK_DEADLOCK FALSE
