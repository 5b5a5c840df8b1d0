SPECIFICATION SessionFairSpec
CONSTANTS
  MaxCalls = 3
  AuthRequired = TRUE
INVARIANTS SessionTypeOK RepliesMatch RanAsGranted
PROPERTY CallsSettle
CHECK_DEADLOCK FALSE
