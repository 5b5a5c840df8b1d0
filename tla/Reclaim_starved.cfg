SPECIFICATION StarvedSpec
CONSTANTS
  Conns = {k1}
  Listeners = {plain}
  NoConn = NoConn
  AcceptFails = FALSE
  Settings <- MCSettings
  Unset = Unset
  DefaultMin = 1
  MaxMain = 2
  MaxBlob = 1
PROPERTY LogReclaimed
CHECK_DEADLOCK FALSE
