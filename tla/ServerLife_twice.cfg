SPECIFICATION Spec
CONSTANTS
  Conns = {k1}
  Listeners = {plain, tls}
  NoConn = NoConn
  AcceptFails = TRUE
INVARIANT DbClosedQuiet
CHECK_DEADLOCK FALSE
