SPECIFICATION Spec
CONSTANTS
  Conns = {k1, k2}
  Listeners = {plain}
  NoConn = NoConn
  AcceptFails = FALSE
INVARIANT HandlersFinished
CHECK_DEADLOCK FALSE
