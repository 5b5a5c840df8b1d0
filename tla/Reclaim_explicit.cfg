SPECIFICATION MCSpec
CONSTANTS
  Conns = {k1, k2}
  Listeners = {plain, tls}
  NoConn = NoConn
  AcceptFails = TRUE
  Settings <- MCSettings
  Unset = Unset
  DefaultMin = 1
  MaxMain = 4
  MaxBlob = 3
INVARIANT ExplicitWins
CHECK_DEADLOCK FALSE
