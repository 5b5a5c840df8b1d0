SPECIFICATION EmbeddedSpec
CONSTANTS
  Openers = {p1, p2, q}
  MaxInodes = 2
  Local = {p1, p2}
  Calls = {c1, c2, c3}
  NoStore = NoStore
  NoCall = NoCall
  MaxInFlight = 1
  NativeMax = 2
INVARIANTS EmbeddedTypeOK OneWriterPerFile NoStaleLock NoOrphanStore GateExact
PROPERTY CallsStayHome
CHECK_DEADLOCK FALSE
