SPECIFICATION EmbeddedSpec
CONSTANTS
  Openers = {p1, p2, q}
  MaxInodes = 2
  Local = {p1, p2}
  Calls = {c1, c2}
  NoStore = NoStore
  NoCall = NoCall
  MaxInFlight = 1
  NativeMax = 2
PROPERTY CallsEndWithClose
CHECK_DEADLOCK FALSE
