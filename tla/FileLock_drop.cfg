SPECIFICATION LockSpecDrop
CONSTANTS
  Openers = {p1, p2, p3}
  MaxInodes = 2
INVARIANT SingleWriter
