SPECIFICATION FairSpec
CONSTANTS
  Writers = {w1}
  Readers = {r1}
  Compactors = {c1, c2}
  Closers = {x1}
  Reaper = Reaper
  HintWriter = HintWriter
  Nobody = Nobody
  MaxRebuilds = 2
INVARIANTS RebuildAlone HandlesUsable
PROPERTY CallsReturn
