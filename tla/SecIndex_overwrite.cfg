SPECIFICATION Spec
CONSTANTS
  Keys = {1, 2, 3}
  Indexes = {i1}
  Vals = {v1}
  NoVal = NoVal
  MaxCap = 2
  MaxBatch = 1
PROPERTY OverwriteEvictsNothing
