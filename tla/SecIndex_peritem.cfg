SPECIFICATION SpecPerItem
CONSTANTS
  Keys = {1, 2}
  Indexes = {i1}
  Vals = {v1, v2}
  NoVal = NoVal
  MaxCap = 1
  MaxBatch = 2
PROPERTY BatchMatchesPerItem
