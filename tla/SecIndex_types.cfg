SPECIFICATION MCSpec
CONSTANTS
  Keys = {1, 2, 3}
  Indexes = {i1, i2}
  Vals = {v1}
  NoVal = NoVal
  MaxCap = 2
  MaxBatch = 2
  QueryKeys = {1, 2, 3, 4}
  QueryVals <- MCQueryVals
  Probes <- MCProbes
  MaxLimit = 2
INVARIANT TypeOK
