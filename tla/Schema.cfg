SPECIFICATION Spec
CONSTANTS
  Keys = {k1}
  Names = {n1, n2}
  MayExtract = {n1}
  MaxLate = 1
INVARIANTS TypeOK CompleteIsComplete LingeringIsKnown
PROPERTY DroppedDataStays
