SPECIFICATION Spec
CONSTANTS
  Keys = {k1}
  Names = {n1}
  MayExtract = {n1}
  MaxLate = 1
INVARIANT ImmediatesBare
