SPECIFICATION Spec
CONSTANTS
  Keys = {1, 2}
  Vals = {v1, v2}
  MaxGen = 2
  MaxSlots = 2
  MaxLog = 2
  MaxTorn = 1
INVARIANTS TypeOK RefsResolve
PROPERTY OnlyWritesChange
SYMMETRY Symmetry
