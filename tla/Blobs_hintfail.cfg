SPECIFICATION SpecHintFails
CONSTANTS
  Keys = {1, 2}
  Vals = {v1}
  MaxGen = 2
  MaxSlots = 2
  MaxLog = 2
  MaxTorn = 1
INVARIANT RefsResolve
