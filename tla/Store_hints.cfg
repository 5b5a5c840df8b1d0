CONSTANTS
    Keys = {1, 2}
    Values = {v1}
    CounterMax = 1
    TTLs = {}
    HintEveryN = 2
    ReapCap = 1
    BatchMax = 1
    MaxLog = 4
    MaxTime = 1
SPECIFICATION Spec
INVARIANTS IndexMatchesLog HintRecovers
