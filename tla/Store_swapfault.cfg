CONSTANTS
    Keys = {1, 2}
    Values = {v1}
    CounterMax = 0
    TTLs = {}
    HintEveryN = 0
    ReapCap = 1
    BatchMax = 1
    MaxLog = 3
    MaxTime = 1
SPECIFICATION SwapFaultSpec
INVARIANTS HintRecovers
