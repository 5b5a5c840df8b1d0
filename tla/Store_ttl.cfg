CONSTANTS
    Keys = {1, 2}
    Values = {v1}
    CounterMax = 1
    TTLs = {1}
    HintEveryN = 0
    ReapCap = 1
    BatchMax = 1
    MaxLog = 3
    MaxTime = 2
SPECIFICATION Spec
INVARIANTS TypeOK
PROPERTIES BackgroundKeepsContents ImplementsKV
