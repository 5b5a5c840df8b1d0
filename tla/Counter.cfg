CONSTANTS
    MaxInt = 7
    Digits = 1
    Milli = 3
    TTLs = {0, 1, 2, 4, 6, 7}
    MaxTime = 2
    Cap = 7
    Debt = 0
SPECIFICATION Spec
INVARIANTS RepliesAddUp StepsExact TTLHonoured
PROPERTIES WindowFixed
