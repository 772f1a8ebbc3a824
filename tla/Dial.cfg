SPECIFICATION DialFairSpec
CONSTANTS
    N = 3
INVARIANTS
    DialTypeOK
    NoneLost
    FirstThatResponds
PROPERTIES
    DialEnds
CHECK_DEADLOCK FALSE
