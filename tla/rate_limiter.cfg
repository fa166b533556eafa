SPECIFICATION Spec
CONSTANTS
    Limit = 2
    Window = 3
    Micro = 1000000
    Steps = {1, 3}
    Horizon = 10
    Mishaps = 2
INVARIANTS
    TypeOK
    RateIsBounded
    NobodyStarves
PROPERTIES
    RefillIsExact
