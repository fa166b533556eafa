SPECIFICATION Spec
CONSTANTS
    Renderers = {r1}
    Writers = {w1, w2}
    LocalTTL = 2
    RedisTTL = 3
    MaxCall = 2
INVARIANTS
    TypeOK
    StalenessIsBounded
    ReadsAreRecent
