SPECIFICATION FairSpec
CONSTANTS
    Callers = {c1, c2, c3}
    Threshold = 2
    Outages = 3
    Cancellations = 1
INVARIANTS
    TypeOK
    OpensInOutagesOnly
PROPERTIES
    Recovers
    Trips
