SPECIFICATION Spec
CONSTANTS
    Notifications = {n1, n2}
    Relays = {r1, r2}
    Workers = {w1}
    Janitors = {}
    MaxRetries = 0
    ScheduleLen = 5
    RelayBatch = 2
    JanitorBatch = 1
    FaultBudget <- RelayFaults
    NoMsg = NoMsg
SYMMETRY Symmetry
INVARIANTS
    OnlyAccepted
    DuplicatesArePaid
    DeliveryInv
