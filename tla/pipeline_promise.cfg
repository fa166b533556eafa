SPECIFICATION FairSpec
CONSTANTS
    Notifications = {n1}
    Relays = {r1}
    Workers = {w1}
    Janitors = {j1}
    MaxRetries = 1
    ScheduleLen = 5
    RelayBatch = 1
    JanitorBatch = 1
    FaultBudget <- PromiseFaults
    NoMsg = NoMsg
PROPERTIES
    PromiseIsKept
