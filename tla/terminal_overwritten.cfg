SPECIFICATION Spec
CONSTANTS
    Notifications = {n1}
    Relays = {r1}
    Workers = {w1, w2}
    Janitors = {}
    MaxRetries = 1
    ScheduleLen = 5
    RelayBatch = 1
    JanitorBatch = 1
    FaultBudget <- NoFaults
    NoMsg = NoMsg
PROPERTIES
    TerminalIsFinal
