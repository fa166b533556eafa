SPECIFICATION Spec
CONSTANTS
    c1 = c1
    c2 = c2
    c3 = c3
    e1 = e1
    e2 = e2
    Clients = {c1, c2}
    Events = {e1}
    EventOf <- TwoForOne
    Budget <- OnlyExpiry
INVARIANTS
    ReplayIsRecognised
