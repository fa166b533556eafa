SPECIFICATION FairSpec
CONSTANTS
    c1 = c1
    c2 = c2
    c3 = c3
    e1 = e1
    e2 = e2
    Clients = {c1, c2, c3}
    Events = {e1, e2}
    EventOf <- TwoForOne
    Budget <- AllTroubles
INVARIANTS
    TypeOK
    OncePerEvent
    AnswersAreBacked
PROPERTIES
    EveryoneIsServed
    PromiseIsKept
