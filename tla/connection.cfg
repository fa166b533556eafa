SPECIFICATION FairSpec
CONSTANTS
    Losses = 2
    Outages = 2
    Refusals = 1
    Publishes = 2
INVARIANTS
    TypeOK
    ConnectionsArePaid
    SupervisorStays
PROPERTIES
    DropsWhileRedeclaring
    ConsumesAgain
    CloseEndsSupervisor
