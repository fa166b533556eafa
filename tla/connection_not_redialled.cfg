SPECIFICATION FairSpec
CONSTANTS
    Losses = 1
    Outages = 1
    Refusals = 1
    Publishes = 0
PROPERTIES
    RedialsByItself
