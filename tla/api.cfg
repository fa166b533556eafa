SPECIFICATION Spec
CONSTANTS
    push = push
    sms = sms
    chat = chat
    u1 = u1
    u2 = u2
    t1 = t1
    t2 = t2
    Users = {u1, u2}
    Nobody = Nobody
    Malformed = Malformed
    Skew = 1
    PushChannels = {push}
    AddressChannels = {sms}
    MessagingChannels = {chat}
    Tokens = {t1, t2}
    Handlers = {h1, h2}
    MaxTime = 2
    Ids = {1, 2, 3}
    Filters <- FiltersUsed
    Limits = {1, 2}
    Clients = {c1, c2}
    Calls <- CallsMade
    Submissions <- SubmissionsMade
    Budgets <- Mixes
INVARIANTS
    TypeOK
    SettingsAreAsTold
    OptOutIsRespected
    PushReachesLastLogin
    PagesAreComplete
SYMMETRY Symmetry
CHECK_DEADLOCK FALSE
