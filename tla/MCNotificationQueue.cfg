SPECIFICATION FairSpec
CONSTANTS
    j1 = j1
    j2 = j2
    w1 = w1
    w2 = w2
    a1 = a1
    Jobs = {j1, j2}
    Configured = {j1}
    None = none
    none = none
    Runs = {w1, w2}
    Admins = {a1}
    MaxAttempts = 2
    MaxAsks <- AsksOfSent
    MaxDeaths = 1
    PromptRuns = TRUE
CHECK_DEADLOCK FALSE
INVARIANTS DeliveredOnce CallsAreBounded RecordIsHonest
PROPERTIES EventuallySettled
