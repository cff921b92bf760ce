SPECIFICATION FairSpec
CONSTANTS
    Runs = {r1}
    SessionIds = {s1}
    Calls = {k1, k2}
    NoCall = NoCall
    MaxTurns = 2
    MaxRetries = 1
    WithFallback = {r1}
    WithQueue = {r1}
    WithBudget = {r1}
    Budget = 2
    MaxTokens = 1
    AuditMayFail = {}
    Answers <- SomeAnswers
    Clients <- MCClients
    CallbackMayRaise = TRUE
INVARIANTS TypeOK ExhaustedBudgetStops ReportIsTrue
PROPERTY EveryRunEnds
CHECK_DEADLOCK FALSE
