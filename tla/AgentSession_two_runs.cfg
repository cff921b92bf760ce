SPECIFICATION Spec
CONSTANTS
    Runs = {r1, r2}
    SessionIds = {s1, s2}
    Calls = {k1, k2}
    NoCall = NoCall
    MaxTurns = 1
    MaxRetries = 0
    WithFallback = {}
    WithQueue = {r1}
    WithBudget = {}
    Budget = 1
    MaxTokens = 0
    AuditMayFail = {k2}
    Answers <- SomeAnswers
    Clients <- OneClient
    CallbackMayRaise = TRUE
SYMMETRY Symmetry
INVARIANTS OnlyGovernedCallsRun NoTokenOutlivesRun AuditIsTrue
PROPERTY ImplementsGovernance
CHECK_DEADLOCK FALSE
