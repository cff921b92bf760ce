SPECIFICATION Spec
CONSTANTS
    Tokens = {t1, t2, t3}
    Sessions = {s1, s2}
    Scopes = {read, pay}
    NoToken = NoToken
    MaxTime = 2
    Expiries = {1, 2}
    MaxFaults = 2
SYMMETRY Symmetry
INVARIANTS RevocationIsDurable HeldStaysUsable NoOrphans DelegationNarrows
PROPERTY ImplementsTokenRegister
CHECK_DEADLOCK FALSE
