SPECIFICATION Spec
CONSTANTS
    Requests = {k1, k2}
    Owners = {o1}
    Servers = {p1}
    NoServer = NoServer
    BadLines = FALSE
INVARIANT TimeoutsAreIndividual
CHECK_DEADLOCK FALSE
