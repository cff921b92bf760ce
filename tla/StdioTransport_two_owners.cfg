SPECIFICATION FairSpec
CONSTANTS
    Requests = {k1}
    Owners = {o1, o2}
    Servers = {p1, p2}
    NoServer = NoServer
    BadLines = TRUE
INVARIANTS TypeOK NoServerOutlivesStop PendingIsTrue SomebodyReads
PROPERTY EverybodyReturns
CHECK_DEADLOCK FALSE
