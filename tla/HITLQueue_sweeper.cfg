SPECIFICATION FairSpec
CONSTANTS
    Actions = {a1}
    Callers = {c1, o1}
    Observers = {o1}
    Approvers = {p1, p2}
    Remote = {p2}
    Sweepers = {s1}
    NoAction = NoAction
    MaxFaults = 2
INVARIANT ApprovalIsBacked
PROPERTIES EveryWaitEnds NothingPendsForever
CHECK_DEADLOCK FALSE
