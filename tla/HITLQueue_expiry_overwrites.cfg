SPECIFICATION Spec
CONSTANTS
    Actions = {a1}
    Callers = {c1}
    Observers = {}
    Approvers = {p1}
    Remote = {}
    Sweepers = {s1}
    NoAction = NoAction
    MaxFaults = 0
PROPERTY OnlyPendingExpires
CHECK_DEADLOCK FALSE
