SPECIFICATION Spec
CONSTANTS
    Actions = {a1, a2}
    Callers = {c1, c2}
    Observers = {}
    Approvers = {p1, p2}
    Remote = {p2}
    Sweepers = {s1}
    NoAction = NoAction
    MaxFaults = 1
INVARIANTS TypeOK AtMostOneWin
PROPERTIES NoLateApproval ImplementsSweptRegister
CHECK_DEADLOCK FALSE
