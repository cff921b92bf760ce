SPECIFICATION FairSpec
CONSTANTS
    c1 = c1
    c2 = c2
    c3 = c3
    q1 = q1
    main = main
    own = own
    Calls = {c1, c2, c3}
    Closers = {q1}
    NoCall = NoCall
    NoLoop = NoLoop
    LoopOf <- MCLoopOf
    Permitted = {c1, c3}
    Wirings <- MCWirings
INVARIANTS OnlyPermittedRan MessagesAreTrue ClientsFit
PROPERTIES ImplementsGovernance EveryCallEnds
CHECK_DEADLOCK FALSE
