SPECIFICATION Spec
CONSTANTS
    Calls = {c1}
    Inputs <- MCInputs
    UserPolicies <- MCUserPolicies
INVARIANTS DenyWins GapsReachAHuman RiskMatchesDecision DepthOnlyNarrows RulesPullTheirWay
    ReplayMissesNothing
CHECK_DEADLOCK FALSE
