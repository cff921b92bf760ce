SPECIFICATION Spec
CONSTANTS
    Calls = {c1}
    Inputs <- MCInputs
    UserPolicies <- MCUserPolicies
INVARIANT ToolCallsRespectBudget
CHECK_DEADLOCK FALSE
