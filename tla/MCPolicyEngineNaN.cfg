SPECIFICATION Spec
CONSTANTS
    NaN = NaN
    Policies <- MCPolicies
    ToolCalls <- MCToolCalls
INVARIANT
    CapsAreVerified
CHECK_DEADLOCK FALSE
