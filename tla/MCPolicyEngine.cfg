SPECIFICATION Spec
CONSTANTS
    NaN = NaN
    Policies <- MCPolicies
    ToolCalls <- MCToolCalls
INVARIANTS
    EvaluatesToMeaning
    AllowIsUnanimous
CHECK_DEADLOCK FALSE
