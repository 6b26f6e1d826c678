SPECIFICATION Spec
CONSTANTS
    Tools = {Report, Shell, Recall}
    Report = Report
    None = None
    Policies <- MCPolicies
    FailLimit = 3
    UnboundLimit = 2
    MaxCalls = 2
SYMMETRY ToolSymmetry
INVARIANTS ThreadTellsTheTurn EndingIsRight
PROPERTIES RunIsOneTurn
