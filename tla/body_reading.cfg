CONSTANTS
    MaxText = 3
    MaxSteering = 5
    Depth = 2
    Limits = {2, 1024}
    OrderLimits = {8, 1024}
    MaxFields = 2
    MaxEntries = 2
    Inputs <- BodyInputs
    Bodies <- MCBodies
SPECIFICATION BodySpec
INVARIANTS TypeOK NothingOpenAbove CountIsFilled ClaimsAreBacked TreeOfDocument FieldsOfText
PROPERTY MatchesBrackets
CHECK_DEADLOCK FALSE
